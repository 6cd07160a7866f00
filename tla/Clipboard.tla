------------------------------- MODULE Clipboard -------------------------------
(***************************************************************************)
(* The clipboard of one session: the channel handlers of channel.cc and    *)
(* clipboard.cc, which FreeRDP calls on the client's side of the           *)
(* connection, and sendClipboard (session.js, bridge.cc, rdp.cc), which    *)
(* writes the same NodeClipboard from the main thread, without a lock.     *)
(* A text is its number: 0 is the default text, n the n-th that            *)
(* sendClipboard was called with.                                          *)
(***************************************************************************)
EXTENDS Integers

CONSTANTS MaxTexts,     \* bound: calls of sendClipboard
          Chars,        \* number of UTF-16 units of each text
          MaxRequests,  \* bound: data requests of the server
          MaxOpens,     \* bound: times the channel is opened
          Patient       \* the application waits until the channel is open

Texts == 0 .. MaxTexts

ASSUME ClipboardAssumption ==
  /\ MaxTexts \in Nat
  /\ Chars \in [Texts -> Nat]
  /\ MaxRequests \in Nat
  /\ MaxOpens \in Nat
  /\ Patient \in BOOLEAN

VARIABLES
  subscribed,  \* "no", "yes", or "failed" when the add-ins cannot be loaded
  channel,     \* the cliprdr channel: "closed", "open", "greeted", "ready"
  opens,       \* how often it has been opened
  before,      \* history: the text of set_data when it was last opened
  astride,     \* history: set_data was at work when it was last opened
  clipboard,   \* nContext->clipboard, {} for NULL
  setter,      \* where the main thread is inside node_freerdp_cliprdr_set_data
  text,        \* the text it was last called with
  announced,   \* the text of the last format list sent since the opening
  request,     \* the server's data request that is being handled, if any
  requests,    \* number of data requests so far
  responses,   \* what was sent in answer to them
  crashed

clipboardVars == <<subscribed, channel, opens, before, astride, clipboard, setter,
                   text, announced, request, requests, responses, crashed>>

\* Mutant of Size: the terminating zero is left out.
BareSize(t) == Chars[t] * 2

\* A terminating zero is counted in, and two bytes a unit.
Size(t) == (Chars[t] + 1) * 2

\* No format list has been sent.
None == -1

\* Mutant of Record: no default text.
NoRecord(t) == [length |-> 0, buffer |-> None]

Record(t) == [length |-> Size(t), buffer |-> t]

Init ==
  /\ subscribed = "no"
  /\ channel = "closed"
  /\ opens = 0
  /\ before = 0
  /\ astride = FALSE
  /\ clipboard = {}
  /\ setter = "idle"
  /\ text = 0
  /\ announced = None
  /\ request = {}
  /\ requests = 0
  /\ responses = {}
  /\ crashed = FALSE

\* A wild store ends the process.
Running == ~crashed

\* The main thread is not inside node_freerdp_cliprdr_set_data.
Quiet == setter = "idle"

--------------------------------------------------------------------------------
(* The connection, on the client thread and the channel's own.             *)

\* nodefreerdp_pre_connect: when the add-ins cannot be loaded it returns -1,
\* which is TRUE, and the connection goes on without the subscriptions.
PreConnect ==
  /\ Running
  /\ subscribed = "no"
  /\ subscribed' \in {"yes", "failed"}
  /\ UNCHANGED <<channel, opens, before, astride, clipboard, setter, text, announced,
                 request, requests, responses, crashed>>

\* node_cliprdr_init: a new record, with the default text, at every opening.
ChannelConnected ==
  /\ Running
  /\ subscribed # "no"
  /\ channel = "closed"
  /\ opens < MaxOpens
  /\ channel' = "open"
  /\ opens' = opens + 1
  /\ before' = text
  /\ astride' = ~Quiet
  /\ announced' = None
  /\ clipboard' = IF subscribed = "yes" THEN {Record(0)} ELSE {}
  /\ UNCHANGED <<subscribed, setter, text, request, requests, responses,
                 crashed>>

\* node_cliprdr_uninit: the record is forgotten.  None of the channel's handlers
\* is at work by then.
ChannelDisconnected ==
  /\ Running
  /\ channel \in {"open", "ready"}
  /\ request = {}
  /\ channel' = "closed"
  /\ clipboard' = {}
  /\ UNCHANGED <<subscribed, opens, before, astride, setter, text, announced, request, requests,
                 responses, crashed>>

\* node_cliprdr_monitor_ready sends the capabilities and, unless that fails, the
\* first format list.
SendCapabilities ==
  /\ Running
  /\ subscribed = "yes"
  /\ channel = "open"
  /\ channel' \in {"greeted", "ready"}
  /\ UNCHANGED <<subscribed, opens, before, astride, clipboard, setter, text, announced,
                 request, requests, responses, crashed>>

SendFirstFormatList ==
  /\ Running
  /\ channel = "greeted"
  /\ channel' = "ready"
  /\ announced' \in {c.buffer : c \in clipboard}
  /\ UNCHANGED <<subscribed, opens, before, astride, clipboard, setter, text, request,
                 requests, responses, crashed>>

\* The server asks for what a format list offered.  For the properties below,
\* "since" and "quiet" note what had been announced and that set_data was not at
\* work, "before" and "astride" what is known of the channel's opening.
DataRequest ==
  /\ Running
  /\ channel # "closed" /\ announced # None
  /\ request = {}
  /\ requests < MaxRequests
  /\ requests' = requests + 1
  /\ request' = {[at |-> "asked", length |-> 0, since |-> announced,
                  quiet |-> Quiet, text |-> text, before |-> before,
                  astride |-> astride]}
  /\ UNCHANGED <<subscribed, channel, opens, before, astride, clipboard, setter, text,
                 announced, responses, crashed>>

\* node_cliprdr_server_format_data_request goes on to answer only if the length
\* is positive.
CheckLength ==
  \E r \in request, c \in clipboard :
    /\ Running
    /\ r.at = "asked"
    /\ request' = IF c.length > 0 THEN {[r EXCEPT !.at = "checked"]} ELSE {}
    /\ UNCHANGED <<subscribed, channel, opens, before, astride, clipboard, setter, text,
                   announced, requests, responses, crashed>>

\* It reads the length again, for the response.
ReadLength ==
  \E r \in request, c \in clipboard :
    /\ Running
    /\ r.at = "checked"
    /\ request' = {[r EXCEPT !.at = "sized", !.length = c.length]}
    /\ UNCHANGED <<subscribed, channel, opens, before, astride, clipboard, setter, text,
                   announced, requests, responses, crashed>>

\* It reads the buffer and sends the response.
ReadBuffer ==
  \E r \in request, c \in clipboard :
    /\ Running
    /\ r.at = "sized"
    /\ request' = {}
    /\ responses' = responses \cup
         {[n |-> requests, length |-> r.length, buffer |-> c.buffer,
           since |-> r.since, text |-> text, before |-> r.before,
           astride |-> r.astride, quiet |-> r.quiet /\ Quiet /\ r.text = text]}
    /\ UNCHANGED <<subscribed, channel, opens, before, astride, clipboard, setter, text,
                   announced, requests, crashed>>

--------------------------------------------------------------------------------
(* node_freerdp_cliprdr_set_data, on the main thread.                      *)

\* sendClipboard copies the text to a buffer of its own.
SendClipboard ==
  /\ Running
  /\ setter = "idle"
  /\ text < MaxTexts
  /\ Patient => clipboard # {}
  /\ text' = text + 1
  /\ setter' = "length"
  /\ UNCHANGED <<subscribed, channel, opens, before, astride, clipboard, announced,
                 request, requests, responses, crashed>>

\* Mutant of SetLength: the format list is sent before the text is stored.
SetLengthAnnouncing ==
  /\ Running
  /\ setter = "length"
  /\ setter' = "buffer"
  /\ clipboard' = {[c EXCEPT !.length = Size(text)] : c \in clipboard}
  /\ announced' = text
  /\ crashed' = (clipboard = {})
  /\ UNCHANGED <<subscribed, channel, opens, before, astride, text, request, requests, responses>>

\* Mutant of SetLength: a longer text keeps the old length.
SetLengthOnce ==
  /\ Running
  /\ setter = "length"
  /\ setter' = "buffer"
  /\ clipboard' = {[c EXCEPT !.length = IF @ > Size(text) THEN Size(text) ELSE @] :
                     c \in clipboard}
  /\ crashed' = (clipboard = {})
  /\ UNCHANGED <<subscribed, channel, opens, before, astride, text, announced, request,
                 requests, responses>>

\* Each of the two stores reads nContext->clipboard again.
SetLength ==
  /\ Running
  /\ setter = "length"
  /\ setter' = "buffer"
  /\ clipboard' = {[c EXCEPT !.length = Size(text)] : c \in clipboard}
  /\ crashed' = (clipboard = {})
  /\ UNCHANGED <<subscribed, channel, opens, before, astride, text, announced, request,
                 requests, responses>>

SetBuffer ==
  /\ Running
  /\ setter = "buffer"
  /\ setter' = "announce"
  /\ clipboard' = {[c EXCEPT !.buffer = text] : c \in clipboard}
  /\ crashed' = (clipboard = {})
  /\ UNCHANGED <<subscribed, channel, opens, before, astride, text, announced, request,
                 requests, responses>>

\* cliprdr_send_format_list: nothing leaves when the channel is closed.
AnnounceText ==
  /\ Running
  /\ setter = "announce"
  /\ setter' = "idle"
  /\ announced' = IF channel = "closed" THEN announced ELSE text
  /\ UNCHANGED <<subscribed, channel, opens, before, astride, clipboard, text, request,
                 requests, responses, crashed>>

--------------------------------------------------------------------------------
ChannelStep ==
  \/ PreConnect \/ ChannelConnected \/ ChannelDisconnected
  \/ SendCapabilities \/ SendFirstFormatList
  \/ DataRequest \/ CheckLength \/ ReadLength \/ ReadBuffer

MainStep == SendClipboard \/ SetLength \/ SetBuffer \/ AnnounceText

Next == ChannelStep \/ MainStep

Spec == Init /\ [][Next]_clipboardVars

--------------------------------------------------------------------------------
Request == [at : {"asked", "checked", "sized"}, length : Nat, since : Texts,
            quiet : BOOLEAN, text : Texts, before : Texts, astride : BOOLEAN]
Response == [n : Nat, length : Nat, buffer : Texts, since : Texts,
             text : Texts, quiet : BOOLEAN, before : Texts, astride : BOOLEAN]

\* The type invariant of the clipboard's state.
TypeOK ==
  /\ subscribed \in {"no", "yes", "failed"}
  /\ channel \in {"closed", "open", "greeted", "ready"}
  /\ opens \in 0 .. MaxOpens
  /\ before \in Texts
  /\ astride \in BOOLEAN
  /\ clipboard \subseteq [length : Nat, buffer : Texts]
  /\ setter \in {"idle", "length", "buffer", "announce"}
  /\ text \in Texts
  /\ announced \in Texts \cup {None}
  /\ request \subseteq Request
  /\ requests \in 0 .. MaxRequests
  /\ responses \subseteq Response
  /\ crashed \in BOOLEAN

\* Every opening of the channel puts the default text in the place of the
\* application's (clipboard.cc:64-68), and a call of sendClipboard that is at
\* work then may end up on either side.  Certain is what was set since.
Certain(r, t) == t > r.before \/ ~r.astride

\* The bytes of an answer are never older than the format list the server acts
\* on, at any opening of the channel: set_data stores the text before it
\* announces it (rdp.cc:316-318), and an opening announces what it has stored.
ResponseNotStale ==
  \A r \in responses : Certain(r, r.since) => r.buffer >= r.since

\* An answer that no call of sendClipboard overlaps holds the text of the last
\* call since the channel was opened, or the default text if there was none: all
\* of it and nothing beyond it (rdp.cc:312-319, clipboard.cc:43-68).
QuietResponseIsLatest ==
  \A r \in responses :
    r.quiet /\ Certain(r, r.text) =>
      LET latest == IF r.text > r.before THEN r.text ELSE 0
      IN  r.buffer = latest /\ r.length = Size(latest)

\* An opening that falls between the two stores of set_data (rdp.cc:316-317) leaves
\* a record with one text's length and the other's bytes; the next call of
\* sendClipboard heals it, and nothing else ever leaves a torn record behind: when
\* no call is at work the record is the last text since the opening, whole.
RecordHeals ==
  Quiet /\ (text > before \/ ~astride) =>
    \A c \in clipboard : c = Record(IF text > before THEN text ELSE 0)

\* No request of the server is left without an answer: the length is positive
\* whatever the application sends, the empty text included (bridge.cc:86-87).
EveryRequestAnswered ==
  request = {} => \A i \in 1 .. requests : \E r \in responses : r.n = i

\* An application that waits for the channel before it calls sendClipboard has
\* it write through NULL only if the channel has been closed since and not been
\* opened again: no reopening and no other channel leaves the record missing
\* (rdp.cc:312-319, channel.cc:22-36).
PatientCrashOnlyClosed == Patient /\ crashed => channel = "closed"

\* "Support remote app, clipboard" (README.md:12): an answer holds a text that
\* was on the clipboard, with that text's length.
ResponseIsWhole == \A r \in responses : r.length = Size(r.buffer)

\* README.md:29-31 sends a text when a timer has run for three seconds, whatever
\* has become of the channel by then.
SendNeverCrashes == ~crashed
================================================================================
