----------------------------- MODULE ClipboardProofs -----------------------------
(***************************************************************************)
(* Proofs about Clipboard, for every number of texts of any length, of     *)
(* requests and of openings of the channel, and about Channels: whatever   *)
(* the remote application channel does, the clipboard's steps are those of *)
(* Clipboard, and whatever the clipboard does, orders come in sequence.    *)
(***************************************************************************)
EXTENDS Channels, TLAPS

--------------------------------------------------------------------------------
(* Types.                                                                  *)

LEMMA Sizes ==
  ASSUME NEW t \in Texts
  PROVE  Size(t) \in Nat /\ Size(t) > 0
BY ClipboardAssumption DEF Size

LEMMA TextTypes == 0 \in Texts /\ \A t \in Texts : t \in Nat /\ t <= MaxTexts
BY ClipboardAssumption DEF Texts

\* The response to request r, with record c.
Answer(r, c) ==
  /\ r.at = "sized"
  /\ request' = {}
  /\ responses' = responses \cup
       {[n |-> requests, length |-> r.length, buffer |-> c.buffer,
         since |-> r.since, text |-> text, before |-> r.before,
         astride |-> r.astride, quiet |-> r.quiet /\ Quiet /\ r.text = text]}

LEMMA ReadBufferAnswers ==
  ASSUME ReadBuffer
  PROVE  \E r \in request, c \in clipboard : Answer(r, c)
BY DEF ReadBuffer, Answer

LEMMA TypeStep ==
  ASSUME TypeOK, [Next]_clipboardVars
  PROVE  TypeOK'
<1> USE ClipboardAssumption, TextTypes DEF TypeOK
<1>1. CASE PreConnect
  BY <1>1 DEF PreConnect
<1>2. CASE ChannelConnected
  <2>1. Record(0) \in [length : Nat, buffer : Texts]
    BY Sizes DEF Record
  <2> QED BY <1>2, <2>1 DEF ChannelConnected
<1>3. CASE ChannelDisconnected
  BY <1>3 DEF ChannelDisconnected
<1>4. CASE SendCapabilities
  BY <1>4 DEF SendCapabilities
<1>5. CASE SendFirstFormatList
  BY <1>5 DEF SendFirstFormatList
<1>6. CASE DataRequest
  <2>1. announced \in Texts /\ Quiet \in BOOLEAN
    BY <1>6 DEF DataRequest, Quiet
  <2>2. request' \subseteq Request
    BY <1>6, <2>1 DEF DataRequest, Request
  <2>3. requests' \in 0 .. MaxRequests
    BY <1>6 DEF DataRequest
  <2> QED BY <1>6, <2>2, <2>3 DEF DataRequest
<1>7. CASE ReadLength
  <2> PICK r \in request, c \in clipboard :
        request' = {[r EXCEPT !.at = "sized", !.length = c.length]}
    BY <1>7 DEF ReadLength
  <2>1. [r EXCEPT !.at = "sized", !.length = c.length] \in Request
    BY DEF Request
  <2> QED BY <1>7, <2>1 DEF ReadLength
<1>8. CASE ReadBuffer
  <2> PICK r \in request, c \in clipboard : Answer(r, c)
    BY <1>8, ReadBufferAnswers
  <2> DEFINE undisturbed == r.quiet /\ Quiet /\ r.text = text
  <2>1. undisturbed \in BOOLEAN
    OBVIOUS
  <2>2. /\ request' = {}
        /\ responses' = responses \cup
             {[n |-> requests, length |-> r.length, buffer |-> c.buffer,
               since |-> r.since, text |-> text, before |-> r.before,
               astride |-> r.astride, quiet |-> undisturbed]}
    BY DEF Answer
  <2>3. /\ r.length \in Nat /\ r.since \in Texts /\ r.before \in Texts
        /\ r.astride \in BOOLEAN /\ c.buffer \in Texts /\ requests \in Nat
    BY DEF Request
  <2> HIDE DEF undisturbed
  <2>4. [n |-> requests, length |-> r.length, buffer |-> c.buffer,
         since |-> r.since, text |-> text, before |-> r.before,
         astride |-> r.astride, quiet |-> undisturbed] \in Response
    BY <2>1, <2>3 DEF Response
  <2>5. responses' \subseteq Response
    BY <2>2, <2>4
  <2> QED BY <1>8, <2>2, <2>5 DEF ReadBuffer
<1>9. CASE SendClipboard
  BY <1>9 DEF SendClipboard, Texts
<1>10. CASE SetLength
  BY <1>10, Sizes DEF SetLength
<1>11. CASE SetBuffer
  BY <1>11 DEF SetBuffer
<1>12. CASE AnnounceText
  BY <1>12 DEF AnnounceText
<1>13. CASE UNCHANGED clipboardVars
  BY <1>13 DEF clipboardVars
<1>14. CASE CheckLength
  <2> PICK r \in request, c \in clipboard :
        request' = IF c.length > 0 THEN {[r EXCEPT !.at = "checked"]} ELSE {}
    BY <1>14 DEF CheckLength
  <2>1. [r EXCEPT !.at = "checked"] \in Request
    BY DEF Request
  <2> QED BY <1>14, <2>1 DEF CheckLength
<1> QED
  BY <1>1, <1>2, <1>3, <1>4, <1>5, <1>6, <1>7, <1>8, <1>9, <1>10, <1>11, <1>12,
     <1>13, <1>14 DEF Next, ChannelStep, MainStep

\* The type invariant of the clipboard's state.
THEOREM TypeCorrect == Spec => []TypeOK
<1>1. Init => TypeOK
  <2> SUFFICES ASSUME Init PROVE TypeOK
    OBVIOUS
  <2>1. opens \in 0 .. MaxOpens /\ requests \in 0 .. MaxRequests
    BY ClipboardAssumption DEF Init
  <2> QED BY <2>1, TextTypes DEF Init, TypeOK
<1> QED BY <1>1, TypeStep, PTL DEF Spec

--------------------------------------------------------------------------------
(* The inductive invariant: what the record, the announced text and the    *)
(* request being handled have to do with the texts that were set.          *)

\* The text an undisturbed answer must hold.
Latest == IF text > before THEN text ELSE 0

\* Nothing that happened at the channel's opening casts doubt on text t.
Known(t) == t > before \/ ~astride

\* There is a record exactly while an opened channel was subscribed to.
PresenceInv ==
  /\ channel = "closed" => clipboard = {} /\ request = {}
  /\ subscribed = "yes" /\ channel # "closed" => clipboard # {}
  /\ subscribed # "yes" => clipboard = {}
  /\ subscribed = "no" => channel = "closed"
  /\ \A c, d \in clipboard : c = d

\* set_data brings the record up to date store by store.
RecordInv ==
  /\ before <= text
  /\ Quiet \/ astride \/ text > before
  /\ \A c \in clipboard :
       /\ c.length > 0
       /\ c.buffer <= text
       /\ setter \in {"idle", "announce"} /\ Known(text)
            => c.buffer = Latest /\ c.length = Size(Latest)
       /\ setter = "buffer" /\ Known(text) => c.length = Size(text)

\* What has been announced has been stored.
AnnounceInv ==
  announced # None =>
    /\ announced <= text
    /\ Known(announced) => \A c \in clipboard : announced <= c.buffer

RequestInv ==
  /\ \A q, r \in request : q = r
  /\ \A r \in request :
       /\ r.before = before /\ r.astride = astride /\ r.text <= text
       /\ requests > 0
       /\ Known(r.since) => \A c \in clipboard : r.since <= c.buffer
       /\ r.quiet /\ r.text = text => Quiet
       /\ r.at = "sized" /\ r.quiet /\ r.text = text /\ Known(text)
            => r.length = Size(Latest)

\* Only the last request can still be without an answer.
AnswerInv ==
  \A i \in 1 .. requests :
    (i = requests /\ request # {}) \/ \E r \in responses : r.n = i

CrashInv ==
  Patient => /\ ~Quiet => subscribed = "yes"
             /\ crashed => channel = "closed"

IInv ==
  /\ TypeOK
  /\ PresenceInv /\ RecordInv /\ AnnounceInv /\ RequestInv /\ AnswerInv /\ CrashInv
  /\ ResponseNotStale /\ QuietResponseIsLatest

LEMMA OneRecord ==
  ASSUME PresenceInv
  PROVE  clipboard = {} \/ \E c \in clipboard : clipboard = {c}
BY DEF PresenceInv

\* What the two stores of set_data make of the record.
LEMMA StoreLength ==
  ASSUME IInv, SetLength
  PROVE  \/ clipboard = {} /\ clipboard' = {}
         \/ \E c \in clipboard :
              /\ clipboard = {c}
              /\ clipboard' = {[length |-> Size(text), buffer |-> c.buffer]}
<1>1. ASSUME NEW c \in clipboard
      PROVE  [c EXCEPT !.length = Size(text)]
               = [length |-> Size(text), buffer |-> c.buffer]
  BY DEF IInv, TypeOK
<1>2. clipboard' = {[length |-> Size(text), buffer |-> c.buffer] : c \in clipboard}
  BY <1>1 DEF SetLength
<1> QED BY <1>2, OneRecord DEF IInv

LEMMA StoreBuffer ==
  ASSUME IInv, SetBuffer
  PROVE  \/ clipboard = {} /\ clipboard' = {}
         \/ \E c \in clipboard :
              /\ clipboard = {c}
              /\ clipboard' = {[length |-> c.length, buffer |-> text]}
<1>1. ASSUME NEW c \in clipboard
      PROVE  [c EXCEPT !.buffer = text] = [length |-> c.length, buffer |-> text]
  BY DEF IInv, TypeOK
<1>2. clipboard' = {[length |-> c.length, buffer |-> text] : c \in clipboard}
  BY <1>1 DEF SetBuffer
<1> QED BY <1>2, OneRecord DEF IInv

LEMMA PresenceStep ==
  ASSUME IInv, [Next]_clipboardVars
  PROVE  PresenceInv'
<1> USE DEF IInv, TypeOK, PresenceInv
<1>1. CASE PreConnect
  BY <1>1 DEF PreConnect
<1>2. CASE ChannelConnected
  BY <1>2 DEF ChannelConnected
<1>3. CASE ChannelDisconnected
  BY <1>3 DEF ChannelDisconnected
<1>4. CASE SendCapabilities
  BY <1>4 DEF SendCapabilities
<1>5. CASE SendFirstFormatList
  BY <1>5 DEF SendFirstFormatList
<1>6. CASE DataRequest
  BY <1>6 DEF DataRequest
<1>7. CASE CheckLength \/ ReadLength
  BY <1>7 DEF CheckLength, ReadLength
<1>8. CASE ReadBuffer
  BY <1>8 DEF ReadBuffer
<1>9. CASE SendClipboard
  BY <1>9 DEF SendClipboard
<1>10. CASE SetLength
  BY <1>10, StoreLength DEF SetLength
<1>11. CASE SetBuffer
  BY <1>11, StoreBuffer DEF SetBuffer
<1>12. CASE AnnounceText
  BY <1>12 DEF AnnounceText
<1>13. CASE UNCHANGED clipboardVars
  BY <1>13 DEF clipboardVars
<1> QED
  BY <1>1, <1>2, <1>3, <1>4, <1>5, <1>6, <1>7, <1>8, <1>9, <1>10, <1>11, <1>12,
     <1>13 DEF Next, ChannelStep, MainStep

LEMMA RecordStep ==
  ASSUME IInv, [Next]_clipboardVars
  PROVE  RecordInv'
<1> USE TextTypes DEF IInv, TypeOK, RecordInv, Known, Latest, Quiet
<1>1. CASE ChannelConnected
  <2>1. Record(0).length = Size(0) /\ Record(0).buffer = 0
    BY DEF Record
  <2>2. Size(0) > 0
    BY Sizes
  <2>3. clipboard' = {} \/ clipboard' = {Record(0)}
    BY <1>1 DEF ChannelConnected
  <2>4. /\ text' = text /\ before' = text /\ setter' = setter
        /\ text \in Nat
    BY <1>1 DEF ChannelConnected
  <2>5. \A c \in clipboard' : c.length = Size(0) /\ c.buffer = 0
    BY <2>1, <2>3
  <2>6. Latest' = 0 /\ before' <= text'
    BY <2>4
  <2>7. Quiet \/ astride'
    BY <1>1, Zenon DEF ChannelConnected
  <2> QED BY <2>2, <2>4, <2>5, <2>6, <2>7
<1>2. CASE ChannelDisconnected
  BY <1>2 DEF ChannelDisconnected
<1>3. CASE SendClipboard
  BY <1>3 DEF SendClipboard
<1>4. CASE SetLength
  BY <1>4, Sizes, StoreLength DEF SetLength
<1>5. CASE SetBuffer
  BY <1>5, StoreBuffer DEF SetBuffer
<1>6. CASE AnnounceText
  BY <1>6 DEF AnnounceText
<1>7. CASE UNCHANGED <<clipboard, setter, text, before, astride>>
  BY <1>7
<1> QED
  BY <1>1, <1>2, <1>3, <1>4, <1>5, <1>6, <1>7
     DEF Next, ChannelStep, MainStep, clipboardVars, PreConnect, SendCapabilities,
         SendFirstFormatList, DataRequest, CheckLength, ReadLength, ReadBuffer

LEMMA AnnounceStep ==
  ASSUME IInv, [Next]_clipboardVars
  PROVE  AnnounceInv'
<1> USE TextTypes DEF IInv, TypeOK, AnnounceInv, Known
<1>1. CASE ChannelConnected
  BY <1>1 DEF ChannelConnected
<1>2. CASE ChannelDisconnected
  BY <1>2 DEF ChannelDisconnected
<1>3. CASE SendFirstFormatList
  BY <1>3 DEF SendFirstFormatList, PresenceInv, RecordInv
<1>4. CASE SendClipboard
  BY <1>4 DEF SendClipboard, None
<1>5. CASE SetLength
  BY <1>5, StoreLength DEF SetLength
<1>6. CASE SetBuffer
  BY <1>6, StoreBuffer DEF SetBuffer
<1>7. CASE AnnounceText
  BY <1>7 DEF AnnounceText, RecordInv, Latest, Quiet, Known
<1>8. CASE UNCHANGED <<clipboard, text, announced, before, astride>>
  BY <1>8
<1> QED
  BY <1>1, <1>2, <1>3, <1>4, <1>5, <1>6, <1>7, <1>8
     DEF Next, ChannelStep, MainStep, clipboardVars, PreConnect, SendCapabilities,
         DataRequest, CheckLength, ReadLength, ReadBuffer

LEMMA RequestStep ==
  ASSUME IInv, [Next]_clipboardVars
  PROVE  RequestInv'
<1> USE TextTypes DEF IInv, TypeOK, RequestInv, Request, Known, Latest, Quiet
<1>1. CASE ChannelConnected
  BY <1>1 DEF ChannelConnected, PresenceInv
<1>2. CASE ChannelDisconnected
  BY <1>2 DEF ChannelDisconnected
<1>3. CASE DataRequest
  <2>1. /\ announced \in Texts /\ requests' = requests + 1
        /\ UNCHANGED <<clipboard, setter, text, before, astride>>
    BY <1>3 DEF DataRequest
  <2>2. Known(announced) => \A c \in clipboard : announced <= c.buffer
    BY <1>3 DEF DataRequest, AnnounceInv
  <2> DEFINE asked == [at |-> "asked", length |-> 0, since |-> announced,
                       quiet |-> Quiet, text |-> text, before |-> before,
                       astride |-> astride]
  <2>3. request' = {asked}
    BY <1>3 DEF DataRequest
  <2>4. /\ asked.at = "asked" /\ asked.since = announced
        /\ asked.before = before /\ asked.astride = astride
        /\ asked.text = text
    OBVIOUS
  <2>5. asked.quiet => Quiet
    BY Zenon
  <2> HIDE DEF asked
  <2> QED BY <2>1, <2>2, <2>3, <2>4, <2>5
<1>4. CASE ReadLength
  <2> PICK r \in request, c \in clipboard :
        request' = {[r EXCEPT !.at = "sized", !.length = c.length]}
    BY <1>4 DEF ReadLength
  <2>1. UNCHANGED <<clipboard, setter, text, before, astride, requests>>
    BY <1>4 DEF ReadLength
  <2> DEFINE sized == [r EXCEPT !.at = "sized", !.length = c.length]
  <2>2. /\ request' = {sized}
        /\ sized.since = r.since /\ sized.before = r.before
        /\ sized.astride = r.astride /\ sized.text = r.text
        /\ sized.quiet = r.quiet /\ sized.length = c.length
    OBVIOUS
  <2> HIDE DEF sized
  <2>3. r.quiet /\ r.text = text /\ Known(text) => c.length = Size(Latest)
    BY DEF RecordInv
  <2> QED BY <2>1, <2>2, <2>3
<1>5. CASE ReadBuffer
  BY <1>5 DEF ReadBuffer
<1>6. CASE SendClipboard
  BY <1>6 DEF SendClipboard
<1>7. CASE SetLength
  BY <1>7, StoreLength DEF SetLength
<1>8. CASE SetBuffer
  BY <1>8, StoreBuffer DEF SetBuffer, RecordInv
<1>9. CASE AnnounceText
  BY <1>9 DEF AnnounceText
<1>10. CASE UNCHANGED <<clipboard, text, request, requests, before, astride, setter>>
  BY <1>10
<1>11. CASE CheckLength
  <2> PICK r \in request, c \in clipboard :
        request' = IF c.length > 0 THEN {[r EXCEPT !.at = "checked"]} ELSE {}
    BY <1>11 DEF CheckLength
  <2>1. UNCHANGED <<clipboard, setter, text, before, astride, requests>>
    BY <1>11 DEF CheckLength
  <2> DEFINE checked == [r EXCEPT !.at = "checked"]
  <2>2. /\ request' = {checked} \/ request' = {}
        /\ checked.since = r.since /\ checked.before = r.before
        /\ checked.astride = r.astride /\ checked.text = r.text
        /\ checked.quiet = r.quiet /\ checked.at = "checked"
    OBVIOUS
  <2> HIDE DEF checked
  <2> QED BY <2>1, <2>2
<1> QED
  BY <1>1, <1>2, <1>3, <1>4, <1>5, <1>6, <1>7, <1>8, <1>9, <1>10, <1>11
     DEF Next, ChannelStep, MainStep, clipboardVars, PreConnect, SendCapabilities,
         SendFirstFormatList

LEMMA AnswerStep ==
  ASSUME IInv, [Next]_clipboardVars
  PROVE  AnswerInv'
<1> USE DEF IInv, TypeOK, AnswerInv
<1>1. CASE DataRequest
  BY <1>1 DEF DataRequest
<1>2. CASE CheckLength \/ ReadLength
  BY <1>2 DEF CheckLength, ReadLength, RecordInv
<1>3. CASE ReadBuffer
  <2> PICK r \in request, c \in clipboard : Answer(r, c)
    BY <1>3, ReadBufferAnswers
  <2>1. \E q \in responses' : q.n = requests
    <3> DEFINE answer == [n |-> requests, length |-> r.length, buffer |-> c.buffer,
                          since |-> r.since, text |-> text, before |-> r.before,
                          astride |-> r.astride,
                          quiet |-> r.quiet /\ Quiet /\ r.text = text]
    <3>1. answer \in responses' /\ answer.n = requests
      BY DEF Answer
    <3> QED BY <3>1
  <2>2. responses \subseteq responses' /\ requests' = requests
    BY <1>3 DEF ReadBuffer
  <2> QED BY <2>1, <2>2
<1>4. CASE UNCHANGED <<request, requests, responses>>
  BY <1>4
<1> QED
  BY <1>1, <1>2, <1>3, <1>4
     DEF Next, ChannelStep, MainStep, clipboardVars, PreConnect, ChannelConnected,
         ChannelDisconnected, SendCapabilities, SendFirstFormatList, SendClipboard,
         SetLength, SetBuffer, AnnounceText

LEMMA CrashStep ==
  ASSUME IInv, [Next]_clipboardVars
  PROVE  CrashInv'
BY DEF IInv, CrashInv, PresenceInv, Quiet, Running, Next, ChannelStep, MainStep,
       clipboardVars, PreConnect, ChannelConnected, ChannelDisconnected,
       SendCapabilities, SendFirstFormatList, DataRequest, CheckLength, ReadLength, ReadBuffer,
       SendClipboard, SetLength, SetBuffer, AnnounceText

LEMMA ResponseStep ==
  ASSUME IInv, [Next]_clipboardVars
  PROVE  ResponseNotStale' /\ QuietResponseIsLatest'
<1> USE DEF IInv, ResponseNotStale, QuietResponseIsLatest, Certain
<1>1. CASE ReadBuffer
  <2> PICK r \in request, c \in clipboard : Answer(r, c)
    BY <1>1, ReadBufferAnswers
  <2> DEFINE answer == [n |-> requests, length |-> r.length, buffer |-> c.buffer,
                        since |-> r.since, text |-> text, before |-> r.before,
                        astride |-> r.astride,
                        quiet |-> r.quiet /\ Quiet /\ r.text = text]
  <2>1. responses' = responses \cup {answer}
    BY DEF Answer
  <2>2. r.before = before /\ r.astride = astride
    BY DEF RequestInv
  <2>3. Certain(answer, answer.since) => answer.buffer >= answer.since
    BY <2>2 DEF RequestInv, Known, TypeOK, Request, Texts
  <2>4. answer.quiet /\ Certain(answer, text)
          => answer.buffer = Latest /\ answer.length = Size(Latest)
    BY <2>2 DEF RequestInv, RecordInv, Known, Answer, Quiet
  <2>5. (IF answer.text > answer.before THEN answer.text ELSE 0) = Latest
    BY <2>2 DEF Latest
  <2> HIDE DEF answer
  <2>6. answer.text = text
    BY DEF answer
  <2> QED BY <2>1, <2>3, <2>4, <2>5, <2>6
<1>2. CASE UNCHANGED responses
  BY <1>2
<1> QED
  BY <1>1, <1>2
     DEF Next, ChannelStep, MainStep, clipboardVars, PreConnect, ChannelConnected,
         ChannelDisconnected, SendCapabilities, SendFirstFormatList, DataRequest,
         CheckLength, ReadLength, SendClipboard, SetLength, SetBuffer, AnnounceText

LEMMA Invariant == Spec => []IInv
<1>1. Init => IInv
  <2> SUFFICES ASSUME Init PROVE IInv
    OBVIOUS
  <2>1. TypeOK
    <3>1. opens \in 0 .. MaxOpens /\ requests \in 0 .. MaxRequests
      BY ClipboardAssumption DEF Init
    <3> QED BY <3>1, TextTypes DEF Init, TypeOK
  <2>2. PresenceInv /\ RecordInv /\ AnnounceInv /\ RequestInv /\ CrashInv
    BY DEF Init, PresenceInv, RecordInv, AnnounceInv, RequestInv, CrashInv, Quiet
  <2>3. AnswerInv /\ ResponseNotStale /\ QuietResponseIsLatest
    BY DEF Init, AnswerInv, ResponseNotStale, QuietResponseIsLatest
  <2> QED BY <2>1, <2>2, <2>3 DEF IInv
<1>2. IInv /\ [Next]_clipboardVars => IInv'
  <2> SUFFICES ASSUME IInv, [Next]_clipboardVars PROVE IInv'
    OBVIOUS
  <2>1. TypeOK'
    BY TypeStep DEF IInv
  <2> QED BY <2>1, PresenceStep, RecordStep, AnnounceStep, RequestStep, AnswerStep,
             CrashStep, ResponseStep DEF IInv
<1> QED BY <1>1, <1>2, PTL DEF Spec

--------------------------------------------------------------------------------
(* The properties.                                                         *)

\* No answer is older than the format list it answers, at any opening.
THEOREM AnswersAreNotStale == Spec => []ResponseNotStale
BY Invariant, PTL DEF IInv

\* An answer that no sendClipboard overlaps is the latest text, all of it.
THEOREM QuietAnswersAreLatest == Spec => []QuietResponseIsLatest
BY Invariant, PTL DEF IInv

\* No request is left without an answer, whatever the application sends.
THEOREM NoRequestIsDropped == Spec => []EveryRequestAnswered
<1>1. IInv => EveryRequestAnswered
  BY DEF IInv, AnswerInv, EveryRequestAnswered
<1> QED BY <1>1, Invariant, PTL

\* A patient application meets NULL only after the channel has been closed.
THEOREM PatienceHelps == Spec => []PatientCrashOnlyClosed
<1>1. IInv => PatientCrashOnlyClosed
  BY DEF IInv, CrashInv, PatientCrashOnlyClosed
<1> QED BY <1>1, Invariant, PTL

\* Whatever torn record an opening has left, it is whole when the next call of
\* sendClipboard has returned.
THEOREM TornRecordsHeal == Spec => []RecordHeals
<1>1. IInv => RecordHeals
  <2> SUFFICES ASSUME IInv, Quiet, text > before \/ ~astride, NEW c \in clipboard
               PROVE  c = Record(IF text > before THEN text ELSE 0)
    BY DEF RecordHeals
  <2>1. c.buffer = Latest /\ c.length = Size(Latest)
    BY DEF IInv, RecordInv, Known, Quiet
  <2>2. c \in [length : Nat, buffer : Texts]
    BY DEF IInv, TypeOK
  <2> QED BY <2>1, <2>2 DEF Latest, Record
<1> QED BY <1>1, Invariant, PTL

\* The remote application channel and channel.cc's dispatch leave the clipboard
\* to its own steps: what holds of Clipboard holds of Channels.
THEOREM ChannelsKeepClipboard == ChannelsSpec => Spec
<1>1. ChannelsInit => Init
  BY DEF ChannelsInit
<1>2. [ChannelsNext]_vars => [Next]_clipboardVars
  BY DEF ChannelsNext, vars, OnChannelConnected, OnChannelDisconnected,
         ClipboardStep, RailStep, Next, ChannelStep
<1> QED BY <1>1, <1>2, PTL DEF ChannelsSpec, Spec

--------------------------------------------------------------------------------
(* The remote application channel.                                         *)

RailOrder == [order : Orders, handshake : Nat]

\* The place of an order in the answer to a handshake.
Rank(order) == CASE order = "ClientHandshake" -> 1
                 [] order = "ClientInformation" -> 2
                 [] order = "ClientLanguageBarInfo" -> 3
                 [] order = "ClientSystemParam" -> 4
                 [] order = "ClientExecute" -> 5

Before(a, b) == \/ a.handshake < b.handshake
                \/ a.handshake = b.handshake /\ Rank(a.order) < Rank(b.order)

\* A sequence of orders in which each precedes the later ones.
InSequence(s) ==
  /\ s \in Seq(RailOrder)
  /\ \A i, j \in 1 .. Len(s) : i < j => Before(s[i], s[j])

\* A part of the answer to the n-th handshake: orders of the ranks lo to hi.
Part(s, n, lo, hi) ==
  /\ InSequence(s)
  /\ \A i \in 1 .. Len(s) : s[i].handshake = n /\ lo <= Rank(s[i].order)
                                                /\ Rank(s[i].order) <= hi

LEMMA Ranks == /\ Rank("ClientHandshake") = 1 /\ Rank("ClientInformation") = 2
               /\ Rank("ClientLanguageBarInfo") = 3
               /\ Rank("ClientSystemParam") = 4 /\ Rank("ClientExecute") = 5
               /\ \A o \in Orders : Rank(o) \in 1 .. 5
<1>1. Rank("ClientHandshake") = 1
  BY DEF Rank
<1>2. Rank("ClientInformation") = 2
  BY DEF Rank
<1>3. Rank("ClientLanguageBarInfo") = 3
  BY DEF Rank
<1>4. Rank("ClientSystemParam") = 4
  BY DEF Rank
<1>5. Rank("ClientExecute") = 5
  BY DEF Rank
<1> QED BY <1>1, <1>2, <1>3, <1>4, <1>5 DEF Orders

\* The elements of a sequence of orders.
LEMMA ElementTypes ==
  ASSUME NEW s \in Seq(RailOrder), NEW i \in 1 .. Len(s)
  PROVE  s[i].handshake \in Nat /\ Rank(s[i].order) \in Nat
<1>1. s[i] \in RailOrder
  OBVIOUS
<1>2. s[i].handshake \in Nat /\ s[i].order \in Orders
  BY <1>1 DEF RailOrder
<1>3. \A o \in Orders : Rank(o) \in 1 .. 5
  BY Ranks
<1> QED BY <1>2, <1>3

\* Two sequences, of which every order of the first precedes every one of the
\* second, make one.
LEMMA SequencesJoin ==
  ASSUME NEW s, NEW t, InSequence(s), InSequence(t),
         \A i \in 1 .. Len(s), j \in 1 .. Len(t) : Before(s[i], t[j])
  PROVE  InSequence(s \o t)
<1>1. s \in Seq(RailOrder) /\ t \in Seq(RailOrder)
  BY DEF InSequence
<1>2. /\ s \o t \in Seq(RailOrder) /\ Len(s \o t) = Len(s) + Len(t)
      /\ \A i \in 1 .. Len(s \o t) : (s \o t)[i] = IF i <= Len(s) THEN s[i] ELSE t[i - Len(s)]
  BY <1>1
<1>3. Len(s) \in Nat /\ Len(t) \in Nat
  BY <1>1
<1>4. ASSUME NEW i \in 1 .. Len(s \o t), NEW j \in 1 .. Len(s \o t), i < j
      PROVE  Before((s \o t)[i], (s \o t)[j])
  <2>1. CASE j <= Len(s)
    BY <1>2, <1>3, <1>4, <2>1 DEF InSequence
  <2>2. CASE i <= Len(s) /\ j > Len(s)
    BY <1>2, <1>3, <2>2
  <2>3. CASE i > Len(s)
    <3>1. /\ (s \o t)[i] = t[i - Len(s)] /\ (s \o t)[j] = t[j - Len(s)]
          /\ i - Len(s) \in 1 .. Len(t) /\ j - Len(s) \in 1 .. Len(t)
          /\ i - Len(s) < j - Len(s)
      BY <1>2, <1>3, <1>4, <2>3
    <3> QED BY <3>1 DEF InSequence
  <2> QED BY <1>3, <2>1, <2>2, <2>3
<1> QED BY <1>2, <1>4 DEF InSequence

\* Parts of one answer join in the order of their ranks.
LEMMA PartsJoin ==
  ASSUME NEW s, NEW t, NEW n \in Nat, NEW a \in Nat, NEW b \in Nat, NEW c \in Nat,
         NEW d \in Nat, a <= b, b < c, c <= d, Part(s, n, a, b), Part(t, n, c, d)
  PROVE  Part(s \o t, n, a, d)
<1>1. s \in Seq(RailOrder) /\ t \in Seq(RailOrder)
  BY DEF Part, InSequence
<1>2. \A i \in 1 .. Len(s) : Rank(s[i].order) \in Nat
  BY <1>1, ElementTypes
<1>3. \A j \in 1 .. Len(t) : Rank(t[j].order) \in Nat
  BY <1>1, ElementTypes
<1>4. \A i \in 1 .. Len(s), j \in 1 .. Len(t) : Before(s[i], t[j])
  BY <1>2, <1>3 DEF Part, Before
<1>5. InSequence(s \o t)
  BY <1>4, SequencesJoin DEF Part
<1>6. /\ Len(s \o t) = Len(s) + Len(t) /\ Len(s) \in Nat /\ Len(t) \in Nat
      /\ \A i \in 1 .. Len(s \o t) : (s \o t)[i] = IF i <= Len(s) THEN s[i] ELSE t[i - Len(s)]
  BY <1>1
<1>7. ASSUME NEW i \in 1 .. Len(s \o t)
      PROVE  /\ (s \o t)[i].handshake = n
             /\ a <= Rank((s \o t)[i].order) /\ Rank((s \o t)[i].order) <= d
  <2>1. CASE i <= Len(s)
    BY <1>2, <1>6, <2>1 DEF Part
  <2>2. CASE i > Len(s)
    <3>1. i - Len(s) \in 1 .. Len(t) /\ (s \o t)[i] = t[i - Len(s)]
      BY <1>6, <2>2
    <3> QED BY <1>3, <3>1 DEF Part
  <2> QED BY <1>6, <2>1, <2>2
<1> QED BY <1>5, <1>7 DEF Part

\* Whether it is lost or not, an order is a part with its rank.
LEMMA SentIsPart ==
  ASSUME NEW order \in Orders, NEW lost, NEW n \in Nat
  PROVE  Part(Sent(order, lost, n), n, Rank(order), Rank(order))
<1>1. CASE order \in lost
  BY <1>1 DEF Sent, Part, InSequence
<1>2. CASE order \notin lost
  <2> DEFINE o == OrderOf(order, n)
  <2>1. o \in RailOrder
    BY DEF RailOrder, OrderOf
  <2>2. Sent(order, lost, n) = <<o>> /\ <<o>> \in Seq(RailOrder) /\ Len(<<o>>) = 1
    BY <1>2, <2>1 DEF Sent
  <2>3. \A i \in 1 .. Len(<<o>>) : i = 1 /\ <<o>>[i] = o
    BY <2>2
  <2>4. Rank(order) \in Nat /\ o.order = order /\ o.handshake = n
    BY Ranks DEF OrderOf
  <2> QED BY <2>2, <2>3, <2>4 DEF Part, InSequence
<1> QED BY <1>1, <1>2

\* The answer to a handshake is in sequence, whichever of its orders are lost.
LEMMA AnswerInSequence ==
  ASSUME NEW lost, NEW n \in Nat
  PROVE  Part(ClientOrders(lost, n), n, 1, 5)
<1> DEFINE bar == IF LanguageBar THEN Sent("ClientLanguageBarInfo", lost, n) ELSE << >>
<1>1. /\ Part(Sent("ClientHandshake", lost, n), n, 1, 1)
      /\ Part(Sent("ClientInformation", lost, n), n, 2, 2)
      /\ Part(Sent("ClientLanguageBarInfo", lost, n), n, 3, 3)
      /\ Part(Sent("ClientSystemParam", lost, n), n, 4, 4)
      /\ Part(Sent("ClientExecute", lost, n), n, 5, 5)
  BY SentIsPart, Ranks DEF Orders
<1>2. Part(bar, n, 3, 3)
  <2>1. Part(<< >>, n, 3, 3)
    BY DEF Part, InSequence
  <2> QED BY <1>1, <2>1, RailAssumption
<1> HIDE DEF bar
<1>3. Part(Sent("ClientHandshake", lost, n) \o Sent("ClientInformation", lost, n), n, 1, 2)
  BY <1>1, PartsJoin
<1>4. Part(Sent("ClientHandshake", lost, n) \o Sent("ClientInformation", lost, n) \o bar,
           n, 1, 3)
  BY <1>2, <1>3, PartsJoin
<1>5. Part(Sent("ClientHandshake", lost, n) \o Sent("ClientInformation", lost, n) \o bar
             \o Sent("ClientSystemParam", lost, n), n, 1, 4)
  BY <1>1, <1>4, PartsJoin
<1>6. Part(Sent("ClientHandshake", lost, n) \o Sent("ClientInformation", lost, n) \o bar
             \o Sent("ClientSystemParam", lost, n) \o Sent("ClientExecute", lost, n), n, 1, 5)
  BY <1>1, <1>5, PartsJoin
<1> QED BY <1>6 DEF ClientOrders, bar

\* The sequence s has the order for the n-th handshake.
Got(s, order, n) == \E i \in DOMAIN s : s[i] = OrderOf(order, n)

LEMMA GotJoined ==
  ASSUME NEW s \in Seq(RailOrder), NEW t \in Seq(RailOrder), NEW order, NEW n
  PROVE  Got(s \o t, order, n) <=> Got(s, order, n) \/ Got(t, order, n)
<1>1. /\ Len(s) \in Nat /\ Len(t) \in Nat
      /\ DOMAIN s = 1 .. Len(s) /\ DOMAIN t = 1 .. Len(t)
      /\ DOMAIN (s \o t) = 1 .. Len(s) + Len(t)
      /\ \A i \in 1 .. Len(s) + Len(t) :
           (s \o t)[i] = IF i <= Len(s) THEN s[i] ELSE t[i - Len(s)]
  OBVIOUS
<1>2. ASSUME Got(s \o t, order, n) PROVE Got(s, order, n) \/ Got(t, order, n)
  <2> PICK i \in 1 .. Len(s) + Len(t) : (s \o t)[i] = OrderOf(order, n)
    BY <1>1, <1>2 DEF Got
  <2>1. CASE i <= Len(s)
    BY <1>1, <2>1 DEF Got
  <2>2. CASE i > Len(s)
    <3>1. i - Len(s) \in 1 .. Len(t) /\ t[i - Len(s)] = OrderOf(order, n)
      BY <1>1, <2>2
    <3> QED BY <1>1, <3>1 DEF Got
  <2> QED BY <1>1, <2>1, <2>2
<1>3. ASSUME Got(s, order, n) PROVE Got(s \o t, order, n)
  <2> PICK i \in 1 .. Len(s) : s[i] = OrderOf(order, n)
    BY <1>1, <1>3 DEF Got
  <2>1. i \in 1 .. Len(s) + Len(t) /\ (s \o t)[i] = OrderOf(order, n)
    BY <1>1
  <2> QED BY <1>1, <2>1 DEF Got
<1>4. ASSUME Got(t, order, n) PROVE Got(s \o t, order, n)
  <2> PICK i \in 1 .. Len(t) : t[i] = OrderOf(order, n)
    BY <1>1, <1>4 DEF Got
  <2>1. /\ i + Len(s) \in 1 .. Len(s) + Len(t) /\ ~(i + Len(s) <= Len(s))
        /\ (i + Len(s)) - Len(s) = i
    BY <1>1
  <2>2. (s \o t)[i + Len(s)] = OrderOf(order, n)
    BY <1>1, <2>1
  <2> QED BY <1>1, <2>1, <2>2 DEF Got
<1> QED BY <1>2, <1>3, <1>4

\* What is sent arrives unless it is lost, and nothing else does.
LEMMA SentGot ==
  ASSUME NEW sent \in Orders, NEW lost, NEW n \in Nat, NEW order \in Orders
  PROVE  /\ Sent(sent, lost, n) \in Seq(RailOrder)
         /\ Got(Sent(sent, lost, n), order, n) <=> order = sent /\ order \notin lost
<1>1. Sent(sent, lost, n) \in Seq(RailOrder)
  BY SentIsPart DEF Part, InSequence
<1>2. CASE sent \in lost
  BY <1>2 DEF Sent, Got
<1>3. CASE sent \notin lost
  <2> DEFINE o == OrderOf(sent, n)
  <2>1. DOMAIN <<o>> = {1} /\ <<o>>[1] = o
    OBVIOUS
  <2>2. o = OrderOf(order, n) <=> sent = order
    BY DEF OrderOf
  <2>3. Got(<<o>>, order, n) <=> sent = order
    BY <2>1, <2>2 DEF Got
  <2> QED BY <1>1, <1>3, <2>3 DEF Sent
<1> QED BY <1>1, <1>2, <1>3

\* The answer to a handshake has every order that is wanted and not lost.
LEMMA AnswerIsComplete ==
  ASSUME NEW lost, NEW n \in Nat, NEW order \in Wanted
  PROVE  Got(ClientOrders(lost, n), order, n) <=> order \notin lost
<1> DEFINE a == Sent("ClientHandshake", lost, n)
           b == Sent("ClientInformation", lost, n)
           c == IF LanguageBar THEN Sent("ClientLanguageBarInfo", lost, n) ELSE << >>
           d == Sent("ClientSystemParam", lost, n)
           e == Sent("ClientExecute", lost, n)
<1>1. order \in Orders /\ (order = "ClientLanguageBarInfo" => LanguageBar)
  BY DEF Wanted
<1>2. /\ a \in Seq(RailOrder) /\ b \in Seq(RailOrder) /\ d \in Seq(RailOrder)
      /\ e \in Seq(RailOrder)
      /\ Got(a, order, n) <=> order = "ClientHandshake" /\ order \notin lost
      /\ Got(b, order, n) <=> order = "ClientInformation" /\ order \notin lost
      /\ Got(d, order, n) <=> order = "ClientSystemParam" /\ order \notin lost
      /\ Got(e, order, n) <=> order = "ClientExecute" /\ order \notin lost
  BY <1>1, SentGot DEF Orders
<1>3. /\ c \in Seq(RailOrder)
      /\ Got(c, order, n) <=> order = "ClientLanguageBarInfo" /\ order \notin lost
  <2>1. CASE LanguageBar
    BY <1>1, <2>1, SentGot DEF Orders
  <2>2. CASE ~LanguageBar
    BY <1>1, <2>2 DEF Got
  <2> QED BY <2>1, <2>2
<1>4. ClientOrders(lost, n) = a \o b \o c \o d \o e
  BY DEF ClientOrders
<1> HIDE DEF a, b, c, d, e
<1>5. /\ a \o b \in Seq(RailOrder) /\ a \o b \o c \in Seq(RailOrder)
      /\ a \o b \o c \o d \in Seq(RailOrder)
  BY <1>2, <1>3
<1>6. Got(a \o b, order, n) <=> Got(a, order, n) \/ Got(b, order, n)
  BY <1>2, GotJoined
<1>7. Got(a \o b \o c, order, n) <=> Got(a \o b, order, n) \/ Got(c, order, n)
  BY <1>3, <1>5, GotJoined
<1>8. Got(a \o b \o c \o d, order, n) <=> Got(a \o b \o c, order, n) \/ Got(d, order, n)
  BY <1>2, <1>5, GotJoined
<1>9. Got(a \o b \o c \o d \o e, order, n)
        <=> Got(a \o b \o c \o d, order, n) \/ Got(e, order, n)
  BY <1>2, <1>5, GotJoined
<1> QED BY <1>1, <1>2, <1>3, <1>4, <1>6, <1>7, <1>8, <1>9 DEF Orders

\* The orders received are in sequence and answer handshakes that have been, and
\* of those handshakes nothing is missing but what could not be sent.
Complete ==
  \A n \in 1 .. handshakes, order \in Wanted :
    Got(orders, order, n) <=> OrderOf(order, n) \notin missing

RailInv ==
  /\ handshakes \in Nat
  /\ InSequence(orders)
  /\ \A i \in 1 .. Len(orders) : orders[i].handshake <= handshakes
  /\ missing \subseteq [order : Orders, handshake : 1 .. handshakes]
  /\ Complete

LEMMA HandshakeCompletes ==
  ASSUME RailInv, NEW lost, ServerHandshake(lost)
  PROVE  Complete'
<1> DEFINE n == handshakes + 1
           sent == ClientOrders(lost, n)
<1>1. /\ handshakes' = n /\ orders' = orders \o sent
      /\ missing' = missing \cup {OrderOf(order, n) : order \in lost \cap Wanted}
      /\ handshakes \in Nat /\ n \in Nat
  BY DEF ServerHandshake, RailInv
<1>2. Part(sent, n, 1, 5)
  BY <1>1, AnswerInSequence
<1>3. \A order \in Wanted : Got(sent, order, n) <=> order \notin lost
  BY <1>1, AnswerIsComplete
<1> HIDE DEF sent
<1>4. orders \in Seq(RailOrder) /\ sent \in Seq(RailOrder)
  BY <1>2 DEF RailInv, Part, InSequence
<1>5. \A k, order : OrderOf(order, k).handshake = k /\ OrderOf(order, k).order = order
  BY DEF OrderOf
<1> SUFFICES ASSUME NEW k \in 1 .. n, NEW order \in Wanted
             PROVE  Got(orders \o sent, order, k) <=> OrderOf(order, k) \notin missing'
  BY <1>1 DEF Complete, Got
<1>6. Got(orders \o sent, order, k) <=> Got(orders, order, k) \/ Got(sent, order, k)
  BY <1>4, GotJoined
<1>7. CASE k = n
  <2>1. ~Got(orders, order, n)
    <3>1. \A i \in 1 .. Len(orders) : orders[i].handshake # n
      BY <1>1, <1>4, ElementTypes DEF RailInv
    <3>2. DOMAIN orders = 1 .. Len(orders)
      BY <1>4
    <3> QED BY <1>5, <3>1, <3>2 DEF Got
  <2>2. OrderOf(order, n) \notin missing
    BY <1>1, <1>5 DEF RailInv
  <2>3. OrderOf(order, n) \in missing' <=> order \in lost
    BY <1>1, <1>5, <2>2
  <2> QED BY <1>3, <1>6, <1>7, <2>1, <2>3
<1>8. CASE k # n
  <2>1. ~Got(sent, order, k)
    BY <1>2, <1>4, <1>5, <1>8 DEF Got, Part
  <2>2. OrderOf(order, k) \in missing' <=> OrderOf(order, k) \in missing
    BY <1>1, <1>5, <1>8
  <2>3. k \in 1 .. handshakes
    BY <1>1, <1>8
  <2> QED BY <1>6, <2>1, <2>2, <2>3 DEF RailInv, Complete
<1> QED BY <1>7, <1>8

LEMMA HandshakeKeeps ==
  ASSUME RailInv, NEW lost, ServerHandshake(lost)
  PROVE  RailInv'
<1> DEFINE n == handshakes + 1
           sent == ClientOrders(lost, n)
<1>1. handshakes' = n /\ orders' = orders \o sent /\ handshakes \in Nat /\ n \in Nat
  BY DEF ServerHandshake, RailInv
<1>2. Part(sent, n, 1, 5)
  BY <1>1, AnswerInSequence
<1> HIDE DEF sent
<1>3. orders \in Seq(RailOrder) /\ sent \in Seq(RailOrder)
  BY <1>2 DEF RailInv, Part, InSequence
<1>4. \A i \in 1 .. Len(orders) : orders[i].handshake \in Nat
  BY <1>3, ElementTypes
<1>5. \A i \in 1 .. Len(orders), j \in 1 .. Len(sent) : Before(orders[i], sent[j])
  BY <1>1, <1>2, <1>4 DEF RailInv, Part, Before
<1>6. InSequence(orders \o sent)
  BY <1>2, <1>5, SequencesJoin DEF RailInv, Part
<1>7. ASSUME NEW i \in 1 .. Len(orders \o sent)
      PROVE  (orders \o sent)[i].handshake <= n
  <2>1. /\ Len(orders \o sent) = Len(orders) + Len(sent) /\ Len(orders) \in Nat
        /\ Len(sent) \in Nat
        /\ (orders \o sent)[i] = IF i <= Len(orders) THEN orders[i] ELSE sent[i - Len(orders)]
    BY <1>3
  <2>2. CASE i <= Len(orders)
    BY <1>1, <1>4, <2>1, <2>2 DEF RailInv
  <2>3. CASE i > Len(orders)
    <3>1. i - Len(orders) \in 1 .. Len(sent) /\ (orders \o sent)[i] = sent[i - Len(orders)]
      BY <2>1, <2>3
    <3> QED BY <1>1, <1>2, <3>1 DEF Part
  <2> QED BY <2>1, <2>2, <2>3
<1>8. missing' \subseteq [order : Orders, handshake : 1 .. n]
  <2>1. missing \subseteq [order : Orders, handshake : 1 .. n]
    BY <1>1 DEF RailInv
  <2>2. \A order \in lost \cap Wanted :
          OrderOf(order, n) \in [order : Orders, handshake : 1 .. n]
    BY <1>1 DEF OrderOf, Wanted
  <2> QED BY <1>1, <2>1, <2>2 DEF ServerHandshake
<1> QED BY <1>1, <1>6, <1>7, <1>8, HandshakeCompletes DEF RailInv

\* What is before another order in the answers precedes it as the protocol asks.
LEMMA BeforePrecedes ==
  ASSUME NEW a \in RailOrder, NEW b \in RailOrder, Before(a, b)
  PROVE  Precedes(a, b)
<1>1. /\ a.order \in Orders /\ b.order \in Orders
      /\ a.handshake \in Nat /\ b.handshake \in Nat
  BY DEF RailOrder
<1>2. Rank(a.order) \in 1 .. 5 /\ Rank(b.order) \in 1 .. 5
  BY <1>1, Ranks
<1> QED BY <1>1, <1>2, Ranks DEF Before, Precedes

\* For any number of openings, handshakes and lost orders, the server starts the
\* application once for each handshake whose ClientExecute could be sent, last of
\* that handshake's orders, and receives every other order that could be sent
\* (rail.cc:3-52).
THEOREM OrdersComeInSequence == ChannelsSpec => []OrdersInSequence
<1>1. ChannelsInit => RailInv
  BY DEF ChannelsInit, RailInit, RailInv, InSequence, Complete
<1>2. RailInv /\ [ChannelsNext]_vars => RailInv'
  <2> SUFFICES ASSUME RailInv, [ChannelsNext]_vars PROVE RailInv'
    OBVIOUS
  <2>1. CASE UNCHANGED <<handshakes, orders, missing>>
    BY <2>1 DEF RailInv, Complete, Got
  <2>2. CASE \E lost : ServerHandshake(lost)
    BY <2>2, HandshakeKeeps
  <2> QED BY <2>1, <2>2
          DEF ChannelsNext, vars, railVars, OnChannelConnected, OnChannelDisconnected,
              ClipboardStep, RailStep, RailConnected, RailDisconnected
<1>3. RailInv => OrdersInSequence
  <2> SUFFICES ASSUME RailInv PROVE OrdersInSequence
    OBVIOUS
  <2>1. orders \in Seq(RailOrder) /\ DOMAIN orders = 1 .. Len(orders)
    BY DEF RailInv, InSequence
  <2>2. \A i, j \in DOMAIN orders : i < j => Precedes(orders[i], orders[j])
    BY <2>1, BeforePrecedes DEF RailInv, InSequence
  <2> QED BY <2>2 DEF RailInv, Complete, Got, OrdersInSequence
<1> QED BY <1>1, <1>2, <1>3, PTL DEF ChannelsSpec
================================================================================
