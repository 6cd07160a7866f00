-------------------------------- MODULE Channels ---------------------------------
(***************************************************************************)
(* The virtual channels of one session: channel.cc hands what FreeRDP      *)
(* tells of a channel to Clipboard or Rail by the channel's name, if       *)
(* nodefreerdp_pre_connect could subscribe.                                *)
(***************************************************************************)
EXTENDS Clipboard, Rail

vars == <<clipboardVars, railVars>>

ChannelsInit == Init /\ RailInit

OnChannelConnected(name) ==
  \/ /\ name = "cliprdr"
     /\ ChannelConnected
     /\ UNCHANGED railVars
  \/ /\ name = "rail"
     /\ Running /\ subscribed = "yes"
     /\ RailConnected
     /\ UNCHANGED clipboardVars

\* Mutant of OnChannelDisconnected: the clipboard goes with the rail channel.
OnChannelDisconnectedBoth(name) ==
  \/ /\ name = "cliprdr"
     /\ ChannelDisconnected
     /\ UNCHANGED railVars
  \/ /\ name = "rail"
     /\ Running /\ request = {}
     /\ RailDisconnected
     /\ clipboard' = {}
     /\ UNCHANGED <<subscribed, channel, opens, before, astride, setter, text,
                    announced, request, requests, responses, crashed>>

OnChannelDisconnected(name) ==
  \/ /\ name = "cliprdr"
     /\ ChannelDisconnected
     /\ UNCHANGED railVars
  \/ /\ name = "rail"
     /\ Running
     /\ RailDisconnected
     /\ UNCHANGED clipboardVars

\* The clipboard channel's own handlers, and sendClipboard on the main thread.
ClipboardStep ==
  /\ \/ PreConnect \/ SendCapabilities \/ SendFirstFormatList
     \/ DataRequest \/ CheckLength \/ ReadLength \/ ReadBuffer
     \/ MainStep
  /\ UNCHANGED railVars

RailStep ==
  /\ Running
  /\ \E lost \in SUBSET Orders :
       Cardinality(lost) <= MaxLost /\ ServerHandshake(lost)
  /\ UNCHANGED clipboardVars

ChannelsNext ==
  \/ \E name \in {"cliprdr", "rail"} :
       OnChannelConnected(name) \/ OnChannelDisconnected(name)
  \/ ClipboardStep
  \/ RailStep

ChannelsSpec == ChannelsInit /\ [][ChannelsNext]_vars
================================================================================
