---------------------------- MODULE ChannelSpec ----------------------------
(***************************************************************************)
(* Channel as a specification of its own, with arbitrary calls and         *)
(* answers: what Wire implements.                                          *)
(***************************************************************************)
EXTENDS Channel

CONSTANTS Threads, Operations, Results

Next ==
  \/ \E t \in Threads :
       \/ \E o \in Operations : Send(t, o)
       \/ \E r \in Results : Receive(t, r)
       \/ Lose(t)
  \/ CannotWrite
  \/ \E r \in Results : Answer(r)
  \/ AnswerTimedOut
  \/ Break
  \/ Retire
  \/ Stop

Spec == ChannelInit /\ [][Next]_channelVars
=============================================================================
