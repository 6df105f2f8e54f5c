---------------------------- MODULE NetworkThread ----------------------------
(***************************************************************************)
(* The network thread (networkop.cpp), which brings the network up and     *)
(* parks itself; InitializeNetwork, in which the main thread starts it,    *)
(* waits until it is parked and has it end; and CheckMplayerNetwork, by    *)
(* which the cache thread has it work again when a song on a share cannot  *)
(* be read and the network is gone (mplayer/stream/cache2.c).              *)
(*                                                                         *)
(* The network thread has the lowest priority (40), the cache thread the   *)
(* highest (70): what that one does is one action.  The cache thread alone *)
(* comes between the main thread's steps (64) that do not block, but for   *)
(* the test of the thread's handle and its creation, which are one.        *)
(***************************************************************************)
EXTENDS Naturals

CONSTANT Retries  \* the thread's attempts, 5

VARIABLES
  netHalt,           \* 0 run, 2 end
  networkthread,     \* where the network thread is
  retry,             \* its attempts left
  networkInit,       \* the network is up
  caller,            \* where InitializeNetwork is
  silent,            \* its argument
  cancelNetworkInit  \* its button was pressed

main == <<caller, silent, cancelNetworkInit>>
vars == <<netHalt, networkthread, retry, networkInit, main>>

Init ==
  /\ netHalt = 0 /\ networkthread = "none" /\ retry = 0 /\ networkInit = FALSE
  /\ caller = "rest" /\ silent = FALSE /\ cancelNetworkInit = FALSE

----------------------------------------------------------------------------
(* netcb.                                                                  *)

Round ==
  /\ networkthread = "round"
  /\ IF netHalt # 2 THEN networkthread' = "try" /\ retry' = Retries
                    ELSE networkthread' = "gone" /\ UNCHANGED retry
  /\ UNCHANGED <<netHalt, networkInit, main>>

Try ==
  /\ networkthread = "try"
  /\ networkthread' = IF retry > 0 /\ netHalt # 2 THEN "ask" ELSE "end"
  /\ UNCHANGED <<netHalt, retry, networkInit, main>>

\* The network is there, with an address of its own.
Connected ==
  /\ networkthread = "ask"
  /\ networkInit' = TRUE
  /\ networkthread' = "end"
  /\ UNCHANGED <<netHalt, retry, main>>

NotConnected ==
  /\ networkthread = "ask"
  /\ retry' = retry - 1
  /\ networkthread' = "try"
  /\ UNCHANGED <<netHalt, networkInit, main>>

\* It parks itself in a step of its own.
RoundEnds ==
  /\ networkthread = "end"
  /\ networkthread' = IF netHalt # 2 THEN "park" ELSE "round"
  /\ UNCHANGED <<netHalt, retry, networkInit, main>>

Parks ==
  /\ networkthread = "park"
  /\ networkthread' = "parked"
  /\ UNCHANGED <<netHalt, retry, networkInit, main>>

----------------------------------------------------------------------------
Wake == IF networkthread = "parked" THEN "round" ELSE networkthread

StartNetworkThread ==
  /\ netHalt' = 0
  /\ networkthread' = IF networkthread = "none" THEN "round" ELSE Wake

\* CheckMplayerNetwork.
CheckMplayerNetwork ==
  /\ networkInit' = FALSE
  /\ StartNetworkThread
  /\ UNCHANGED <<retry, main>>

\* InitializeNetwork.
InitializeNetwork(s) ==
  /\ caller = "rest" /\ ~networkInit
  /\ caller' = "loop" /\ silent' = s /\ cancelNetworkInit' = FALSE
  /\ UNCHANGED <<netHalt, networkthread, retry, networkInit>>

\* while(!networkInit)
LoopTest ==
  /\ caller = "loop"
  /\ IF networkInit
     THEN caller' = "rest" /\ UNCHANGED <<netHalt, networkthread>>
     ELSE caller' = "wait" /\ StartNetworkThread
  /\ UNCHANGED <<retry, networkInit, silent, cancelNetworkInit>>

CancelButton ==
  /\ caller \in {"wait", "stop", "join", "loop"} /\ ~cancelNetworkInit
  /\ cancelNetworkInit' = TRUE
  /\ UNCHANGED <<netHalt, networkthread, retry, networkInit, caller, silent>>

WaitEnds ==
  /\ caller = "wait" /\ (networkthread = "parked" \/ cancelNetworkInit)
  /\ caller' = "stop"
  /\ UNCHANGED <<netHalt, networkthread, retry, networkInit, silent, cancelNetworkInit>>

\* StopNetworkThread.  Only a parked thread is stopped.
NotStopped ==
  /\ caller = "stop" /\ networkthread # "parked"
  /\ caller' = "tried"
  /\ UNCHANGED <<netHalt, networkthread, retry, networkInit, silent, cancelNetworkInit>>

StopTest ==
  /\ caller = "stop" /\ networkthread = "parked"
  /\ caller' = "halt"
  /\ UNCHANGED <<netHalt, networkthread, retry, networkInit, silent, cancelNetworkInit>>

\* A wrong variant does not wake the thread it waits for.
StopAsleep ==
  /\ caller = "halt"
  /\ netHalt' = 2 /\ UNCHANGED networkthread
  /\ caller' = "join"
  /\ UNCHANGED <<retry, networkInit, silent, cancelNetworkInit>>
Stop ==
  /\ caller = "halt"
  /\ netHalt' = 2 /\ networkthread' = Wake
  /\ caller' = "join"
  /\ UNCHANGED <<retry, networkInit, silent, cancelNetworkInit>>

Joined ==
  /\ caller = "join" /\ networkthread = "gone"
  /\ networkthread' = "none"
  /\ caller' = "tried"
  /\ UNCHANGED <<netHalt, retry, networkInit, silent, cancelNetworkInit>>

Tried ==
  /\ caller = "tried"
  /\ caller' = IF silent \/ cancelNetworkInit THEN "rest" ELSE "loop"
  /\ UNCHANGED <<netHalt, networkthread, retry, networkInit, silent, cancelNetworkInit>>

\* The network thread runs only when the main thread sleeps or joins.
NetStep ==
  /\ caller \in {"rest", "wait", "join"}
  /\ Round \/ Try \/ Connected \/ NotConnected \/ RoundEnds \/ Parks
MainMust == LoopTest \/ WaitEnds \/ NotStopped \/ StopTest \/ Stop \/ Joined \/ Tried

Next ==
  \/ NetStep \/ MainMust \/ CancelButton \/ CheckMplayerNetwork
  \/ \E s \in BOOLEAN : InitializeNetwork(s)

Spec == Init /\ [][Next]_vars

\* Both threads go on, and what the network is asked is answered or times out.
FairSpec == Spec /\ WF_vars(NetStep) /\ WF_vars(MainMust)

----------------------------------------------------------------------------
\* Each variable has its type.
TypeOK ==
  /\ netHalt \in {0, 2} /\ retry \in 0..Retries
  /\ networkthread \in {"none", "round", "try", "ask", "end", "park", "parked", "gone"}
  /\ caller \in {"rest", "loop", "wait", "stop", "halt", "join", "tried"}
  /\ {networkInit, silent, cancelNetworkInit} \subseteq BOOLEAN

\* InitializeNetwork does not wait for ever, for the thread to park or to end:
\* unless the cache thread wakes the thread without end, or takes back its order
\* to end (CheckMplayerNetwork while StopNetworkThread joins it).
NetworkAnswers ==
  <>[][~CheckMplayerNetwork]_vars =>
    /\ caller = "wait" ~> caller # "wait"
    /\ caller = "join" ~> caller # "join" \/ netHalt = 0
=============================================================================
