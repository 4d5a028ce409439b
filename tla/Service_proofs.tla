---------------------------- MODULE Service_proofs ----------------------------
(***************************************************************************)
(* Theorems about the daemons on one machine, for any number of daemons,   *)
(* of connections and of calls, crashes, failures, ejections and writes.   *)
(***************************************************************************)
EXTENDS Service, TLAPS, FiniteSetTheorems

\* The history variables are written out everywhere.
USE DEF history, staged

\* The threads and their procedures; a main thread's is about its own daemon.
CallsOK ==
  /\ pc \in [Daemon -> MainPC]
  /\ call \in [Thread -> [pc : CallPC, on : {0} \cup Daemon, op : {"none", "mount", "unmount"},
                          seen : BOOLEAN]]
  /\ \A d \in Daemon : Busy(d) <=> pc[d] \in {"mounting", "unmounting"}
  /\ \A c \in Thread : Busy(c) => /\ call[c].on \in Daemon
                                  /\ c \in Daemon => call[c].on = c
RestOK ==
  /\ socket \in {0} \cup Daemon /\ mounts \in Seq({0} \cup Daemon)
  /\ peer \in [Daemon -> {0} \cup Daemon]
  /\ state \in [Daemon -> {"unmounted", "mounting", "mounted", "error"}]
  /\ stopping \subseteq Daemon
  /\ unsaved \in [Daemon -> SUBSET StagedFile] /\ late \in [Daemon -> SUBSET StagedFile]
  /\ todo \in [Daemon -> SUBSET StagedFile]
  /\ raced \in BOOLEAN /\ stacked \in BOOLEAN /\ disturbed \in BOOLEAN
  /\ \A bound \in DOMAIN left : left[bound] \in Nat
TInv == CallsOK /\ RestOK

LEMMA TInvType == TInv => TypeOK
  BY DEF TInv, CallsOK, RestOK, TypeOK

LEMMA InitTInv == Init => TInv
<1> SUFFICES ASSUME Init PROVE TInv
  OBVIOUS
<1> USE DEF Init
<1>1. 1 \in Daemon
  BY BoundAssumption DEF Daemon
<1>2. PICK end \in {"gone", "crashed"} :
        /\ pc = [d \in Daemon |-> IF d = 1 THEN end ELSE "unborn"]
        /\ socket = IF end = "crashed" THEN 1 ELSE 0
        /\ mounts \in {<<>>, <<0>>} \cup (IF end = "crashed" THEN {<<1>>} ELSE {})
  OBVIOUS
<1>3. {<<>>, <<0>>, <<1>>} \subseteq Seq({0} \cup Daemon)
  BY <1>1
<1>4. mounts \in Seq({0} \cup Daemon)
  BY <1>2, <1>3, Zenon
<1>5. pc \in [Daemon -> MainPC] /\ \A d \in Daemon : pc[d] \notin {"mounting", "unmounting"}
  BY <1>2 DEF MainPC, Starting, Serving, Ended
<1>6. call \in [Thread -> [pc : CallPC, on : {0} \cup Daemon, op : {"none", "mount", "unmount"},
                           seen : BOOLEAN]]
  BY DEF NoCall, CallPC
<1>7. \A c \in Thread : ~Busy(c)
  BY DEF Busy, NoCall
<1>8. \A b \in DOMAIN left : left[b] \in Nat
  BY BoundAssumption
<1>9. CallsOK
  BY <1>5, <1>6, <1>7 DEF CallsOK, Thread
<1>10. RestOK
  BY <1>1, <1>2, <1>4, <1>8 DEF RestOK
<1> QED BY <1>9, <1>10 DEF TInv

\* What is spent leaves natural numbers.
LEMMA SpendsKeepsBounds ==
  ASSUME NEW bound, \A b \in DOMAIN left : left[b] \in Nat, Spends(bound),
         bound \in {"calls", "crashes", "failures", "ejects", "writes"}
  PROVE  \A b \in DOMAIN left' : left'[b] \in Nat
  BY DEF Spends

\* A procedure goes on, or returns to its thread.
LEMMA GoesKeeps ==
  ASSUME CallsOK, NEW c \in Thread, Busy(c), NEW next \in CallPC \ {"idle"},
         Goes(c, next), UNCHANGED pc
  PROVE  CallsOK'
  BY DEF CallsOK, Goes, Busy, Thread
LEMMA ReturnsKeeps ==
  ASSUME CallsOK, NEW c \in Thread, Busy(c), Returns(c)
  PROVE  CallsOK'
<1>1. CASE c \in Daemon
  BY <1>1 DEF CallsOK, Returns, Busy, Thread, To, NoCall, CallPC, MainPC, Serving
<1>2. CASE c \notin Daemon
  BY <1>2 DEF CallsOK, Returns, Busy, Thread, NoCall, CallPC
<1> QED BY <1>1, <1>2

\* A procedure's step.
LEMMA MountStepKeepsTInv ==
  ASSUME TInv, NEW c \in Thread, MountStep(c)
  PROVE  TInv'
<1> USE DEF TInv
<1>0. Busy(c) /\ call[c].on \in Daemon
  BY DEF MountStep, Busy, CallsOK, Looks, Decides, UnmountLooks, UnmountCommand,
         UnmountFails, UnmountWrites, Prepares, MountCommand, MountFails, MountWrites
<1>a. Unmounted(c) => /\ CallsOK'
                      /\ state' \in [Daemon -> {"unmounted", "mounting", "mounted", "error"}]
  BY <1>0, GoesKeeps, ReturnsKeeps DEF Unmounted, Sets, RestOK, CallPC
<1>b. ASSUME NEW seen, Finds(seen)
      PROVE  disturbed' \in BOOLEAN /\ \A b \in DOMAIN left' : left'[b] \in Nat
  BY <1>b, SpendsKeepsBounds DEF Finds, RestOK
<1>1. CASE Looks(c)
  <2>1. CallsOK'
    BY <1>1, <1>0 DEF Looks, CallsOK, Busy, Thread, CallPC
  <2>2. PICK seen \in BOOLEAN : Finds(seen)
    BY <1>1 DEF Looks
  <2> QED BY <1>1, <2>1, <2>2, <1>b DEF Looks, RestOK
<1>2. CASE Decides(c)
  BY <1>2, <1>0, GoesKeeps, ReturnsKeeps DEF Decides, RestOK, CallPC
<1>3. CASE UnmountLooks(c)
  <2>1. PICK seen \in BOOLEAN :
          Finds(seen) /\ IF seen THEN Goes(c, "uncommand") /\ UNCHANGED <<pc, state>>
                         ELSE Unmounted(c)
    BY <1>3 DEF UnmountLooks
  <2>2. /\ CallsOK'
        /\ state' \in [Daemon -> {"unmounted", "mounting", "mounted", "error"}]
    BY <2>1, <1>0, <1>a, GoesKeeps DEF RestOK, CallPC
  <2> QED BY <1>3, <2>1, <2>2, <1>b DEF UnmountLooks, RestOK
<1>4. CASE UnmountCommand(c)
  <2>1. CallsOK'
    BY <1>4, <1>0, GoesKeeps DEF UnmountCommand, CallPC
  <2>2. mounts' \in Seq({0} \cup Daemon)
    BY <1>4 DEF UnmountCommand, Front, Mounted, RestOK
  <2> QED BY <1>4, <2>1, <2>2 DEF UnmountCommand, RestOK
<1>5. CASE UnmountFails(c)
  <2>1. CallsOK'
    BY <1>5, <1>0, ReturnsKeeps DEF UnmountFails
  <2>2. \A b \in DOMAIN left' : left'[b] \in Nat
    BY <1>5, SpendsKeepsBounds DEF UnmountFails, RestOK
  <2> QED BY <1>5, <2>1, <2>2 DEF UnmountFails, RestOK, Sets
<1>6. CASE UnmountWrites(c)
  BY <1>6, <1>a DEF UnmountWrites, RestOK
<1>7. CASE Prepares(c)
  BY <1>7, <1>0, GoesKeeps DEF Prepares, RestOK, CallPC, Sets
<1>8. CASE MountCommand(c)
  BY <1>8, <1>0, GoesKeeps DEF MountCommand, RestOK, CallPC, Mounted
<1>9. CASE MountFails(c)
  <2>1. CallsOK'
    BY <1>9, <1>0, ReturnsKeeps DEF MountFails
  <2>2. \A b \in DOMAIN left' : left'[b] \in Nat
    BY <1>9, SpendsKeepsBounds DEF MountFails, RestOK
  <2> QED BY <1>9, <2>1, <2>2 DEF MountFails, RestOK, Sets
<1>10. CASE MountWrites(c)
  BY <1>10, <1>0, ReturnsKeeps DEF MountWrites, RestOK, Sets
<1> QED
  BY <1>1, <1>2, <1>3, <1>4, <1>5, <1>6, <1>7, <1>8, <1>9, <1>10 DEF MountStep

\* A main thread goes from one place to another, no procedure being about it.
LEMMA ToKeeps ==
  ASSUME CallsOK, NEW d \in Daemon, NEW next \in MainPC \ {"mounting", "unmounting"},
         pc[d] \notin {"mounting", "unmounting"}, To(d, next), UNCHANGED call
  PROVE  CallsOK'
  BY DEF CallsOK, To, Busy, Thread

\* A process ends, and so do the procedures of its connections and its own.
LEMMA EndsKeeps ==
  ASSUME TInv, NEW d \in Daemon, NEW end \in Ended, TasksEnd(d, end)
  PROVE  /\ CallsOK'
         /\ peer' \in [Daemon -> {0} \cup Daemon]
         /\ state' \in [Daemon -> {"unmounted", "mounting", "mounted", "error"}]
         /\ stopping' \subseteq Daemon
         /\ Ends(d, end) => /\ unsaved' \in [Daemon -> SUBSET StagedFile]
                            /\ late' \in [Daemon -> SUBSET StagedFile]
                            /\ todo' \in [Daemon -> SUBSET StagedFile]
<1> USE DEF TInv
<1>1. end \in MainPC /\ end \notin {"mounting", "unmounting"}
  BY DEF MainPC, Ended
<1>2. pc' = [pc EXCEPT ![d] = end] /\ pc' \in [Daemon -> MainPC]
  BY <1>1 DEF TasksEnd, To, CallsOK
<1>3. \A c \in Thread : call'[c] = IF call[c].on = d THEN NoCall ELSE call[c]
  BY DEF TasksEnd
<1>4. call' \in [Thread -> [pc : CallPC, on : {0} \cup Daemon, op : {"none", "mount", "unmount"},
                            seen : BOOLEAN]]
  BY DEF TasksEnd, CallsOK, NoCall, CallPC
<1>5. \A c \in Thread : Busy(c)' => call'[c] = call[c] /\ call[c].on # d /\ Busy(c)
  BY <1>3 DEF Busy, NoCall
<1>6. \A c \in Thread : Busy(c) /\ call[c].on # d => Busy(c)'
  BY <1>3 DEF Busy
<1>7. \A e \in Daemon : Busy(e)' <=> pc'[e] \in {"mounting", "unmounting"}
  BY <1>1, <1>2, <1>5, <1>6 DEF CallsOK, Thread
<1>8. CallsOK'
  BY <1>2, <1>4, <1>5, <1>7 DEF CallsOK
<1> QED BY <1>8 DEF TasksEnd, Ends, RestOK

LEMMA NextKeepsTInv == TInv /\ [Next]_vars => TInv'
<1> SUFFICES ASSUME TInv, [Next]_vars PROVE TInv'
  OBVIOUS
<1> USE DEF TInv
<1>1. ASSUME NEW d \in Daemon, Start(d) PROVE TInv'
  BY <1>1, ToKeeps DEF Start, RestOK, MainPC, Starting
<1>2. ASSUME NEW d \in Daemon, LooksForSocket(d) PROVE TInv'
  BY <1>2, ToKeeps DEF LooksForSocket, RestOK, MainPC, Starting
<1>3. ASSUME NEW d \in Daemon, Connects(d) PROVE TInv'
  <2>1. CASE UNCHANGED pc /\ peer' = [peer EXCEPT ![d] = socket]
    BY <1>3, <2>1 DEF Connects, RestOK, CallsOK, Busy
  <2>2. CASE To(d, "unlink") /\ UNCHANGED peer
    BY <1>3, <2>2, ToKeeps DEF Connects, RestOK, MainPC, Starting
  <2> QED BY <1>3, <2>1, <2>2 DEF Connects
<1>4. ASSUME NEW d \in Daemon, HearsPong(d) PROVE TInv'
  BY <1>4, EndsKeeps DEF HearsPong, Ends, RestOK, Ended
<1>5. ASSUME NEW d \in Daemon, HearsNothing(d) PROVE TInv'
  BY <1>5, ToKeeps DEF HearsNothing, RestOK, MainPC, Starting
<1>6. ASSUME NEW d \in Daemon, Unlinks(d) PROVE TInv'
  BY <1>6, ToKeeps DEF Unlinks, RestOK, MainPC, Starting, Ended
<1>7. ASSUME NEW d \in Daemon, BindsSocket(d) PROVE TInv'
  BY <1>7, ToKeeps DEF BindsSocket, Binds, RestOK, MainPC, Serving, Ended
<1>8. ASSUME NEW d \in Daemon, ServerFails(d) PROVE TInv'
  <2>1. CallsOK'
    BY <1>8, ToKeeps DEF ServerFails, MainPC, Ended
  <2>2. \A b \in DOMAIN left' : left'[b] \in Nat
    BY <1>8, SpendsKeepsBounds DEF ServerFails, RestOK
  <2> QED BY <1>8, <2>1, <2>2 DEF ServerFails, RestOK
<1>9. ASSUME NEW d \in Daemon, NEW op \in {"mount", "unmount"}, NEW next \in MainPC,
             next \in {"mounting", "unmounting"}, To(d, next), Calls(d, d, op)
      PROVE  CallsOK'
  BY <1>9 DEF CallsOK, To, Calls, Busy, Thread, CallPC
<1>10. ASSUME NEW d \in Daemon, MountsAtStart(d) PROVE TInv'
  <2>1. CallsOK'
    BY <1>9, <1>10 DEF MountsAtStart, MainPC, Serving
  <2> QED BY <1>10, <2>1 DEF MountsAtStart, RestOK, Calls
<1>11. ASSUME NEW d \in Daemon, LeavesLoop(d) PROVE TInv'
  <2>1. CallsOK'
    BY <1>11, ToKeeps DEF LeavesLoop, MainPC, Serving
  <2> QED BY <1>11, <2>1 DEF LeavesLoop, RestOK
<1>12. ASSUME NEW d \in Daemon, FlushesNext(d) \/ UnmountsAtEnd(d) PROVE TInv'
  <2>1. CASE FlushesNext(d)
    <3>1. CallsOK'
      BY <2>1 DEF FlushesNext, CallsOK, Busy
    <3>2. PICK i \in StagedFile : i \in todo[d] /\ FlushFile(d, i)
      BY <2>1 DEF FlushesNext, RestOK
    <3> QED BY <2>1, <3>1, <3>2 DEF FlushesNext, FlushFile, Commits, RestOK
  <2>2. CASE UnmountsAtEnd(d)
    <3>1. CallsOK'
      BY <1>9, <2>2 DEF UnmountsAtEnd, MainPC, Serving
    <3> QED BY <2>2, <3>1 DEF UnmountsAtEnd, RestOK, Calls
  <2> QED BY <1>12, <2>1, <2>2
<1>13. ASSUME NEW d \in Daemon, Exits(d) \/ LoopFails(d) PROVE TInv'
  <2>1. CASE Exits(d)
    BY <2>1, EndsKeeps DEF Exits, Ends, RestOK, Ended
  <2>2. CASE LoopFails(d)
    <3>1. \A b \in DOMAIN left' : left'[b] \in Nat
      BY <2>2, SpendsKeepsBounds DEF LoopFails, RestOK
    <3> QED BY <2>2, <3>1, EndsKeeps DEF LoopFails, RestOK, Ended
  <2> QED BY <1>13, <2>1, <2>2
<1>14. ASSUME NEW d \in Daemon, Crashes(d) PROVE TInv'
  <2>1. \A b \in DOMAIN left' : left'[b] \in Nat
    BY <1>14, SpendsKeepsBounds DEF Crashes, RestOK
  <2> QED BY <1>14, <2>1, EndsKeeps DEF Crashes, Ends, RestOK, Ended
<1>15. ASSUME NEW d \in Daemon, Shutdown(d) PROVE TInv'
  <2>1. CallsOK' /\ \A b \in DOMAIN left' : left'[b] \in Nat
    BY <1>15, SpendsKeepsBounds DEF Shutdown, CallsOK, Busy, RestOK
  <2> QED BY <1>15, <2>1 DEF Shutdown, RestOK
<1>19. ASSUME NEW d \in Daemon, NEW i \in StagedFile, Written(d, i) \/ Saved(d, i)
       PROVE  TInv'
  <2>1. CallsOK'
    BY <1>19 DEF Written, Saved, CallsOK, Busy
  <2>2. \A b \in DOMAIN left' : left'[b] \in Nat
    BY <1>19, SpendsKeepsBounds DEF Written, Saved, RestOK
  <2>3. CASE Written(d, i)
    BY <2>1, <2>2, <2>3 DEF Written, RestOK
  <2>4. CASE Saved(d, i)
    BY <2>1, <2>2, <2>4 DEF Saved, Commits, RestOK
  <2> QED BY <1>19, <2>3, <2>4
<1>16. ASSUME NEW c \in Client, NEW d \in Daemon, NEW op \in {"mount", "unmount"},
              Requests(c, d, op)
       PROVE  TInv'
  <2>1. CallsOK'
    <3>1. c \notin Daemon /\ c \in Thread
      BY ClientAssumption DEF Daemon, Thread
    <3>2. pc' = pc /\ call' = [call EXCEPT ![c] =
            [pc |-> IF op = "mount" THEN "look" ELSE "unlook", on |-> d, op |-> op,
             seen |-> FALSE]]
      BY <1>16 DEF Requests, Calls
    <3> QED BY <3>1, <3>2 DEF CallsOK, Busy, CallPC, Thread
  <2>2. \A b \in DOMAIN left' : left'[b] \in Nat
    BY <1>16, SpendsKeepsBounds DEF Requests, RestOK
  <2> QED BY <1>16, <2>1, <2>2 DEF Requests, RestOK, Calls
<1>17. ASSUME Eject PROVE TInv'
  <2>1. CallsOK'
    BY <1>17 DEF Eject, CallsOK, Busy
  <2>2. \A b \in DOMAIN left' : left'[b] \in Nat
    BY <1>17, SpendsKeepsBounds DEF Eject, RestOK
  <2>3. mounts' \in Seq({0} \cup Daemon)
    BY <1>17 DEF Eject, Front, Mounted, RestOK
  <2> QED BY <1>17, <2>1, <2>2, <2>3 DEF Eject, RestOK
<1>18. CASE UNCHANGED vars
  BY <1>18 DEF vars, CallsOK, Busy, RestOK
<1> QED
  BY <1>1, <1>2, <1>3, <1>4, <1>5, <1>6, <1>7, <1>8, <1>10, <1>11, <1>12, <1>13, <1>14,
     <1>15, <1>16, <1>17, <1>18, <1>19, MountStepKeepsTInv DEF Next, MainStep

\* The daemons' variables keep their types, and a main thread is in a procedure on
\* mounts exactly while it says so.
THEOREM TypeCorrect == Spec => []TypeOK
<1>1. Spec => []TInv
  BY InitTInv, NextKeepsTInv, PTL DEF Spec
<1> QED BY <1>1, TInvType, PTL

-----------------------------------------------------------------------------
(* One daemon.                                                             *)

\* Unless two have been started at the same moment: one daemon at most is starting;
\* the one that serves has bound the file that is there; nobody serves while another
\* is about to remove the file or to bind it; and who waits for an answer waits for
\* the one that serves.
Alone ==
  /\ \A d, e \in Daemon : pc[d] \in Starting /\ pc[e] \in Starting => d = e
  /\ \A d \in Daemon : pc[d] \in Serving => socket = d
  /\ \A d, e \in Daemon : pc[d] \in {"unlink", "bind"} => pc[e] \notin Serving
  /\ \A d, e \in Daemon : peer[d] # 0 /\ pc[e] \in Serving => peer[d] = e
Asking == \A d \in Daemon : peer[d] # 0 => pc[d] = "ping"
OneInv == TInv /\ Asking /\ (raced \/ Alone)

LEMMA InitOneInv == Init => OneInv
<1> SUFFICES ASSUME Init PROVE Asking /\ Alone
  BY InitTInv DEF OneInv
<1>1. \A d \in Daemon : pc[d] \notin Starting \cup Serving /\ peer[d] = 0
  BY DEF Init, Starting, Serving
<1> QED BY <1>1 DEF Alone, Asking, Starting

\* A step that leaves the processes, the socket and what they wait for alone.
LEMMA QuietKeepsAlone ==
  ASSUME Alone, UNCHANGED socket, UNCHANGED pc, UNCHANGED peer
  PROVE  Alone'
  BY DEF Alone

\* A step that makes no process start or serve, and does not take the socket file
\* from the one that serves.
LEMMA FewerKeepsAlone ==
  ASSUME Alone, NEW d \in Daemon, NEW next \in Ended \cup Serving, pc \in [Daemon -> MainPC],
         To(d, next), next \in Serving => pc[d] \in Serving,
         socket' = socket \/ (socket' = 0 /\ pc[d] \in Serving /\ next \in Ended),
         \A e \in Daemon : peer'[e] \in {0, peer[e]}
  PROVE  Alone'
<1>1. \A e \in Daemon : pc'[e] = IF e = d THEN next ELSE pc[e]
  BY DEF To
<1>2. next \notin Starting /\ next \notin {"unlink", "bind"}
  BY DEF Starting, Serving, Ended
<1>3. \A e \in Daemon : /\ pc'[e] \in Starting => pc[e] \in Starting
                        /\ pc'[e] \in Serving => pc[e] \in Serving
                        /\ pc'[e] \in {"unlink", "bind"} => pc[e] = pc'[e]
  BY <1>1, <1>2
<1>4. \A e \in Daemon : pc'[e] \in Serving => socket' = e
  <2> TAKE e \in Daemon
  <2> HAVE pc'[e] \in Serving
  <2>1. socket = e
    BY <1>3 DEF Alone
  <2>2. CASE socket' = 0 /\ pc[d] \in Serving /\ next \in Ended
    <3>1. socket = d
      BY <2>2 DEF Alone
    <3>2. next \notin Serving
      BY <2>2 DEF Serving, Ended
    <3> QED BY <2>1, <3>1, <3>2, <1>1
  <2> QED BY <2>1, <2>2
<1> QED BY <1>3, <1>4 DEF Alone

\* A procedure's step: a main thread that is in one serves, and goes on serving.
LEMMA MountStepKeepsAlone ==
  ASSUME OneInv, NEW c \in Thread, MountStep(c)
  PROVE  OneInv'
<1>1. TInv' /\ UNCHANGED <<socket, peer, raced>>
  BY MountStepKeepsTInv
  DEF OneInv, MountStep, Looks, Decides, UnmountLooks, UnmountCommand, UnmountFails,
      UnmountWrites, Prepares, MountCommand, MountFails, MountWrites
<1>2. Busy(c) /\ (UNCHANGED pc \/ Returns(c))
  BY DEF MountStep, Busy, Looks, Decides, UnmountLooks, UnmountCommand, UnmountFails,
         UnmountWrites, Prepares, MountCommand, MountFails, MountWrites, Unmounted
<1>3. UNCHANGED pc \/ \E next \in {"run", "stop"} :
        c \in Daemon /\ pc[c] \in {"mounting", "unmounting"} /\ To(c, next)
  BY <1>2 DEF Returns, OneInv, TInv, CallsOK
<1>4. CASE UNCHANGED pc
  BY <1>1, <1>4, QuietKeepsAlone DEF OneInv, Asking
<1>5. ASSUME NEW next \in {"run", "stop"}, c \in Daemon,
             pc[c] \in {"mounting", "unmounting"}, To(c, next)
      PROVE  OneInv'
  <2>1. next \in Serving /\ pc[c] \in Serving
    BY <1>5 DEF Serving
  <2>2. raced \/ Alone'
    BY <1>1, <1>5, <2>1, FewerKeepsAlone DEF OneInv, TInv, CallsOK
  <2>3. Asking'
    BY <1>1, <1>5 DEF OneInv, Asking, TInv, CallsOK, To
  <2> QED BY <1>1, <2>2, <2>3 DEF OneInv
<1> QED BY <1>3, <1>4, <1>5

LEMMA NextKeepsOneInv == OneInv /\ [Next]_vars => OneInv'
<1> SUFFICES ASSUME OneInv, [Next]_vars PROVE OneInv'
  OBVIOUS
<1>0. TInv' /\ TInv /\ Asking /\ CallsOK /\ pc \in [Daemon -> MainPC]
      /\ peer \in [Daemon -> {0} \cup Daemon] /\ 0 \notin Daemon
  BY NextKeepsTInv DEF OneInv, TInv, CallsOK, RestOK, Daemon
<1>q. ASSUME UNCHANGED <<socket, pc, peer, raced>> PROVE OneInv'
  BY <1>0, <1>q, QuietKeepsAlone DEF OneInv, Asking
<1>1. ASSUME NEW d \in Daemon, Start(d) PROVE OneInv'
  BY <1>0, <1>1 DEF Start, To, OneInv, Alone, Asking, Starting, Serving
<1>2. ASSUME NEW d \in Daemon, LooksForSocket(d) PROVE OneInv'
  BY <1>0, <1>2 DEF LooksForSocket, To, OneInv, Alone, Asking, Starting, Serving
<1>3. ASSUME NEW d \in Daemon, Connects(d) PROVE OneInv'
  BY <1>0, <1>3 DEF Connects, To, OneInv, Alone, Asking, Alive, Starting, Serving
<1>4. ASSUME NEW d \in Daemon, HearsNothing(d) PROVE OneInv'
  BY <1>0, <1>4 DEF HearsNothing, To, OneInv, Alone, Asking, PeerEnded, Starting, Serving,
     Ended
<1>5. ASSUME NEW d \in Daemon, Unlinks(d) PROVE OneInv'
  BY <1>0, <1>5 DEF Unlinks, To, OneInv, Alone, Asking, Starting, Serving
<1>6. ASSUME NEW d \in Daemon, BindsSocket(d) PROVE OneInv'
  BY <1>0, <1>6 DEF BindsSocket, Binds, To, OneInv, Alone, Asking, Starting, Serving
<1>7. ASSUME NEW d \in Daemon,
             ServerFails(d) \/ MountsAtStart(d) \/ LeavesLoop(d) \/ UnmountsAtEnd(d)
      PROVE  OneInv'
  <2>1. PICK next \in Ended \cup Serving :
          /\ To(d, next) /\ (next \in Serving => pc[d] \in Serving)
          /\ socket' = socket \/ (socket' = 0 /\ pc[d] \in Serving /\ next \in Ended)
          /\ pc[d] # "ping" /\ UNCHANGED <<peer, raced>>
    BY <1>7 DEF ServerFails, MountsAtStart, LeavesLoop, UnmountsAtEnd, Serving, Ended
  <2>2. raced \/ Alone'
    BY <1>0, <2>1, FewerKeepsAlone DEF OneInv
  <2> QED BY <1>0, <2>1, <2>2 DEF OneInv, Asking, To
<1>8. ASSUME NEW d \in Daemon, HearsPong(d) \/ Exits(d) \/ LoopFails(d) \/ Crashes(d)
      PROVE  OneInv'
  <2>1. PICK end \in Ended :
          /\ To(d, end) /\ peer' = [peer EXCEPT ![d] = 0] /\ UNCHANGED raced
          /\ socket' = socket \/ (socket' = 0 /\ pc[d] \in Serving)
    BY <1>8 DEF HearsPong, Exits, LoopFails, Crashes, Ends, TasksEnd, Serving, Ended
  <2>2. end \notin Serving
    BY DEF Serving, Ended
  <2>3. raced \/ Alone'
    BY <1>0, <2>1, <2>2, FewerKeepsAlone DEF OneInv
  <2> QED BY <1>0, <2>1, <2>3 DEF OneInv, Asking, To
<1>9. ASSUME NEW d \in Daemon, \/ Shutdown(d) \/ FlushesNext(d)
                                \/ \E i \in StagedFile : Written(d, i) \/ Saved(d, i)
      PROVE  OneInv'
  BY <1>q, <1>9 DEF Shutdown, FlushesNext, Written, Saved
<1>10. ASSUME NEW c \in Client, NEW d \in Daemon, NEW op \in {"mount", "unmount"},
              Requests(c, d, op)
       PROVE  OneInv'
  BY <1>q, <1>10 DEF Requests
<1>11. CASE Eject \/ UNCHANGED vars
  BY <1>q, <1>11 DEF Eject, vars
<1> QED
  BY <1>1, <1>2, <1>3, <1>4, <1>5, <1>6, <1>7, <1>8, <1>9, <1>10, <1>11, MountStepKeepsAlone
  DEF Next, MainStep

\* One daemon at a time serves, unless two were started at the same moment: the
\* leftover of a crash is taken over, a living daemon's socket never.
THEOREM OneDaemonAlways == Spec => []OneDaemon
<1>1. Spec => []OneInv
  BY InitOneInv, NextKeepsOneInv, PTL DEF Spec
<1>2. OneInv => OneDaemon
  <2> SUFFICES ASSUME OneInv, ~raced
               PROVE  Cardinality({d \in Daemon : pc[d] \in Serving}) <= 1
    BY DEF OneDaemon
  <2>1. {d \in Daemon : pc[d] \in Serving} \subseteq {socket}
    BY DEF OneInv, Alone
  <2>2. IsFiniteSet({socket}) /\ Cardinality({socket}) = 1
    BY FS_Singleton
  <2>3. Cardinality({d \in Daemon : pc[d] \in Serving}) <= Cardinality({socket})
    BY <2>1, <2>2, FS_Subset
  <2> QED BY <2>2, <2>3
<1> QED BY <1>1, <1>2, PTL

-----------------------------------------------------------------------------
(* What was staged before the end is saved.                                *)

\* Everything unsaved the flush has still to look at, or it is known to be late or to
\* have failed; after the flush there is nothing left of the first kind.
Flushed ==
  \A d \in Daemon :
    /\ pc[d] = "flush" => unsaved[d] \subseteq late[d] \cup todo[d]
    /\ pc[d] \in {"unmounting", "stop"} => unsaved[d] \subseteq late[d] /\ todo[d] = {}
LossInv == TInv /\ Flushed

LEMMA InitLossInv == Init => LossInv
  BY InitTInv DEF Init, LossInv, Flushed

LEMMA MountStepKeepsFlushed ==
  ASSUME LossInv, NEW c \in Thread, MountStep(c)
  PROVE  Flushed'
<1>1. UNCHANGED staged
  BY DEF MountStep, Looks, Decides, UnmountLooks, UnmountCommand, UnmountFails,
         UnmountWrites, Prepares, MountCommand, MountFails, MountWrites
<1>2. Busy(c) /\ (UNCHANGED pc \/ Returns(c))
  BY DEF MountStep, Busy, Looks, Decides, UnmountLooks, UnmountCommand, UnmountFails,
         UnmountWrites, Prepares, MountCommand, MountFails, MountWrites, Unmounted
<1>3. \A d \in Daemon :
        /\ pc'[d] = "flush" => pc[d] = "flush"
        /\ pc'[d] \in {"unmounting", "stop"} => pc[d] \in {"unmounting", "stop"}
  BY <1>2 DEF Returns, To, LossInv, TInv, CallsOK
<1> QED BY <1>1, <1>3 DEF LossInv, Flushed

LEMMA NextKeepsLossInv == LossInv /\ [Next]_vars => LossInv'
<1> SUFFICES ASSUME LossInv, [Next]_vars PROVE Flushed'
  BY NextKeepsTInv DEF LossInv
<1>0. /\ pc \in [Daemon -> MainPC] /\ unsaved \in [Daemon -> SUBSET StagedFile]
      /\ late \in [Daemon -> SUBSET StagedFile] /\ todo \in [Daemon -> SUBSET StagedFile]
  BY DEF LossInv, TInv, CallsOK, RestOK
<1>1. ASSUME NEW d \in Daemon,
             \/ Start(d) \/ LooksForSocket(d) \/ Connects(d) \/ HearsNothing(d) \/ Unlinks(d)
             \/ BindsSocket(d) \/ ServerFails(d) \/ MountsAtStart(d)
      PROVE  Flushed'
  BY <1>0, <1>1 DEF LossInv, Flushed, To, Start, LooksForSocket, Connects, HearsNothing,
     Unlinks, BindsSocket, Binds, ServerFails, MountsAtStart
<1>2. ASSUME NEW d \in Daemon, HearsPong(d) \/ Exits(d) \/ LoopFails(d) \/ Crashes(d)
      PROVE  Flushed'
  BY <1>0, <1>2 DEF LossInv, Flushed, To, HearsPong, Exits, LoopFails, Crashes, Ends, TasksEnd
<1>3. ASSUME NEW d \in Daemon, LeavesLoop(d) \/ UnmountsAtEnd(d) PROVE Flushed'
  <2>1. CASE LeavesLoop(d)
    BY <1>0, <2>1 DEF LossInv, Flushed, To, LeavesLoop
  <2>2. CASE UnmountsAtEnd(d)
    BY <1>0, <2>2 DEF LossInv, Flushed, To, UnmountsAtEnd
  <2> QED BY <1>3, <2>1, <2>2
<1>a. ASSUME NEW d \in Daemon, FlushesNext(d) PROVE Flushed'
  <2>1. PICK i \in todo[d] : FlushFile(d, i)
    BY <1>a DEF FlushesNext
  <2>2. \A e \in Daemon \ {d} : /\ unsaved'[e] = unsaved[e] /\ late'[e] = late[e]
                                /\ todo'[e] = todo[e]
    BY <1>0, <2>1 DEF FlushFile, Commits
  <2>3. unsaved'[d] \subseteq late'[d] \cup todo'[d]
    BY <1>0, <1>a, <2>1 DEF LossInv, Flushed, FlushesNext, FlushFile, Commits
  <2> QED BY <1>a, <2>2, <2>3 DEF LossInv, Flushed, FlushesNext
<1>4. ASSUME NEW d \in Daemon, Shutdown(d) PROVE Flushed'
  BY <1>4 DEF LossInv, Flushed, Shutdown
<1>b. ASSUME NEW d \in Daemon, NEW i \in StagedFile, Saved(d, i) PROVE Flushed'
  BY <1>0, <1>b DEF LossInv, Flushed, Saved, Commits
<1>5. ASSUME NEW d \in Daemon, NEW i \in StagedFile, Written(d, i) PROVE Flushed'
  <2>1. /\ \A e \in Daemon \ {d} : unsaved'[e] = unsaved[e] /\ late'[e] = late[e]
        /\ unsaved'[d] = unsaved[d] \cup {i}
        /\ UNCHANGED <<pc, todo>>
    BY <1>0, <1>5 DEF Written
  <2>2. pc[d] \in {"flush", "unmounting"} /\ i \notin todo[d] => late'[d] = late[d] \cup {i}
    BY <1>0, <1>5 DEF Written
  <2>3. late[d] \subseteq late'[d] /\ pc[d] # "stop"
    BY <1>0, <1>5 DEF Written, ServerUp
  <2>4. pc[d] = "unmounting" => i \notin todo[d]
    BY DEF LossInv, Flushed
  <2> QED BY <2>1, <2>2, <2>3, <2>4 DEF LossInv, Flushed
<1>6. ASSUME NEW c \in Client, NEW d \in Daemon, NEW op \in {"mount", "unmount"},
             Requests(c, d, op)
      PROVE  Flushed'
  BY <1>6 DEF LossInv, Flushed, Requests
<1>7. CASE Eject \/ UNCHANGED vars
  BY <1>7 DEF LossInv, Flushed, Eject, vars
<1> QED
  BY <1>1, <1>2, <1>3, <1>a, <1>4, <1>b, <1>5, <1>6, <1>7, MountStepKeepsFlushed DEF Next, MainStep

\* When a daemon has exited, everything staged is on the phone, but for what came after
\* the flush had passed its file and for files whose commit failed.
THEOREM NothingLostEver == Spec => NothingLost
<1>1. Spec => []LossInv
  BY InitLossInv, NextKeepsLossInv, PTL DEF Spec
<1>2. LossInv => [\A d \in Daemon : Exits(d) => unsaved[d] \subseteq late[d]]_vars
  BY DEF LossInv, Flushed, Exits
<1> QED BY <1>1, <1>2, PTL DEF NothingLost

-----------------------------------------------------------------------------
(* The volume.                                                             *)

\* Procedures are about daemons that serve, and so is what is known to be mounted.
Engaged ==
  /\ \A c \in Thread : Busy(c) => pc[call[c].on] \in Serving \ {"nfs"}
  /\ \A d \in Daemon : state[d] = "mounted" => pc[d] \in Serving \ {"nfs"}

\* Which steps are whose.
Ops ==
  /\ \A c \in Thread : call[c].pc \in {"look", "decide", "prepare", "command", "write"}
                         => call[c].op = "mount"
  /\ \A d \in Daemon : pc[d] = "unmounting" => call[d].op = "unmount"

\* One volume at a time, and a daemon that has mounted its own finds no other's.
Owned ==
  /\ Len(mounts) <= 1
  /\ \A d \in Daemon : state[d] = "mounted" => mounts \in {<<>>, <<d>>}
  /\ \A c \in Thread : call[c].pc = "write" => mounts \in {<<>>, <<call[c].on>>}

\* Procedures follow one another: what one has found or made it finds again.
Orderly ==
  /\ ~stacked
  /\ \A b, c \in Thread : Busy(b) /\ Busy(c) => b = c
  /\ Len(mounts) <= 1
  /\ \A c \in Thread : call[c].pc \in {"prepare", "command", "unwrite"} => mounts = <<>>
  /\ \A c \in Thread : call[c].pc = "decide" /\ ~call[c].seen => mounts = <<>>
  /\ \A c \in Thread : Busy(c) => pc[call[c].on] # "stop"
  /\ \A d \in Daemon : pc[d] \in {"stop", "gone"} => mounts # <<d>>

\* What a daemon does not know to be mounted is not mounted.
Idle(d) == \A c \in Thread : Busy(c) => call[c].on # d
Knows ==
  \A d \in Daemon : pc[d] \in {"run", "flush"} /\ Idle(d) /\ state[d] # "mounted"
                      => mounts = <<>>

VolInv ==
  /\ OneInv /\ Engaged /\ Ops
  /\ raced \/ stacked \/ Owned
  /\ disturbed \/ Orderly
  /\ raced \/ disturbed \/ Knows

LEMMA InitVolInv == Init => VolInv
<1> SUFFICES ASSUME Init PROVE Engaged /\ Ops /\ Owned /\ Orderly /\ Knows
  BY InitOneInv DEF VolInv
<1>1. PICK end \in {"gone", "crashed"} :
        /\ pc = [d \in Daemon |-> IF d = 1 THEN end ELSE "unborn"]
        /\ mounts \in {<<>>, <<0>>} \cup (IF end = "crashed" THEN {<<1>>} ELSE {})
  BY DEF Init
<1>2. /\ \A c \in Thread : call[c] = NoCall
      /\ \A d \in Daemon : state[d] = "unmounted"
      /\ ~stacked
  BY DEF Init
<1>3. Len(mounts) <= 1 /\ (end = "gone" => mounts \in {<<>>, <<0>>})
  <2>1. mounts = <<>> \/ mounts = <<0>> \/ (end = "crashed" /\ mounts = <<1>>)
    BY <1>1, Zenon
  <2>2. Len(<<>>) <= 1 /\ Len(<<0>>) <= 1 /\ Len(<<1>>) <= 1
    OBVIOUS
  <2>3. Len(mounts) <= 1
    BY <2>1, <2>2, Zenon
  <2>4. end = "gone" => mounts \in {<<>>, <<0>>}
    BY <2>1, Zenon
  <2> QED BY <2>3, <2>4, Zenon
<1>4. \A d \in Daemon : pc[d] \in {"gone", "crashed", "unborn"} /\ (d # 1 => pc[d] = "unborn")
  BY <1>1
<1>5. Engaged /\ Ops /\ Owned /\ Knows
  BY <1>2, <1>3, <1>4 DEF Engaged, Ops, Owned, Knows, NoCall, Busy
<1>6. \A d \in Daemon : pc[d] \in {"stop", "gone"} => mounts # <<d>>
  BY <1>1, <1>3, <1>4, SMTT(30)
<1>7. \A c \in Thread : ~Busy(c) /\ call[c].pc = "idle"
  BY <1>2 DEF NoCall, Busy
<1>8. Orderly
  BY <1>2, <1>3, <1>6, <1>7 DEF Orderly
<1> QED BY <1>5, <1>8

LEMMA FrontOfOne ==
  ASSUME mounts \in Seq({0} \cup Daemon), Len(mounts) <= 1, Mounted
  PROVE  Front(mounts) = <<>>
  BY DEF Front, Mounted
LEMMA AppendToNone ==
  ASSUME NEW d \in Daemon, mounts = <<>>, mounts' = Append(mounts, d)
  PROVE  mounts' = <<d>> /\ Len(mounts') <= 1
<1>1. Append(<<>>, d) = <<d>> /\ Len(<<d>>) = 1
  OBVIOUS
<1> QED BY <1>1

\* Steps that leave the volume, what is known of it and the procedures alone.
Apart == UNCHANGED <<mounts, state, call, stacked, disturbed>>

\* A main thread moves, not from or to a place where it matters.
LEMMA MoveKeepsVolume ==
  ASSUME VolInv, OneInv', NEW d \in Daemon, NEW next \in MainPC, To(d, next), Apart,
         raced => raced',
         \/ /\ pc[d] \in Starting \cup {"unborn", "nfs"}
            /\ next \in Starting \cup {"nfs", "failed"}
         \/ pc[d] = "run" /\ next = "flush"
  PROVE  VolInv'
<1>0. /\ OneInv /\ Engaged /\ Ops
      /\ pc \in [Daemon -> MainPC]
      /\ \A c \in Thread : Busy(c) => call[c].on \in Daemon
  BY DEF VolInv, OneInv, TInv, CallsOK
<1>1. \A c \in Thread : Busy(c)' <=> Busy(c)
  BY DEF Apart, Busy
<1>2. Engaged' /\ Ops'
  BY <1>0, <1>1 DEF Engaged, Ops, Apart, To, Starting, Serving
<1>3. Owned => Owned'
  BY DEF Owned, Apart
<1>4. Orderly => Orderly'
  BY <1>0, <1>1 DEF Orderly, Apart, To, Starting
<1>5. Knows => Knows'
  BY <1>0, <1>1 DEF Knows, Idle, Apart, To, Starting
<1> QED BY <1>2, <1>3, <1>4, <1>5 DEF VolInv, Apart

\* A process ends.
LEMMA EndKeepsVolume ==
  ASSUME VolInv, OneInv', NEW d \in Daemon, NEW end \in Ended, TasksEnd(d, end),
         UNCHANGED <<mounts, history>>, end = "gone" => pc[d] = "stop"
  PROVE  VolInv'
<1>0. /\ OneInv /\ Engaged /\ Ops
      /\ pc \in [Daemon -> MainPC] /\ state \in [Daemon -> {"unmounted", "mounting", "mounted", "error"}]
      /\ \A c \in Thread : Busy(c) => call[c].on \in Daemon
      /\ \A e \in Daemon : pc[e] \in {"mounting", "unmounting"} => Busy(e) /\ call[e].on = e
  BY DEF VolInv, OneInv, TInv, CallsOK, RestOK, Thread
<1>1. /\ \A e \in Daemon : pc'[e] = IF e = d THEN end ELSE pc[e]
      /\ \A e \in Daemon : state'[e] = IF e = d THEN "unmounted" ELSE state[e]
      /\ \A c \in Thread : call'[c] = IF call[c].on = d THEN NoCall ELSE call[c]
  BY <1>0 DEF TasksEnd, To
<1>2. \A c \in Thread : Busy(c)' => Busy(c) /\ call'[c] = call[c] /\ call[c].on # d
  BY <1>1 DEF Busy, NoCall
<1>3. \A c \in Thread : Busy(c) /\ call[c].on # d => Busy(c)'
  BY <1>1 DEF Busy
<1>4. end \notin Serving /\ end \notin {"unmounting", "run", "flush", "stop"}
  BY DEF Serving, Ended
<1>5. Engaged'
  BY <1>0, <1>1, <1>2, <1>4 DEF Engaged
<1>6. Ops'
  <2>1. \A c \in Thread : call'[c].pc \in {"look", "decide", "prepare", "command", "write"}
                            => call'[c].op = "mount"
    BY <1>0, <1>1 DEF Ops, NoCall
  <2>2. \A e \in Daemon : pc'[e] = "unmounting" => call'[e].op = "unmount"
    BY <1>0, <1>1, <1>4 DEF Ops, Thread
  <2> QED BY <2>1, <2>2 DEF Ops
<1>7. Owned => Owned'
  BY <1>0, <1>1 DEF Owned, NoCall
<1>8. Orderly => Orderly'
  <2> HAVE Orderly
  <2>1. \A b, c \in Thread : Busy(b)' /\ Busy(c)' => b = c
    BY <1>2 DEF Orderly
  <2>2. \A c \in Thread :
          /\ call'[c].pc \in {"prepare", "command", "unwrite"} => mounts' = <<>>
          /\ call'[c].pc = "decide" /\ ~call'[c].seen => mounts' = <<>>
    BY <1>1 DEF Orderly, NoCall
  <2>3. \A c \in Thread : Busy(c)' => pc'[call'[c].on] # "stop"
    BY <1>0, <1>1, <1>2 DEF Orderly
  <2>4. \A e \in Daemon : pc'[e] \in {"stop", "gone"} => mounts' # <<e>>
    BY <1>1, <1>4 DEF Orderly
  <2> QED BY <2>1, <2>2, <2>3, <2>4 DEF Orderly, history
<1>9. Knows => Knows'
  BY <1>0, <1>1, <1>2, <1>3, <1>4 DEF Knows, Idle
<1> QED BY <1>5, <1>6, <1>7, <1>8, <1>9 DEF VolInv, history

\* A procedure begins.
LEMMA CallKeepsVolume ==
  ASSUME VolInv, OneInv', NEW c \in Thread, NEW d \in Daemon, NEW op \in {"mount", "unmount"},
         ~Busy(c), Calls(c, d, op), UNCHANGED <<mounts, state, raced, stacked>>,
         \/ UNCHANGED pc /\ c \notin Daemon /\ pc[d] = "run"
         \/ c = d /\ op = "mount" /\ pc[d] = "nfs" /\ To(d, "mounting")
         \/ c = d /\ op = "unmount" /\ pc[d] = "flush" /\ To(d, "unmounting")
  PROVE  VolInv'
<1>0. /\ OneInv /\ Engaged /\ Ops
      /\ pc \in [Daemon -> MainPC]
      /\ \A b \in Thread : Busy(b) => call[b].on \in Daemon
      /\ call \in [Thread -> [pc : CallPC, on : {0} \cup Daemon,
                              op : {"none", "mount", "unmount"}, seen : BOOLEAN]]
  BY DEF VolInv, OneInv, TInv, CallsOK
<1>1. /\ \A b \in Thread \ {c} : call'[b] = call[b] /\ (Busy(b)' <=> Busy(b))
      /\ call'[c].on = d /\ call'[c].op = op /\ call'[c].seen = FALSE
      /\ call'[c].pc = IF op = "mount" THEN "look" ELSE "unlook"
      /\ Busy(c)'
  BY <1>0 DEF Calls, Busy
<1>2. /\ \A e \in Daemon \ {d} : pc'[e] = pc[e]
      /\ pc'[d] \in Serving \ {"nfs", "stop"}
      /\ pc'[d] # "run" => pc'[d] \notin {"flush", "gone"} /\ c = d
      /\ pc[d] \notin {"stop", "gone", "unmounting"}
  BY <1>0 DEF To, Serving
<1>3. Engaged'
  BY <1>0, <1>1, <1>2 DEF Engaged, Serving
<1>4. Ops'
  BY <1>0, <1>1, <1>2 DEF Ops, Thread, To
<1>5. Owned => Owned'
  BY <1>1 DEF Owned
<1>6. Orderly /\ ~disturbed' => Orderly'
  <2> HAVE Orderly /\ ~disturbed'
  <2>1. \A b \in Thread \ {c} : ~Busy(b)
    BY DEF Calls
  <2> QED BY <1>0, <1>1, <1>2, <2>1 DEF Orderly, Busy
<1>7. Knows => Knows'
  BY <1>1, <1>2 DEF Knows, Idle
<1>8. disturbed => disturbed'
  BY DEF Calls
<1> QED BY <1>3, <1>4, <1>5, <1>6, <1>7, <1>8 DEF VolInv

\* What a step of a procedure on d, of thread c, may do: go on, from a step that
\* only a mount takes to another one, or to unmounting and back, or return.
LEMMA ProcedureKeepsEngaged ==
  ASSUME VolInv, NEW c \in Thread, Busy(c),
         \/ \E next \in CallPC \ {"idle"}, saw \in BOOLEAN :
              /\ UNCHANGED pc
              /\ call' = [call EXCEPT ![c].pc = next, ![c].seen = saw]
              /\ \/ next \in {"unlook", "uncommand", "unwrite"}
                 \/ call[c].op = "mount"
         \/ Returns(c),
         \A d \in Daemon : state'[d] = "mounted" => state[d] = "mounted" \/ d = call[c].on
  PROVE  Engaged' /\ Ops'
<1>0. /\ Engaged /\ Ops /\ pc \in [Daemon -> MainPC]
      /\ \A b \in Thread : Busy(b) => call[b].on \in Daemon
      /\ \A d \in Daemon : Busy(d) <=> pc[d] \in {"mounting", "unmounting"}
      /\ c \in Daemon => call[c].on = c
      /\ call \in [Thread -> [pc : CallPC, on : {0} \cup Daemon,
                              op : {"none", "mount", "unmount"}, seen : BOOLEAN]]
  BY DEF VolInv, OneInv, TInv, CallsOK, Thread
<1>1. CASE Returns(c)
  <2>1. \A b \in Thread : call'[b] = IF b = c THEN NoCall ELSE call[b]
    BY <1>1, <1>0 DEF Returns
  <2>2. \A d \in Daemon : /\ pc[d] \in Serving \ {"nfs"} => pc'[d] \in Serving \ {"nfs"}
                          /\ pc'[d] = "unmounting" => pc[d] = "unmounting" /\ d # c
    BY <1>1, <1>0 DEF Returns, To, Serving, Thread
  <2>3. Engaged'
    BY <1>0, <2>1, <2>2 DEF Engaged, Busy, NoCall
  <2>4. Ops'
    BY <1>0, <2>1, <2>2 DEF Ops, NoCall, Thread
  <2> QED BY <2>3, <2>4
<1>2. CASE \E next \in CallPC \ {"idle"}, saw \in BOOLEAN :
              /\ UNCHANGED pc
              /\ call' = [call EXCEPT ![c].pc = next, ![c].seen = saw]
              /\ \/ next \in {"unlook", "uncommand", "unwrite"}
                 \/ call[c].op = "mount"
  <2>1. /\ \A b \in Thread \ {c} : call'[b] = call[b]
        /\ call'[c].on = call[c].on /\ call'[c].op = call[c].op
        /\ call'[c].pc \in {"unlook", "uncommand", "unwrite"} \/ call[c].op = "mount"
        /\ UNCHANGED pc
    <3>1. PICK next \in CallPC \ {"idle"}, saw \in BOOLEAN :
            /\ UNCHANGED pc
            /\ call' = [call EXCEPT ![c].pc = next, ![c].seen = saw]
            /\ next \in {"unlook", "uncommand", "unwrite"} \/ call[c].op = "mount"
      BY <1>2
    <3> QED BY <1>0, <3>1
  <2>2. Engaged'
    BY <1>0, <2>1 DEF Engaged, Busy
  <2>3. Ops'
    BY <1>0, <2>1 DEF Ops, Thread
  <2> QED BY <2>2, <2>3
<1> QED BY <1>1, <1>2

LEMMA MountStepKeepsEngaged ==
  ASSUME VolInv, NEW c \in Thread, MountStep(c)
  PROVE  Engaged' /\ Ops'
<1>0. /\ Ops /\ state \in [Daemon -> {"unmounted", "mounting", "mounted", "error"}]
      /\ call \in [Thread -> [pc : CallPC, on : {0} \cup Daemon,
                              op : {"none", "mount", "unmount"}, seen : BOOLEAN]]
  BY DEF VolInv, OneInv, TInv, CallsOK, RestOK
<1>1. Busy(c)
  BY DEF MountStep, Busy, Looks, Decides, UnmountLooks, UnmountCommand, UnmountFails,
         UnmountWrites, Prepares, MountCommand, MountFails, MountWrites
<1>2. \A d \in Daemon : state'[d] = "mounted" => state[d] = "mounted" \/ d = call[c].on
  BY <1>0 DEF MountStep, Looks, Decides, UnmountLooks, UnmountCommand, UnmountFails,
         UnmountWrites, Prepares, MountCommand, MountFails, MountWrites, Sets, Unmounted
<1>3. \/ Returns(c)
      \/ /\ UNCHANGED pc
         /\ \E next \in CallPC \ {"idle"}, saw \in BOOLEAN :
              /\ call' = [call EXCEPT ![c].pc = next, ![c].seen = saw]
              /\ next \in {"unlook", "uncommand", "unwrite"} \/ call[c].op = "mount"
  <2>1. ASSUME NEW next, Goes(c, next)
        PROVE  call' = [call EXCEPT ![c].pc = next, ![c].seen = call[c].seen]
    BY <1>0, <2>1 DEF Goes
  <2>2. call[c].seen \in BOOLEAN /\ Mounted \in BOOLEAN
    BY <1>0 DEF Mounted
  <2>3. call[c].pc \in {"look", "decide", "prepare", "command", "write"} => call[c].op = "mount"
    BY <1>0 DEF Ops
  <2>4. CASE Looks(c)
    BY <2>2, <2>3, <2>4 DEF Looks, CallPC
  <2>5. CASE Unmounted(c) /\ call[c].pc \in {"unlook", "unwrite"}
    BY <2>1, <2>2, <2>5 DEF Unmounted, CallPC
  <2>6. CASE Decides(c) \/ UnmountLooks(c) \/ UnmountCommand(c) \/ UnmountFails(c)
             \/ UnmountWrites(c) \/ Prepares(c) \/ MountCommand(c) \/ MountFails(c)
             \/ MountWrites(c)
    BY <2>1, <2>2, <2>3, <2>5, <2>6, ZenonT(60)
    DEF Decides, UnmountLooks, UnmountCommand, UnmountFails, UnmountWrites, Prepares,
        MountCommand, MountFails, MountWrites, CallPC
  <2> QED BY <2>4, <2>6 DEF MountStep
<1> QED BY <1>1, <1>2, <1>3, ProcedureKeepsEngaged

\* While one daemon serves and volumes are not stacked, what is mounted is the
\* volume of a daemon that has mounted, or nothing.
LEMMA MountStepKeepsOwned ==
  ASSUME VolInv, NEW c \in Thread, MountStep(c), Owned, Alone, ~stacked'
  PROVE  Owned'
<1>0. /\ Engaged /\ pc \in [Daemon -> MainPC] /\ mounts \in Seq({0} \cup Daemon)
      /\ state \in [Daemon -> {"unmounted", "mounting", "mounted", "error"}]
      /\ \A b \in Thread : Busy(b) => call[b].on \in Daemon
      /\ call \in [Thread -> [pc : CallPC, on : {0} \cup Daemon,
                              op : {"none", "mount", "unmount"}, seen : BOOLEAN]]
  BY DEF VolInv, OneInv, TInv, CallsOK, RestOK
<1>1. Busy(c) /\ call[c].on \in Daemon
  BY <1>0 DEF MountStep, Busy, Looks, Decides, UnmountLooks, UnmountCommand, UnmountFails,
         UnmountWrites, Prepares, MountCommand, MountFails, MountWrites
<1>2. \A b \in Thread \ {c} : call'[b] = call[b]
  BY <1>0 DEF MountStep, Looks, Decides, UnmountLooks, UnmountCommand, UnmountFails,
         UnmountWrites, Prepares, MountCommand, MountFails, MountWrites, Goes, Returns,
         Unmounted
<1>3. CASE MountCommand(c)
  <2>1. ~Mounted /\ mounts = <<>>
    BY <1>3 DEF MountCommand, Mounted
  <2>a. mounts' = <<call[c].on>> /\ Len(mounts') <= 1
    BY <1>1, <1>3, <2>1, AppendToNone DEF MountCommand
  <2>2. \A d \in Daemon : state[d] = "mounted" => d = call[c].on
    BY <1>0, <1>1 DEF Engaged, Alone
  <2>3. \A b \in Thread : Busy(b) => call[b].on = call[c].on
    BY <1>0, <1>1 DEF Engaged, Alone
  <2>4. call'[c].on = call[c].on /\ UNCHANGED state
    BY <1>0, <1>3 DEF MountCommand, Goes
  <2>5. \A b \in Thread : call'[b].pc = "write" => call'[b].on = call[c].on
    BY <1>2, <2>3, <2>4 DEF Busy
  <2> QED BY <2>a, <2>2, <2>4, <2>5 DEF Owned
<1>4. CASE UnmountCommand(c)
  <2>1. mounts' = <<>>
    BY <1>0, <1>4, FrontOfOne DEF UnmountCommand, Owned
  <2> QED BY <2>1 DEF Owned
<1>5. CASE ~MountCommand(c) /\ ~UnmountCommand(c)
  <2>1. UNCHANGED mounts
    BY <1>5 DEF MountStep, Looks, Decides, UnmountLooks, UnmountFails, UnmountWrites, Prepares,
           MountFails, MountWrites
  <2>2. call'[c].pc # "write"
    BY <1>0, <1>1, <1>5 DEF MountStep, Looks, Decides, UnmountLooks, UnmountFails, UnmountWrites, Prepares,
           MountFails, MountWrites, Goes, Returns, Unmounted, NoCall, Busy
  <2>3. \A d \in Daemon : state'[d] = "mounted" =>
          state[d] = "mounted" \/ (call[c].pc = "write" /\ d = call[c].on)
    BY <1>0, <1>5 DEF MountStep, Looks, Decides, UnmountLooks, UnmountFails, UnmountWrites, Prepares,
           MountFails, MountWrites, Sets, Unmounted
  <2> QED BY <1>2, <2>1, <2>2, <2>3 DEF Owned
<1> QED BY <1>3, <1>4, <1>5

\* While procedures follow one another, none finds what it has looked for changed.
LEMMA MountStepKeepsOrderly ==
  ASSUME VolInv, NEW c \in Thread, MountStep(c), Orderly, ~disturbed'
  PROVE  Orderly'
<1>0. /\ Engaged /\ Ops /\ pc \in [Daemon -> MainPC] /\ mounts \in Seq({0} \cup Daemon)
      /\ \A b \in Thread : Busy(b) => /\ call[b].on \in Daemon
                                      /\ b \in Daemon => call[b].on = b
      /\ \A d \in Daemon : Busy(d) <=> pc[d] \in {"mounting", "unmounting"}
      /\ call \in [Thread -> [pc : CallPC, on : {0} \cup Daemon,
                              op : {"none", "mount", "unmount"}, seen : BOOLEAN]]
  BY DEF VolInv, OneInv, TInv, CallsOK, RestOK
<1>1. Busy(c) /\ call[c].on \in Daemon /\ pc[call[c].on] \notin {"stop", "gone"}
  BY <1>0 DEF MountStep, Busy, Looks, Decides, UnmountLooks, UnmountCommand, UnmountFails,
         UnmountWrites, Prepares, MountCommand, MountFails, MountWrites, Engaged, Serving, Orderly
<1>2. \A b \in Thread \ {c} : ~Busy(b) /\ call[b].pc = "idle"
  BY <1>1 DEF Orderly, Busy
<1>3. \A b \in Thread \ {c} : call'[b] = call[b]
  BY <1>0 DEF MountStep, Looks, Decides, UnmountLooks, UnmountCommand, UnmountFails,
         UnmountWrites, Prepares, MountCommand, MountFails, MountWrites, Goes, Returns,
         Unmounted
<1>4. \A b \in Thread \ {c} : ~Busy(b)' /\ call'[b].pc = "idle"
  BY <1>2, <1>3 DEF Busy
<1>5. CASE Returns(c) /\ UNCHANGED <<mounts, stacked>> /\ (call[c].op # "mount" => mounts = <<>>)
  <2>1. call'[c] = NoCall /\ ~Busy(c)'
    BY <1>0, <1>5 DEF Returns, Busy, NoCall
  <2>2. \A d \in Daemon : pc'[d] \in {"stop", "gone"} =>
          pc[d] \in {"stop", "gone"} \/ call[c].op # "mount"
    BY <1>0, <1>1, <1>5 DEF Returns, To, Ops, Thread
  <2>3. \A d \in Daemon : <<>> # <<d>>
    OBVIOUS
  <2>4. \A d \in Daemon : pc'[d] \in {"stop", "gone"} => mounts' # <<d>>
    BY <1>5, <2>2, <2>3 DEF Orderly
  <2> QED BY <1>4, <1>5, <2>1, <2>4 DEF Orderly, NoCall
<1>6. CASE /\ UNCHANGED pc /\ call'[c].on = call[c].on
           /\ ~stacked' /\ Len(mounts') <= 1
           /\ call'[c].pc \in {"prepare", "command", "unwrite"} => mounts' = <<>>
           /\ call'[c].pc = "decide" /\ ~call'[c].seen => mounts' = <<>>
           /\ mounts' \in {mounts, <<>>, <<call[c].on>>}
  <2>1. \A d \in Daemon : pc[d] \in {"stop", "gone"} => mounts' # <<d>>
    BY <1>1, <1>6, SMTT(30) DEF Orderly
  <2>2. \A b \in Thread : Busy(b)' => b = c
    BY <1>4
  <2> QED BY <1>1, <1>4, <1>6, <2>1, <2>2 DEF Orderly
<1>7. call[c].pc \in {"look", "decide", "prepare", "command", "write"} => call[c].op = "mount"
  BY <1>0 DEF Ops
<1>a. ASSUME NEW seen, Finds(seen) PROVE seen = Mounted
  BY <1>a DEF Finds
<1>8. CASE Looks(c)
  <2>1. call' = [call EXCEPT ![c].pc = "decide", ![c].seen = Mounted]
    BY <1>8, <1>a DEF Looks
  <2> QED BY <1>0, <1>6, <1>8, <2>1 DEF Looks, Mounted, Orderly
<1>9. CASE Decides(c)
  BY <1>0, <1>5, <1>6, <1>7, <1>9 DEF Decides, Goes, Orderly
<1>10. CASE UnmountLooks(c)
  <2>1. IF Mounted THEN Goes(c, "uncommand") /\ UNCHANGED <<pc, state>> ELSE Unmounted(c)
    BY <1>10, <1>a DEF UnmountLooks
  <2> QED
    BY <1>0, <1>5, <1>6, <1>10, <2>1 DEF UnmountLooks, Unmounted, Goes, Orderly, Mounted
<1>11. CASE UnmountCommand(c)
  <2>1. mounts' = <<>> /\ Len(mounts') <= 1
    BY <1>0, <1>11, FrontOfOne DEF UnmountCommand, Orderly
  <2> QED BY <1>0, <1>6, <1>11, <2>1 DEF UnmountCommand, Goes, Orderly
<1>12. CASE UnmountWrites(c)
  BY <1>0, <1>5, <1>6, <1>12 DEF UnmountWrites, Unmounted, Goes, Orderly
<1>13. CASE Prepares(c)
  BY <1>0, <1>6, <1>13 DEF Prepares, Goes, Orderly
<1>14. CASE MountCommand(c)
  <2>1. mounts = <<>> /\ mounts' = <<call[c].on>> /\ Len(mounts') <= 1
    BY <1>1, <1>14, AppendToNone DEF MountCommand, Orderly
  <2>2. ~stacked'
    BY <1>14, <2>1 DEF MountCommand, Orderly, Mounted
  <2> QED BY <1>0, <1>6, <1>14, <2>1, <2>2 DEF MountCommand, Goes
<1>15. CASE MountWrites(c)
  BY <1>5, <1>7, <1>15 DEF MountWrites
<1>16. CASE UnmountFails(c) \/ MountFails(c)
  BY <1>16 DEF UnmountFails, MountFails
<1> QED
  BY <1>8, <1>9, <1>10, <1>11, <1>12, <1>13, <1>14, <1>15, <1>16 DEF MountStep

\* A daemon that is left by a procedure knows whether its volume is mounted.
LEMMA MountStepKeepsKnows ==
  ASSUME VolInv, NEW c \in Thread, MountStep(c), Orderly, Alone, Knows, ~disturbed'
  PROVE  Knows'
<1>0. /\ Engaged /\ Ops /\ pc \in [Daemon -> MainPC] /\ mounts \in Seq({0} \cup Daemon)
      /\ state \in [Daemon -> {"unmounted", "mounting", "mounted", "error"}]
      /\ \A b \in Thread : Busy(b) => /\ call[b].on \in Daemon
                                      /\ b \in Daemon => call[b].on = b
      /\ \A d \in Daemon : Busy(d) <=> pc[d] \in {"mounting", "unmounting"}
      /\ call \in [Thread -> [pc : CallPC, on : {0} \cup Daemon,
                              op : {"none", "mount", "unmount"}, seen : BOOLEAN]]
  BY DEF VolInv, OneInv, TInv, CallsOK, RestOK
<1>1. Busy(c) /\ call[c].on \in Daemon /\ pc[call[c].on] \in Serving
  BY <1>0 DEF MountStep, Busy, Looks, Decides, UnmountLooks, UnmountCommand, UnmountFails,
         UnmountWrites, Prepares, MountCommand, MountFails, MountWrites, Engaged
<1>2. \A d \in Daemon : pc[d] \in Serving => d = call[c].on
  BY <1>1 DEF Alone
<1>3. \A d \in Daemon : pc'[d] \in {"run", "flush"} => pc[d] \in Serving
  <2>1. UNCHANGED pc \/ Returns(c)
    BY DEF MountStep, Looks, Decides, UnmountLooks, UnmountCommand, UnmountFails,
         UnmountWrites, Prepares, MountCommand, MountFails, MountWrites, Unmounted
  <2> QED BY <1>0, <1>1, <2>1 DEF Returns, To, Serving, Thread
<1>4. CASE Busy(c)' /\ call'[c].on = call[c].on
  BY <1>2, <1>3, <1>4 DEF Knows, Idle
<1>5. CASE mounts' = <<>> \/ state'[call[c].on] = "mounted"
  BY <1>2, <1>3, <1>5 DEF Knows
<1>6. ASSUME NEW next \in CallPC \ {"idle"}, Goes(c, next)
      PROVE  Busy(c)' /\ call'[c].on = call[c].on
  BY <1>0, <1>6 DEF Goes, Busy
<1>7. CASE Looks(c) \/ UnmountCommand(c) \/ Prepares(c) \/ MountCommand(c)
  BY <1>0, <1>4, <1>6, <1>7 DEF Looks, UnmountCommand, Prepares, MountCommand, Busy, CallPC
<1>8. CASE Decides(c)
  BY <1>4, <1>5, <1>6, <1>8 DEF Decides, CanReuse, CallPC
<1>a. CASE UnmountLooks(c)
  <2>1. IF Mounted THEN Goes(c, "uncommand") ELSE Unmounted(c)
    BY <1>a DEF UnmountLooks, Finds
  <2> QED
    BY <1>4, <1>5, <1>6, <1>a, <2>1 DEF UnmountLooks, Unmounted, CallPC, Mounted
<1>9. CASE UnmountWrites(c)
  BY <1>4, <1>5, <1>6, <1>9 DEF UnmountWrites, Unmounted, CallPC, Orderly
<1>10. CASE MountWrites(c)
  BY <1>0, <1>1, <1>5, <1>10 DEF MountWrites, Sets
<1>11. CASE UnmountFails(c) \/ MountFails(c)
  BY <1>11 DEF UnmountFails, MountFails
<1> QED
  BY <1>7, <1>8, <1>9, <1>a, <1>10, <1>11 DEF MountStep

LEMMA MountStepKeepsVolInv ==
  ASSUME VolInv, NEW c \in Thread, MountStep(c)
  PROVE  VolInv'
<1>1. OneInv' /\ Engaged' /\ Ops'
  BY MountStepKeepsAlone, MountStepKeepsEngaged DEF VolInv
<1>2. /\ UNCHANGED raced
      /\ stacked => stacked'
      /\ disturbed => disturbed'
  <2>1. CASE MountCommand(c)
    BY <2>1, Zenon DEF MountCommand
  <2>a. CASE Looks(c) \/ UnmountLooks(c)
    BY <2>a DEF Looks, UnmountLooks, Finds
  <2>2. CASE UnmountFails(c) \/ MountFails(c)
    <3>1. UNCHANGED <<raced, stacked>> /\ disturbed' = TRUE
      BY <2>2, Zenon DEF UnmountFails, MountFails
    <3> QED BY <3>1
  <2>3. CASE \/ Decides(c) \/ UnmountCommand(c) \/ UnmountWrites(c) \/ Prepares(c)
             \/ MountWrites(c)
    BY <2>3 DEF Decides, UnmountCommand, UnmountWrites, Prepares, MountWrites
  <2> QED BY <2>1, <2>a, <2>2, <2>3 DEF MountStep
<1>3. raced \/ Alone
  BY DEF VolInv, OneInv
<1> QED
  BY <1>1, <1>2, <1>3, MountStepKeepsOwned, MountStepKeepsOrderly, MountStepKeepsKnows
  DEF VolInv

LEMMA NextKeepsVolInv == VolInv /\ [Next]_vars => VolInv'
<1> SUFFICES ASSUME VolInv, [Next]_vars PROVE VolInv'
  OBVIOUS
<1>0. /\ OneInv' /\ Engaged /\ Ops /\ mounts \in Seq({0} \cup Daemon)
      /\ \A d \in Daemon : Busy(d) <=> pc[d] \in {"mounting", "unmounting"}
  BY NextKeepsOneInv DEF VolInv, OneInv, TInv, CallsOK, RestOK
<1>q. ASSUME UNCHANGED <<pc, mounts, state, call, history>> PROVE VolInv'
  BY <1>0, <1>q DEF VolInv, Engaged, Ops, Owned, Orderly, Knows, Idle, Busy
<1>1. ASSUME NEW d \in Daemon,
             \/ Start(d) \/ LooksForSocket(d) \/ HearsNothing(d) \/ Unlinks(d)
             \/ BindsSocket(d) \/ ServerFails(d) \/ LeavesLoop(d)
      PROVE  VolInv'
  <2>1. Apart /\ (raced => raced')
    <3>1. CASE Start(d)
      BY <3>1, Zenon DEF Apart, Start
    <3>2. CASE ~Start(d)
      BY <1>1, <3>2 DEF Apart, LooksForSocket, HearsNothing, Unlinks, BindsSocket,
         ServerFails, LeavesLoop
    <3> QED BY <3>1, <3>2
  <2>2. PICK next \in MainPC :
          /\ To(d, next)
          /\ \/ /\ pc[d] \in Starting \cup {"unborn", "nfs"}
                /\ next \in Starting \cup {"nfs", "failed"}
             \/ pc[d] = "run" /\ next = "flush"
    BY <1>1 DEF Start, LooksForSocket, HearsNothing, Unlinks, BindsSocket, Binds,
       ServerFails, LeavesLoop, MainPC, Starting, Serving, Ended
  <2> QED BY <1>0, <2>1, <2>2, MoveKeepsVolume
<1>2. ASSUME NEW d \in Daemon, Connects(d) PROVE VolInv'
  <2>1. CASE UNCHANGED pc
    BY <1>q, <1>2, <2>1 DEF Connects
  <2>2. CASE To(d, "unlink")
    <3>1. Apart /\ UNCHANGED raced /\ pc[d] \in Starting /\ "unlink" \in Starting \cap MainPC
      BY <1>2 DEF Apart, Connects, Starting, MainPC
    <3> QED BY <1>0, <2>2, <3>1, MoveKeepsVolume
  <2> QED BY <1>2, <2>1, <2>2 DEF Connects
<1>3. ASSUME NEW d \in Daemon, HearsPong(d) \/ Exits(d) \/ LoopFails(d) \/ Crashes(d)
      PROVE  VolInv'
  <2>1. PICK end \in Ended : /\ TasksEnd(d, end) /\ UNCHANGED <<mounts, history>>
                             /\ end = "gone" => pc[d] = "stop"
    BY <1>3 DEF HearsPong, Exits, LoopFails, Crashes, Ends, Ended
  <2> QED BY <1>0, <2>1, EndKeepsVolume
<1>4. ASSUME NEW d \in Daemon, MountsAtStart(d) PROVE VolInv'
  <2>1. ~Busy(d) /\ d \in Thread
    BY <1>0, <1>4 DEF MountsAtStart, Thread
  <2> QED BY <1>0, <1>4, <2>1, CallKeepsVolume DEF MountsAtStart
<1>5. ASSUME NEW d \in Daemon, UnmountsAtEnd(d) PROVE VolInv'
  <2>1. ~Busy(d) /\ d \in Thread
    BY <1>0, <1>5 DEF UnmountsAtEnd, Thread
  <2> QED BY <1>0, <1>5, <2>1, CallKeepsVolume DEF UnmountsAtEnd
<1>6. ASSUME NEW c \in Client, NEW d \in Daemon, NEW op \in {"mount", "unmount"},
             Requests(c, d, op)
      PROVE  VolInv'
  <2>1. c \notin Daemon /\ c \in Thread
    BY ClientAssumption DEF Daemon, Thread
  <2> QED BY <1>0, <1>6, <2>1, CallKeepsVolume DEF Requests, Reaches
<1>7. ASSUME NEW d \in Daemon, \/ Shutdown(d) \/ FlushesNext(d)
                                \/ \E i \in StagedFile : Written(d, i) \/ Saved(d, i)
      PROVE  VolInv'
  BY <1>q, <1>7 DEF Shutdown, FlushesNext, Written, Saved
<1>8. CASE Eject
  <2>1. Owned => mounts' = <<>> /\ Len(mounts') <= 1
    BY <1>0, <1>8, FrontOfOne DEF Eject, Owned
  <2>2. Orderly => mounts' = <<>> /\ Len(mounts') <= 1
    BY <1>0, <1>8, FrontOfOne DEF Eject, Orderly
  <2>3. UNCHANGED <<pc, state, call, history>>
    BY <1>8 DEF Eject
  <2>4. \A c \in Thread : Busy(c)' <=> Busy(c)
    BY <2>3 DEF Busy
  <2>5. Engaged' /\ Ops'
    BY <1>0, <2>3, <2>4 DEF Engaged, Ops
  <2>6. Owned => Owned'
    BY <2>1, <2>3 DEF Owned
  <2>7. Orderly => Orderly'
    BY <2>2, <2>3, <2>4 DEF Orderly
  <2>8. Orderly => Knows'
    BY <2>2 DEF Knows
  <2> QED BY <1>0, <2>3, <2>5, <2>6, <2>7, <2>8 DEF VolInv
<1>9. CASE UNCHANGED vars
  BY <1>q, <1>9 DEF vars
<1> QED
  BY <1>1, <1>2, <1>3, <1>4, <1>5, <1>6, <1>7, <1>8, <1>9, MountStepKeepsVolInv
  DEF Next, MainStep

LEMMA VolInvAlways == Spec => []VolInv
  BY InitVolInv, NextKeepsVolInv, PTL DEF Spec

\* While procedures on mounts neither overlap nor fail: what is mounted, when nothing
\* changes it, is the serving daemon's volume and known to it, and a daemon that has
\* exited has left none of its own.
THEOREM VolumeKnownAlways == Spec => []VolumeKnown
<1>1. VolInv => VolumeKnown
  <2> SUFFICES ASSUME VolInv, ~disturbed, NEW d \in Daemon
               PROVE  /\ pc[d] = "run" /\ (\A c \in Thread : ~Busy(c)) /\ ~raced
                         => /\ mounts \in {<<>>, <<d>>}
                            /\ Mounted => state[d] = "mounted"
                      /\ pc[d] = "gone" => \A k \in DOMAIN mounts : mounts[k] # d
    BY DEF VolumeKnown
  <2>1. Orderly /\ mounts \in Seq({0} \cup Daemon)
    BY DEF VolInv, OneInv, TInv, RestOK
  <2>2. ASSUME pc[d] = "run", \A c \in Thread : ~Busy(c), ~raced
        PROVE  mounts \in {<<>>, <<d>>} /\ (Mounted => state[d] = "mounted")
    <3>1. Owned /\ Knows /\ Idle(d)
      BY <2>1, <2>2 DEF VolInv, Orderly, Idle
    <3> QED BY <2>2, <3>1 DEF Owned, Knows, Mounted
  <2>3. ASSUME pc[d] = "gone", NEW k \in DOMAIN mounts PROVE mounts[k] # d
    <3>1. mounts # <<d>> /\ Len(mounts) <= 1
      BY <2>1, <2>3 DEF Orderly
    <3>a. Len(mounts) \in Nat /\ DOMAIN mounts = 1 .. Len(mounts)
      BY <2>1
    <3>2. Len(mounts) = 1 /\ k = 1
      BY <2>3, <3>1, <3>a
    <3>3. mounts = <<mounts[1]>>
      BY <2>1, <3>2
    <3> QED BY <3>1, <3>2, <3>3
  <2> QED BY <2>2, <2>3
<1> QED BY <1>1, VolInvAlways, PTL

\* A mount that is answered without mounting has found the daemon's own volume, or
\* one that was ejected since, however calls overlap and fail.
THEOREM ReusesOwnAlways == Spec => ReusesOwn
<1>1. VolInv => [\A c \in Thread : Decides(c) /\ CanReuse(c) /\ ~raced /\ ~stacked
                   => mounts \in {<<>>, <<call[c].on>>}]_vars
  <2> SUFFICES ASSUME VolInv, NEW c \in Thread, Decides(c), CanReuse(c), ~raced, ~stacked
               PROVE  mounts \in {<<>>, <<call[c].on>>}
    OBVIOUS
  <2>1. Owned /\ call[c].on \in Daemon
    BY DEF VolInv, OneInv, TInv, CallsOK, Busy, Decides
  <2> QED BY <2>1 DEF Owned, CanReuse
<1> QED BY <1>1, VolInvAlways, PTL DEF ReusesOwn
====
