----------------------------- MODULE ChannelProofs ----------------------------
(* Proofs about the registration of channels, for any number of channels and *)
(* descriptors and any assignment of descriptors to channels.                *)
EXTENDS Channel, TLAPS

LEMMA CtlTypes ==
    ASSUME TypeOK, NEW c \in Chan, NEW ev \in SUBSET Event,
           CtlAdd(c, ev) \/ CtlMod(c, ev) \/ CtlDel(c)
    PROVE  /\ watched' \in [Fd -> Chan \cup {NoChan}]
           /\ interest' \in [Fd -> SUBSET Event]
           /\ ctlFailed' \in BOOLEAN
BY DEF TypeOK, CtlAdd, CtlMod, CtlDel

LEMMA DestroyTypes ==
    ASSUME TypeOK, NEW c \in Chan, DestroyTimer(c),
           UNCHANGED <<phase, batch, handling, doomed>>
    PROVE  TypeOK'
<1>1. /\ watched' \in [Fd -> Chan \cup {NoChan}]
      /\ interest' \in [Fd -> SUBSET Event]
      /\ ctlFailed' \in BOOLEAN
  BY CtlTypes DEF DestroyTimer
<1> QED
  BY <1>1 DEF TypeOK, DestroyTimer

\* Every variable has its type in every reachable state.
THEOREM TypeCorrect == Spec => []TypeOK
<1> USE DEF TypeOK, Event
<1>1. Init => TypeOK
  BY DEF Init
<1>2. TypeOK /\ [Next]_vars => TypeOK'
  <2> SUFFICES ASSUME TypeOK, [Next]_vars PROVE TypeOK'
    OBVIOUS
  <2> USE ChannelAssumption DEF ChannelAssumption, regVars, loopVars
  <2>1. CASE Poll
    BY <2>1 DEF Poll
  <2>2. CASE PollTimeout
    BY <2>2 DEF PollTimeout, vars
  <2>3. CASE HandlerReturns
    <3>1. CASE doomed
      <4>1. DestroyTimer(handling)
        BY <2>3, <3>1 DEF HandlerReturns
      <4>2. /\ watched' \in [Fd -> Chan \cup {NoChan}]
            /\ interest' \in [Fd -> SUBSET Event]
            /\ ctlFailed' \in BOOLEAN
        BY <4>1 DEF DestroyTimer, CtlDel
      <4>3. /\ channels' \in [Fd -> Chan \cup {NoChan}]
            /\ state' \in [Chan -> {"NEW", "ADD", "DELETE"}]
        BY <4>1 DEF DestroyTimer
      <4>4. /\ events' \in [Chan -> SUBSET Event]
            /\ alive' \in [Chan -> BOOLEAN]
        BY <4>1 DEF DestroyTimer
      <4> QED
        BY <2>3, <4>2, <4>3, <4>4 DEF HandlerReturns
    <3>2. CASE ~doomed
      BY <2>3, <3>2 DEF HandlerReturns
    <3> QED
      BY <3>1, <3>2
  <2>4. CASE BeginTasks \/ EndTasks
    BY <2>4 DEF BeginTasks, EndTasks
  <2>5. ASSUME NEW c \in Chan, HandleEvents(c) PROVE TypeOK'
    BY <2>5 DEF HandleEvents
  <2>6. ASSUME NEW c \in Chan, Remove(c) PROVE TypeOK'
    BY <2>6 DEF Remove, RemoveChannel, CtlDel
  <2>7. ASSUME NEW c \in Chan, Delete(c) PROVE TypeOK'
    BY <2>7 DEF Delete
  <2>8. ASSUME NEW c \in Chan, Cancel(c) PROVE TypeOK'
    <3>1. CASE handling = c
      BY <2>8, <3>1 DEF Cancel
    <3>2. CASE handling # c
      BY <2>8, <3>2, DestroyTypes DEF Cancel
    <3> QED
      BY <3>1, <3>2
  <2>9. ASSUME NEW c \in Chan, NEW ev \in SUBSET Event, UpdateChannel(c, ev),
               UNCHANGED <<loopVars, alive, doomed>>
        PROVE  TypeOK'
    <3>1. /\ watched' \in [Fd -> Chan \cup {NoChan}]
          /\ interest' \in [Fd -> SUBSET Event]
          /\ ctlFailed' \in BOOLEAN
      BY <2>9, CtlTypes DEF UpdateChannel, UpdateAdds, UpdateModifies, UpdateDeletes
    <3>2. /\ channels' \in [Fd -> Chan \cup {NoChan}]
          /\ state' \in [Chan -> {"NEW", "ADD", "DELETE"}]
      BY <2>9 DEF UpdateChannel, UpdateAdds, UpdateModifies, UpdateDeletes
    <3>3. events' \in [Chan -> SUBSET Event]
      BY <2>9 DEF UpdateChannel
    <3> QED
      BY <2>9, <3>1, <3>2, <3>3
  <2>10. ASSUME NEW c \in Chan, NEW e \in Event, Enable(c, e) PROVE TypeOK'
    BY <2>9, <2>10 DEF Enable
  <2>11. ASSUME NEW c \in Chan, NEW es \in {{"in"}, {"out"}, Event}, Disable(c, es)
         PROVE  TypeOK'
    BY <2>9, <2>11 DEF Disable
  <2>12. CASE UNCHANGED vars
    BY <2>12 DEF vars
  <2> QED
    BY <2>1, <2>2, <2>3, <2>4, <2>5, <2>6, <2>7, <2>8, <2>10, <2>11, <2>12 DEF Next
<1> QED
  BY <1>1, <1>2, PTL DEF Spec
-------------------------------------------------------------------------------
(***************************************************************************)
(* Registration is the inductive form of StateMatchesMap and               *)
(* StateMatchesEpoll: the map and epoll hold a channel only under its own  *)
(* descriptor, and no epoll_ctl has failed.                                *)
(***************************************************************************)
Registration ==
    /\ \A f \in Fd : channels[f] # NoChan => FdOf[channels[f]] = f
    /\ \A f \in Fd : watched[f] # NoChan => FdOf[watched[f]] = f
    /\ StateMatchesMap
    /\ StateMatchesEpoll
    /\ CtlNeverFails

\* A registered channel is allocated, and the timer that only its guard keeps
\* alive is registered still.
Allocation ==
    /\ \A c \in Chan : state[c] # "NEW" => alive[c]
    /\ doomed => handling \in Timers /\ state[handling] = "ADD"
    /\ handling # NoChan => phase = "handler"

\* The fd of a channel that is not in state ADD is free in epoll.
LEMMA FdFree ==
    ASSUME TypeOK, Registration, NEW c \in Chan, state[c] # "ADD", OwnsFd(c)
    PROVE  watched[FdOf[c]] = NoChan
<1> DEFINE f == FdOf[c]
           d == watched[f]
<1> SUFFICES ASSUME d # NoChan PROVE FALSE
  OBVIOUS
<1>1. f \in Fd /\ d \in Chan
  BY ChannelAssumption DEF ChannelAssumption, TypeOK
<1>2. FdOf[d] = f
  BY <1>1 DEF Registration
<1>3. state[d] = "ADD"
  BY <1>1, <1>2 DEF Registration, StateMatchesEpoll
<1>4. channels[f] = d
  BY <1>1, <1>2, <1>3 DEF Registration, StateMatchesMap
<1>5. d # c
  BY <1>3
<1>6. state[c] = "NEW"
  BY <1>1, <1>4, <1>5 DEF Registration, StateMatchesMap
<1> QED
  BY <1>1, <1>4, <1>6 DEF OwnsFd

\* The channels of other descriptors are not concerned; a channel of the same
\* descriptor is not registered while c may be.
LEMMA UpdateKeepsRegistration ==
    ASSUME TypeOK, Registration, NEW c \in Chan, NEW ev \in SUBSET Event,
           OwnsFd(c), UpdateChannel(c, ev)
    PROVE  Registration'
<1> USE ChannelAssumption DEF ChannelAssumption, TypeOK
<1>1. CASE UpdateAdds(c, ev)
  <2>1. watched[FdOf[c]] = NoChan
    BY <1>1, FdFree DEF UpdateAdds
  <2>2. channels[FdOf[c]] \in {c, NoChan}
    BY <1>1 DEF UpdateAdds, OwnsFd, Registration, StateMatchesMap
  <2>3. /\ watched' = [watched EXCEPT ![FdOf[c]] = c]
        /\ interest' = [interest EXCEPT ![FdOf[c]] = ev]
        /\ ctlFailed' = ctlFailed
    BY <1>1, <2>1 DEF UpdateAdds, CtlAdd
  <2>4. /\ channels' = [channels EXCEPT ![FdOf[c]] = c]
        /\ state' = [state EXCEPT ![c] = "ADD"]
        /\ events' = [events EXCEPT ![c] = ev]
    BY <1>1 DEF UpdateAdds, UpdateChannel
  <2>5. StateMatchesMap'
    BY <2>2, <2>4 DEF Registration, StateMatchesMap
  <2>6. StateMatchesEpoll'
    BY <2>1, <2>3, <2>4 DEF Registration, StateMatchesEpoll
  <2> QED
    BY <2>3, <2>4, <2>5, <2>6 DEF Registration, CtlNeverFails
<1>2. CASE UpdateModifies(c, ev)
  <2>1. watched[FdOf[c]] = c
    BY <1>2 DEF UpdateModifies, Registration, StateMatchesEpoll
  <2>2. /\ watched' = [watched EXCEPT ![FdOf[c]] = c]
        /\ interest' = [interest EXCEPT ![FdOf[c]] = ev]
        /\ ctlFailed' = ctlFailed
        /\ events' = [events EXCEPT ![c] = ev]
        /\ state' = state /\ channels' = channels
    BY <1>2, <2>1 DEF UpdateModifies, UpdateChannel, CtlMod
  <2>3. StateMatchesEpoll'
    BY <2>1, <2>2 DEF Registration, StateMatchesEpoll
  <2> QED
    BY <2>2, <2>3 DEF Registration, CtlNeverFails, StateMatchesMap
<1>3. CASE UpdateDeletes(c, ev)
  <2>1. watched[FdOf[c]] = c
    BY <1>3 DEF UpdateDeletes, Registration, StateMatchesEpoll
  <2>2. /\ watched' = [watched EXCEPT ![FdOf[c]] = NoChan]
        /\ interest' = [interest EXCEPT ![FdOf[c]] = {}]
        /\ ctlFailed' = ctlFailed
        /\ events' = [events EXCEPT ![c] = ev]
        /\ state' = [state EXCEPT ![c] = "DELETE"] /\ channels' = channels
    BY <1>3, <2>1 DEF UpdateDeletes, UpdateChannel, CtlDel
  <2>3. StateMatchesEpoll'
    BY <2>1, <2>2 DEF Registration, StateMatchesEpoll
  <2>4. StateMatchesMap'
    BY <1>3, <2>2 DEF Registration, StateMatchesMap, UpdateDeletes
  <2> QED
    BY <2>2, <2>3, <2>4 DEF Registration, CtlNeverFails
<1> QED
  BY <1>1, <1>2, <1>3 DEF UpdateChannel

LEMMA RemoveKeepsRegistration ==
    ASSUME TypeOK, Registration, NEW c \in Chan, channels[FdOf[c]] = c,
           RemoveChannel(c), events' \in [Chan -> SUBSET Event],
           \A d \in Chan \ {c} : events'[d] = events[d]
    PROVE  Registration'
<1> USE ChannelAssumption DEF ChannelAssumption, TypeOK
<1>1. /\ channels' = [channels EXCEPT ![FdOf[c]] = NoChan]
      /\ state' = [state EXCEPT ![c] = "NEW"]
  BY DEF RemoveChannel
<1>2. StateMatchesMap'
  BY <1>1 DEF Registration, StateMatchesMap
<1>3. CASE state[c] = "ADD"
  <2>1. watched[FdOf[c]] = c
    BY <1>3 DEF Registration, StateMatchesEpoll
  <2>2. /\ watched' = [watched EXCEPT ![FdOf[c]] = NoChan]
        /\ interest' = [interest EXCEPT ![FdOf[c]] = {}]
        /\ ctlFailed' = ctlFailed
    BY <1>3, <2>1 DEF RemoveChannel, CtlDel
  <2>3. StateMatchesEpoll'
    BY <1>1, <2>1, <2>2 DEF Registration, StateMatchesEpoll
  <2> QED
    BY <1>1, <1>2, <2>2, <2>3 DEF Registration, CtlNeverFails
<1>4. CASE state[c] # "ADD"
  <2>1. UNCHANGED <<watched, interest, ctlFailed>>
    BY <1>4 DEF RemoveChannel
  <2>2. StateMatchesEpoll'
    BY <1>1, <1>4, <2>1 DEF Registration, StateMatchesEpoll
  <2> QED
    BY <1>1, <1>2, <2>1, <2>2 DEF Registration, CtlNeverFails
<1> QED
  BY <1>3, <1>4

LEMMA DestroyKeepsRegistration ==
    ASSUME TypeOK, Registration, NEW c \in Chan, state[c] = "ADD", DestroyTimer(c)
    PROVE  Registration'
<1>1. channels[FdOf[c]] = c
  BY DEF Registration, StateMatchesMap
<1>2. RemoveChannel(c)
  BY DEF DestroyTimer, RemoveChannel
<1>3. /\ events' \in [Chan -> SUBSET Event]
      /\ \A d \in Chan \ {c} : events'[d] = events[d]
  BY DEF DestroyTimer, TypeOK
<1> QED
  BY <1>1, <1>2, <1>3, RemoveKeepsRegistration

LEMMA UntouchedRegistration ==
    ASSUME Registration, UNCHANGED regVars
    PROVE  Registration'
BY DEF regVars, Registration, StateMatchesMap, StateMatchesEpoll, CtlNeverFails

LEMMA RegistrationStep ==
    ASSUME TypeOK, Registration, Allocation, [Next]_vars
    PROVE  Registration'
<1>1. CASE Poll \/ PollTimeout \/ BeginTasks \/ EndTasks
  BY <1>1, UntouchedRegistration
     DEF Poll, PollTimeout, BeginTasks, EndTasks, vars, regVars
<1>2. CASE HandlerReturns
  <2>1. CASE doomed
    BY <1>2, <2>1, DestroyKeepsRegistration, ChannelAssumption
       DEF HandlerReturns, Allocation, ChannelAssumption
  <2>2. CASE ~doomed
    BY <1>2, <2>2, UntouchedRegistration DEF HandlerReturns, regVars
  <2> QED
    BY <2>1, <2>2
<1>3. ASSUME NEW c \in Chan, HandleEvents(c) \/ Delete(c) PROVE Registration'
  BY <1>3, UntouchedRegistration DEF HandleEvents, Delete, regVars
<1>4. ASSUME NEW c \in Chan, Remove(c) PROVE Registration'
  BY <1>4, RemoveKeepsRegistration DEF Remove, TypeOK
<1>5. ASSUME NEW c \in Chan, Cancel(c) PROVE Registration'
  <2>1. CASE handling = c
    BY <1>5, <2>1, UntouchedRegistration DEF Cancel, regVars
  <2>2. CASE handling # c
    BY <1>5, <2>2, DestroyKeepsRegistration DEF Cancel
  <2> QED
    BY <2>1, <2>2
<1>6. ASSUME NEW c \in Chan, NEW e \in Event, Enable(c, e) PROVE Registration'
  <2>1. events[c] \cup {e} \in SUBSET Event
    BY DEF TypeOK
  <2> QED
    BY <1>6, <2>1, UpdateKeepsRegistration DEF Enable, Usable
<1>7. ASSUME NEW c \in Chan, NEW es \in {{"in"}, {"out"}, Event}, Disable(c, es)
      PROVE  Registration'
  <2>1. events[c] \ es \in SUBSET Event
    BY DEF TypeOK
  <2> QED
    BY <1>7, <2>1, UpdateKeepsRegistration DEF Disable, Usable
<1>8. CASE UNCHANGED vars
  BY <1>8, UntouchedRegistration DEF vars, regVars
<1> QED
  BY <1>1, <1>2, <1>3, <1>4, <1>5, <1>6, <1>7, <1>8 DEF Next

LEMMA AllocationStep ==
    ASSUME TypeOK, Registration, Allocation, [Next]_vars
    PROVE  Allocation'
<1> USE ChannelAssumption DEF ChannelAssumption, TypeOK, Allocation
<1>1. CASE Poll \/ PollTimeout \/ BeginTasks \/ EndTasks
  <2>1. phase # "handler" \/ UNCHANGED phase
    BY <1>1 DEF Poll, PollTimeout, BeginTasks, EndTasks, vars, loopVars
  <2>2. UNCHANGED <<state, alive, handling, doomed>>
    BY <1>1 DEF Poll, PollTimeout, BeginTasks, EndTasks, vars, regVars, loopVars
  <2> QED
    BY <2>1, <2>2
<1>2. CASE HandlerReturns
  <2>1. handling' = NoChan /\ doomed' = FALSE
    BY <1>2 DEF HandlerReturns
  <2>2. CASE doomed
    BY <1>2, <2>1, <2>2 DEF HandlerReturns, DestroyTimer
  <2>3. CASE ~doomed
    BY <1>2, <2>1, <2>3 DEF HandlerReturns, regVars
  <2> QED
    BY <2>2, <2>3
<1>3. ASSUME NEW c \in Chan, HandleEvents(c) PROVE Allocation'
  <2>1. ~doomed
    BY <1>3 DEF HandleEvents
  <2> QED
    BY <1>3, <2>1 DEF HandleEvents, regVars
<1>4. ASSUME NEW c \in Chan, Delete(c) PROVE Allocation'
  BY <1>4 DEF Delete, regVars, loopVars
<1>5. ASSUME NEW c \in Chan, Remove(c) PROVE Allocation'
  <2>1. doomed => c # handling
    BY <1>5 DEF Remove
  <2>2. /\ state' = [state EXCEPT ![c] = "NEW"]
        /\ UNCHANGED <<alive, handling, doomed, phase>>
    BY <1>5 DEF Remove, RemoveChannel, loopVars
  <2> QED
    BY <2>1, <2>2
<1>6. ASSUME NEW c \in Chan, Cancel(c) PROVE Allocation'
  <2>1. CASE handling = c
    BY <1>6, <2>1 DEF Cancel, regVars, loopVars
  <2>2. CASE handling # c
    BY <1>6, <2>2 DEF Cancel, DestroyTimer, loopVars
  <2> QED
    BY <2>1, <2>2
<1>7. ASSUME NEW c \in Chan, NEW ev \in SUBSET Event, UpdateChannel(c, ev),
             alive[c], doomed => handling # c,
             UNCHANGED <<loopVars, alive, doomed>>
      PROVE  Allocation'
  <2>1. \A d \in Chan \ {c} : state'[d] = state[d]
    BY <1>7 DEF UpdateChannel, UpdateAdds, UpdateModifies, UpdateDeletes
  <2>2. UNCHANGED <<alive, handling, doomed, phase>>
    BY <1>7 DEF loopVars
  <2> QED
    BY <1>7, <2>1, <2>2
<1>8. ASSUME NEW c \in Chan, NEW e \in Event, Enable(c, e) PROVE Allocation'
  <2>1. doomed => handling # c
    BY <1>8 DEF Enable
  <2>2. events[c] \cup {e} \in SUBSET Event
    OBVIOUS
  <2> QED
    BY <1>7, <1>8, <2>1, <2>2 DEF Enable, Usable
<1>9. ASSUME NEW c \in Chan, NEW es \in {{"in"}, {"out"}, Event}, Disable(c, es)
      PROVE  Allocation'
  <2>1. doomed => handling # c
    BY <1>9 DEF Disable
  <2>2. events[c] \ es \in SUBSET Event
    OBVIOUS
  <2> QED
    BY <1>7, <1>9, <2>1, <2>2 DEF Disable, Usable
<1>10. CASE UNCHANGED vars
  BY <1>10 DEF vars, regVars, loopVars
<1> QED
  BY <1>1, <1>2, <1>3, <1>4, <1>5, <1>6, <1>8, <1>9, <1>10 DEF Next

LEMMA RegistrationInvariant == Spec => [](Registration /\ Allocation)
<1>1. Init => Registration /\ Allocation
  BY ChannelAssumption
     DEF ChannelAssumption, Init, Registration, Allocation, StateMatchesMap,
         StateMatchesEpoll, CtlNeverFails
<1>2. TypeOK /\ (Registration /\ Allocation) /\ [Next]_vars
        => (Registration /\ Allocation)'
  BY RegistrationStep, AllocationStep
<1> QED
  BY <1>1, <1>2, TypeCorrect, PTL DEF Spec

\* What a channel believes of its registration is what channels_ and epoll hold:
\* the assertions of updateChannel() and removeChannel() cannot fail on their own.
THEOREM RegistrationAlwaysAgrees == Spec => []RegistrationAgrees
<1>1. Registration /\ Allocation => RegistrationAgrees
  BY DEF Registration, RegistrationAgrees
<1> QED
  BY <1>1, RegistrationInvariant, PTL

\* The results of epoll_ctl, which nobody reads, are always successes.
THEOREM CtlAlwaysSucceeds == Spec => []CtlNeverFails
<1>1. Registration /\ Allocation => CtlNeverFails
  BY DEF Registration
<1> QED
  BY <1>1, RegistrationInvariant, PTL

\* The channel, channels_ and epoll agree after every call, and no epoll_ctl fails.
THEOREM RegistrationIsSound == Spec => []RegistrationSound
<1>1. TypeOK /\ RegistrationAgrees /\ CtlNeverFails => RegistrationSound
  BY DEF RegistrationSound
<1> QED
  BY <1>1, TypeCorrect, RegistrationAlwaysAgrees, CtlAlwaysSucceeds, PTL

\* epoll never holds the pointer of a channel that was deleted.
THEOREM WatchedAlwaysAlive == Spec => []WatchedIsAlive
<1>1. TypeOK /\ Registration /\ Allocation => WatchedIsAlive
  <2> SUFFICES ASSUME TypeOK, Registration, Allocation,
                      NEW f \in Fd, watched[f] # NoChan
               PROVE  alive[watched[f]]
    BY DEF WatchedIsAlive
  <2>1. watched[f] \in Chan /\ FdOf[watched[f]] = f
    BY DEF TypeOK, Registration
  <2>2. state[watched[f]] = "ADD"
    BY <2>1 DEF Registration, StateMatchesEpoll
  <2> QED
    BY <2>1, <2>2 DEF Allocation
<1> QED
  BY <1>1, TypeCorrect, RegistrationInvariant, PTL
-------------------------------------------------------------------------------
(***************************************************************************)
(* The dispatch of a batch.  Outside of it no event is pending; inside it  *)
(* the channels of the events, and the one whose callback runs, which is   *)
(* no longer among them, are allocated.                                    *)
(***************************************************************************)
Dispatch ==
    /\ batch # {} => phase \in {"dispatch", "handler"}
    /\ handling \notin batch
    /\ BatchIsAlive

LEMMA DestroyKeepsOthers ==
    ASSUME TypeOK, NEW c \in Chan, DestroyTimer(c)
    PROVE  \A d \in Chan \ {c} : alive'[d] = alive[d]
BY DEF TypeOK, DestroyTimer

\* A callback destroys no channel but its own, and that one only when it has
\* returned; the others are destroyed between two batches.
LEMMA DispatchStep ==
    ASSUME TypeOK, Registration, Allocation, WatchedIsAlive, Dispatch,
           ~CancelInHandler, [Next]_vars
    PROVE  Dispatch'
<1> USE ChannelAssumption DEF ChannelAssumption, Dispatch, BatchIsAlive
<1>1. CASE Poll
  <2>1. handling = NoChan
    BY <1>1 DEF Poll, Allocation
  <2>2. batch' \subseteq {watched[f] : f \in {g \in Fd : watched[g] # NoChan}}
    BY <1>1 DEF Poll
  <2>3. \A c \in batch' : c \in Chan /\ alive[c]
    BY <2>2 DEF TypeOK, WatchedIsAlive
  <2>4. phase' = "dispatch" /\ UNCHANGED <<handling, alive>>
    BY <1>1 DEF Poll
  <2> QED
    BY <2>1, <2>3, <2>4
<1>2. CASE PollTimeout \/ BeginTasks \/ EndTasks
  <2>1. UNCHANGED <<batch, handling, alive>>
    BY <1>2 DEF PollTimeout, BeginTasks, EndTasks, vars, loopVars
  <2>2. batch # {} => phase' \in {"dispatch", "handler"}
    BY <1>2 DEF PollTimeout, BeginTasks, EndTasks, vars, loopVars
  <2> QED
    BY <2>1, <2>2
<1>3. CASE HandlerReturns
  <2>1. handling' = NoChan /\ batch' = batch /\ phase' = "dispatch"
    BY <1>3 DEF HandlerReturns
  <2>2. NoChan \notin batch
    BY DEF TypeOK
  <2>3. \A c \in batch : alive'[c]
    <3>1. CASE doomed
      <4>1. DestroyTimer(handling) /\ handling \in Chan
        BY <1>3, <3>1 DEF HandlerReturns, Allocation
      <4>2. \A d \in Chan \ {handling} : alive'[d] = alive[d]
        BY <4>1, DestroyKeepsOthers
      <4> QED
        BY <4>2 DEF TypeOK
    <3>2. CASE ~doomed
      BY <1>3, <3>2 DEF HandlerReturns
    <3> QED
      BY <3>1, <3>2
  <2> QED
    BY <2>1, <2>2, <2>3
<1>4. ASSUME NEW c \in Chan, HandleEvents(c) PROVE Dispatch'
  <2>1. /\ batch' = batch \ {c} /\ handling' = c
        /\ phase' = "handler" /\ alive' = alive
    BY <1>4 DEF HandleEvents
  <2>2. alive[c]
    BY <1>4 DEF HandleEvents, TypeOK
  <2> QED
    BY <2>1, <2>2
<1>5. ASSUME NEW c \in Chan, Delete(c) PROVE Dispatch'
  <2>1. batch = {} /\ handling = NoChan
    BY <1>5 DEF Delete, Allocation
  <2> QED
    BY <1>5, <2>1 DEF Delete, loopVars
<1>6. ASSUME NEW c \in Chan, Cancel(c) PROVE Dispatch'
  <2>1. CASE handling = c
    BY <1>6, <2>1 DEF Cancel, loopVars
  <2>2. CASE handling # c
    <3>1. phase = "task"
      BY <1>6, <2>2 DEF Cancel, UserCode
    <3>2. batch = {} /\ handling = NoChan
      BY <3>1 DEF Allocation
    <3> QED
      BY <1>6, <3>2 DEF Cancel, loopVars
  <2> QED
    BY <2>1, <2>2
<1>7. ASSUME NEW c \in Chan,
             \/ Remove(c)
             \/ \E e \in Event : Enable(c, e)
             \/ \E es \in {{"in"}, {"out"}, Event} : Disable(c, es)
      PROVE  Dispatch'
  BY <1>7 DEF Remove, Enable, Disable, loopVars
<1>8. CASE UNCHANGED vars
  BY <1>8 DEF vars, loopVars
<1> QED
  BY <1>1, <1>2, <1>3, <1>4, <1>5, <1>6, <1>7, <1>8 DEF Next

\* No event is handled by a destroyed channel, now or in a later batch, if no
\* callback cancels another timer: the guard of handleEvents() protects the
\* channel that runs, and nothing protects the rest of the batch.
THEOREM NoEventIsStale ==
    ASSUME ~CancelInHandler
    PROVE  Spec => []NoStaleEvent
<1>1. Init => Dispatch
  BY DEF Init, Dispatch, BatchIsAlive
<1>2. TypeOK /\ (Registration /\ Allocation) /\ WatchedIsAlive /\ Dispatch
         /\ [Next]_vars => Dispatch'
  BY DispatchStep
<1>3. WatchedIsAlive /\ Dispatch => NoStaleEvent
  BY DEF Dispatch, NoStaleEvent
<1> QED
  BY <1>1, <1>2, <1>3, TypeCorrect, RegistrationInvariant, WatchedAlwaysAlive,
     PTL DEF Spec
-------------------------------------------------------------------------------
\* One call of updateChannel(): the descriptor that it adds was free, one that it
\* modifies keeps events, and one that loses the last is no longer watched.
LEMMA UpdateLeavesNoneIdle ==
    ASSUME TypeOK, Registration, NEW c \in Chan, NEW ev \in SUBSET Event,
           OwnsFd(c), UpdateChannel(c, ev), NEW f \in Idle' \ Idle
    PROVE  watched[f] = NoChan
<1> USE ChannelAssumption DEF ChannelAssumption, TypeOK, Idle
<1>1. CASE UpdateAdds(c, ev)
  <2>1. watched[FdOf[c]] = NoChan
    BY <1>1, FdFree DEF UpdateAdds
  <2>2. /\ watched' = [watched EXCEPT ![FdOf[c]] = c]
        /\ interest' = [interest EXCEPT ![FdOf[c]] = ev]
    BY <1>1, <2>1 DEF UpdateAdds, CtlAdd
  <2>3. CASE f = FdOf[c]
    BY <2>1, <2>3
  <2>4. CASE f # FdOf[c]
    BY <2>2, <2>4
  <2> QED
    BY <2>3, <2>4
<1>2. CASE UpdateModifies(c, ev)
  BY <1>2 DEF UpdateModifies, CtlMod
<1>3. CASE UpdateDeletes(c, ev)
  BY <1>3 DEF UpdateDeletes, CtlDel
<1> QED
  BY <1>1, <1>2, <1>3 DEF UpdateChannel

LEMMA NoneIdleStep ==
    ASSUME TypeOK, Registration, Allocation, [Next]_vars, NEW f \in Idle' \ Idle
    PROVE  watched[f] = NoChan
<1>1. ASSUME UNCHANGED <<watched, interest>> PROVE FALSE
  BY <1>1 DEF Idle
<1>2. ASSUME NEW c \in Chan, CtlDel(c) PROVE FALSE
  BY <1>1, <1>2, ChannelAssumption DEF CtlDel, Idle, TypeOK, ChannelAssumption
<1>3. CASE HandlerReturns
  <2>1. CASE doomed
    BY <1>2, <1>3, <2>1, ChannelAssumption
       DEF HandlerReturns, DestroyTimer, Allocation, ChannelAssumption
  <2>2. CASE ~doomed
    BY <1>1, <1>3, <2>2 DEF HandlerReturns, regVars
  <2> QED
    BY <2>1, <2>2
<1>4. ASSUME NEW c \in Chan, Remove(c) PROVE FALSE
  BY <1>1, <1>2, <1>4 DEF Remove, RemoveChannel
<1>5. ASSUME NEW c \in Chan, Cancel(c) PROVE FALSE
  BY <1>1, <1>2, <1>5 DEF Cancel, DestroyTimer, regVars
<1>6. ASSUME NEW c \in Chan, NEW e \in Event, Enable(c, e) PROVE watched[f] = NoChan
  <2>1. events[c] \cup {e} \in SUBSET Event
    BY DEF TypeOK
  <2> QED
    BY <1>6, <2>1, UpdateLeavesNoneIdle DEF Enable, Usable
<1>7. ASSUME NEW c \in Chan, NEW es \in {{"in"}, {"out"}, Event}, Disable(c, es)
      PROVE  watched[f] = NoChan
  <2>1. events[c] \ es \in SUBSET Event
    BY DEF TypeOK
  <2> QED
    BY <1>7, <2>1, UpdateLeavesNoneIdle DEF Disable, Usable
<1>8. ASSUME NEW c \in Chan, HandleEvents(c) \/ Delete(c) PROVE FALSE
  BY <1>1, <1>8 DEF HandleEvents, Delete, regVars
<1>9. CASE Poll \/ PollTimeout \/ BeginTasks \/ EndTasks \/ UNCHANGED vars
  BY <1>1, <1>9 DEF Poll, PollTimeout, BeginTasks, EndTasks, vars, regVars
<1> QED
  BY <1>3, <1>4, <1>5, <1>6, <1>7, <1>8, <1>9 DEF Next

\* No registered channel stays in epoll without events, whatever its owner calls
\* and in whatever state: a descriptor becomes idle only with a channel that is
\* disabled while epoll does not watch it (EventLoop.cc:147, 160).
THEOREM NoneIsNeverRegistered == Spec => NoneNotRegistered
<1>1. TypeOK /\ (Registration /\ Allocation) /\ [Next]_vars
        => [\A f \in Idle' \ Idle : watched[f] = NoChan]_vars
  BY NoneIdleStep
<1> QED
  BY <1>1, TypeCorrect, RegistrationInvariant, PTL DEF Spec, NoneNotRegistered
===============================================================================
