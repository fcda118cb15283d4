------------------------------- MODULE Acceptor -------------------------------
(***************************************************************************)
(* Acceptor::handleRecv() with TCPHandle::accept(): the loop takes a       *)
(* connection off the backlog.  When accept() fails, because the process   *)
(* has no descriptor left, the peer is gone or for another reason, nullFd_ *)
(* is closed, one connection is accepted in its place and dropped, and     *)
(* nullFd_ is opened again: four system calls, between which other threads *)
(* of the process open and close descriptors and peers come and go.        *)
(*                                                                         *)
(* holder says what each descriptor of the process is used for.  The       *)
(* kernel hands out the lowest free one.                                   *)
(***************************************************************************)
EXTENDS Integers, FiniteSets, FiniteSetsExt

CONSTANTS FdLimit,     \* the descriptors are 1..FdLimit
          MaxBacklog,  \* bound: peers that wait at the same time
          MaxPeers     \* bound: peers in all

ASSUME AcceptAssumption ==
  /\ FdLimit \in Nat /\ MaxBacklog \in Nat /\ MaxPeers \in Nat

VARIABLES holder,    \* descriptor -> "free", "null", "accepted", "handle" or "other"
          nullFd,    \* nullFd_
          backlog,   \* the peers that wait
          peers,     \* the peers so far
          acceptPc,  \* where accept() is
          stolen     \* a close() of accept() has hit somebody else's descriptor

acceptVars == <<holder, nullFd, backlog, peers, acceptPc, stolen>>

AnyFd == 1..FdLimit
NoFd == -1
Free == {f \in AnyFd : holder[f] = "free"}

AcceptTypeOK ==
  /\ holder \in [AnyFd -> {"free", "null", "accepted", "handle", "other"}]
  /\ nullFd \in AnyFd \cup {NoFd, 0} /\ backlog \in 0..MaxBacklog /\ peers \in 0..MaxPeers
  /\ acceptPc \in {"listen", "idle", "accept", "closed", "dropping", "dropped", "fatal"}
  /\ stolen \in BOOLEAN

AcceptInit ==
  /\ holder = [f \in AnyFd |-> "free"] /\ nullFd = 0 /\ backlog = 0 /\ peers = 0
  /\ acceptPc = "listen" /\ stolen = FALSE
------------------------------------------------------------------------------
\* open("/dev/null"), which fails without a free descriptor.
OpenNull ==
  IF Free = {} THEN nullFd' = NoFd /\ UNCHANGED holder
  ELSE nullFd' = Min(Free) /\ holder' = [holder EXCEPT ![Min(Free)] = "null"]

\* close(nullFd_).
CloseNull ==
  IF nullFd \in AnyFd
  THEN /\ holder' = [holder EXCEPT ![nullFd] = "free"]
       /\ stolen' = (stolen \/ holder[nullFd] \in {"handle", "other"})
  ELSE UNCHANGED <<holder, stolen>>

\* Acceptor::listen().
AcceptListen ==
  /\ acceptPc = "listen" /\ acceptPc' = "idle" /\ OpenNull
  /\ UNCHANGED <<backlog, peers, stolen>>

\* handleRecv(): the backlog was not empty when epoll_wait returned.
AcceptPolled ==
  /\ acceptPc = "idle" /\ backlog > 0 /\ acceptPc' = "accept"
  /\ UNCHANGED <<holder, nullFd, backlog, peers, stolen>>

\* accept(): a TCPHandle, a failure, or an error that ends the process.
Accepts ==
  /\ acceptPc = "accept" /\ backlog > 0 /\ Free # {}
  /\ holder' = [holder EXCEPT ![Min(Free)] = "handle"] /\ backlog' = backlog - 1
  /\ acceptPc' = "idle" /\ UNCHANGED <<nullFd, peers, stolen>>

\* The failures of accept() that it survives (TCPHandle.cc:70-75): nobody waits, no
\* descriptor is free, or ECONNABORTED, EINTR, EPROTO or EPERM, whatever waits and is free.
AcceptFails ==
  /\ acceptPc = "accept" /\ acceptPc' = "closed" /\ CloseNull
  /\ UNCHANGED <<nullFd, backlog, peers>>

AcceptFatal ==
  /\ acceptPc = "accept" /\ acceptPc' = "fatal"
  /\ UNCHANGED <<holder, nullFd, backlog, peers, stolen>>

\* Mutant: the number of a closed descriptor is kept when accept() fails.
AcceptToDropKeeps ==
  /\ acceptPc = "closed" /\ acceptPc' = "dropping"
  /\ IF backlog > 0 /\ Free # {}
     THEN /\ nullFd' = Min(Free) /\ holder' = [holder EXCEPT ![Min(Free)] = "accepted"]
          /\ backlog' = backlog - 1
     ELSE UNCHANGED <<nullFd, holder, backlog>>
  /\ UNCHANGED <<peers, stolen>>

\* nullFd_ = accept(...): any peer that waits now.
AcceptToDrop ==
  /\ acceptPc = "closed" /\ acceptPc' = "dropping"
  /\ IF backlog > 0 /\ Free # {}
     THEN /\ nullFd' = Min(Free) /\ holder' = [holder EXCEPT ![Min(Free)] = "accepted"]
          /\ backlog' = backlog - 1
     ELSE nullFd' = NoFd /\ UNCHANGED <<holder, backlog>>
  /\ UNCHANGED <<peers, stolen>>

DropAccepted ==
  /\ acceptPc = "dropping" /\ acceptPc' = "dropped" /\ CloseNull
  /\ UNCHANGED <<nullFd, backlog, peers>>

ReopenNull ==
  /\ acceptPc = "dropped" /\ acceptPc' = "idle" /\ OpenNull
  /\ UNCHANGED <<backlog, peers, stolen>>

------------------------------------------------------------------------------
\* Peers, other threads and ~TCPHandle().
PeerComes ==
  /\ acceptPc # "listen" /\ backlog < MaxBacklog /\ peers < MaxPeers
  /\ backlog' = backlog + 1 /\ peers' = peers + 1
  /\ UNCHANGED <<holder, nullFd, acceptPc, stolen>>
PeerGoes ==
  /\ backlog > 0 /\ backlog' = backlog - 1
  /\ UNCHANGED <<holder, nullFd, peers, acceptPc, stolen>>
OtherOpens ==
  /\ Free # {} /\ holder' = [holder EXCEPT ![Min(Free)] = "other"]
  /\ UNCHANGED <<nullFd, backlog, peers, acceptPc, stolen>>
OwnerCloses ==
  /\ \E f \in AnyFd : holder[f] \in {"handle", "other"} /\ holder' = [holder EXCEPT ![f] = "free"]
  /\ UNCHANGED <<nullFd, backlog, peers, acceptPc, stolen>>

AcceptNext ==
  acceptPc # "fatal" /\
    (\/ AcceptListen \/ AcceptPolled \/ Accepts \/ AcceptFails \/ AcceptFatal
     \/ AcceptToDrop \/ DropAccepted \/ ReopenNull
     \/ PeerComes \/ PeerGoes \/ OtherOpens \/ OwnerCloses)
AcceptSpec == AcceptInit /\ [][AcceptNext]_acceptVars
------------------------------------------------------------------------------
\* Whatever other threads do between its system calls, accept() closes what it has
\* opened and nothing else: no dropped connection stays open, nullFd_ is the one idle
\* descriptor or none, and no descriptor of somebody else is closed (TCPHandle.cc:77-80).
IdleFdOwned ==
  /\ ~stolen
  /\ Cardinality({f \in AnyFd : holder[f] \in {"null", "accepted"}}) <= 1
  /\ acceptPc \in {"idle", "accept"} =>
       {f \in AnyFd : holder[f] \in {"null", "accepted"}} = {nullFd} \ {NoFd}
==============================================================================
