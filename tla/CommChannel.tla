------------------------------ MODULE CommChannel ------------------------------
(***************************************************************************)
(* comm_channel_linux.c: a local socket between Scicos and an engine.  The *)
(* channel keeps two descriptors, and never forgets one that it has        *)
(* closed; files is what the descriptors of the process stand for.         *)
(***************************************************************************)
EXTENDS Integers, Sequences

CONSTANT Fds   \* the descriptors, a set of naturals; none is -1

ASSUME FdsAssumption == Fds \subseteq Nat

VARIABLE files

none == -1
Free == [kind |-> "free", of |-> none]
Listening(name)   == [kind |-> "listening", of |-> name]
Connected(engine) == [kind |-> "connected", of |-> engine]

(* The kernel gives the lowest descriptor that is free.                    *)
HasFree(fs) == \E f \in Fds : fs[f] = Free

NewFd(fs) == CHOOSE f \in Fds : fs[f] = Free /\ \A g \in Fds : fs[g] = Free => f <= g

Closed(fs, fd) == IF fd = none THEN fs ELSE [fs EXCEPT ![fd] = Free]

(* init_channel and clean_channel.                                         *)
init_channel == [handle |-> none, listenHandle |-> none]

clean_channel_listening(fs, channel) == Closed(fs, channel.handle)  \* mutant

clean_channel(fs, channel) ==
  Closed(Closed(fs, channel.handle), channel.listenHandle)

(* What open_channel may come to: no socket, a socket that cannot be bound *)
(* or listened on, or one that listens.                                    *)
open_channel(fs, channel, name) ==
  LET before == Closed(fs, channel.listenHandle)
      fd     == NewFd(before)
      on(h)  == [channel EXCEPT !.listenHandle = h]
      bound(what) == [before EXCEPT ![fd] = what]
  IN  {[ok |-> FALSE, files |-> before, channel |-> on(none)]} \cup
      IF HasFree(before)
      THEN {[ok |-> FALSE, files |-> bound(Listening(none)), channel |-> on(fd)],
            [ok |-> TRUE,  files |-> bound(Listening(name)), channel |-> on(fd)]}
      ELSE {}

(* accept, once an engine waits for the channel's name.                    *)
Accept(channel, engine) ==
  LET fd == NewFd(files)
  IN  [files |-> [files EXCEPT ![fd] = Connected(engine)],
       channel |-> [channel EXCEPT !.handle = fd]]
=============================================================================
