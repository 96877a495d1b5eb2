------------------------------- MODULE SimBlocks -------------------------------
(***************************************************************************)
(* flex_blocks.c and smcube_block.c: Scicos blocks that are simulated by   *)
(* an engine process each, over comm_channel and process_utils.  Scicos    *)
(* calls every block of the diagram to initialise it (flag 4), then to     *)
(* update its outputs (flag 1), round after round, then to end it (flag 5),*)
(* all in the order of the diagram; after an error in an initialisation    *)
(* the others are still made, after any error all blocks are ended.        *)
(* A flex board is known by the number its blocks are given, and shared by *)
(* blocks with one number; SMCube blocks get a number each.                *)
(***************************************************************************)
EXTENDS CommChannel, ProcessUtils, FiniteSets

CONSTANTS
  Diagrams,      \* [lib, ids, reads]: for each block its number (flex), and
                 \* the sizes of what an update reads
  Simulations,   \* bound on the simulations
  Requests       \* bound on the requests in one

ASSUME SimBlocksAssumption ==
  /\ Simulations \in Nat /\ Requests \in Nat
  /\ \A d \in Diagrams :
       /\ d.lib \in {"flex", "smcube"} /\ d.ids \in Seq(Nat) \ {<<>>}
       /\ DOMAIN d.reads = DOMAIN d.ids
       /\ \A i \in DOMAIN d.reads : d.reads[i] \in Seq(Nat \ {0})

VARIABLES
  diagram, phase, k,      \* what Scicos does, and to which block
  simulations, failed,
  at,                     \* where the call of the block is: "scicos" (in none),
                          \* "open", "launch", "poll", "clean", "wait", "recv"
  blocks_data,            \* the entries, and
  current,                \* the one that process and channel point into
  work, erase_blocks,     \* of SMCube: the entry of each block
  interrupted,            \* the call has been interrupted by SIGCHLD
  asked, reads, got,      \* of an update: its number, the reads, the bytes
  launchedAs,             \* the number that each engine was given
  inbox                   \* what each engine has left to send and be read

scicos  == <<diagram, simulations>>
place   == <<phase, k, failed, at>>
entries == <<blocks_data, current, work, erase_blocks>>
update  == <<asked, reads, got>>
processes == <<engine, killed, abandoned, handler_already_registered>>
vars == <<scicos, place, entries, interrupted, update, inbox, files,
          processes, launchedAs>>

Init ==
  /\ diagram \in Diagrams /\ phase = "off" /\ k = 1
  /\ simulations = Simulations /\ failed = FALSE
  /\ at = "scicos" /\ interrupted = FALSE
  /\ blocks_data = <<>> /\ current = none
  /\ work = [i \in DOMAIN diagram.ids |-> none] /\ erase_blocks = FALSE
  /\ asked = 0 /\ reads = <<>> /\ got = <<>> /\ inbox = [p \in Pids |-> <<>>]
  /\ launchedAs = [p \in Pids |-> none]
  /\ files = [f \in Fds |-> Free]
  /\ engine = [p \in Pids |-> "unused"] /\ killed = {} /\ abandoned = {}
  /\ handler_already_registered = FALSE

-----------------------------------------------------------------------------
(* initialize_block_data; the entry of a block (assign_current_block), none *)
(* if it has none: flex_blocks looks the number up, smcube_block has kept   *)
(* the position.                                                            *)
NewEntry(id) == [id |-> id, pid |-> none, channel |-> init_channel, exists |-> FALSE]

WithId(entries_, id) == {i \in DOMAIN entries_ : entries_[i].id = id}
FirstOf(s) == IF s = {} THEN none ELSE CHOOSE i \in s : \A j \in s : i <= j

EntryOf(b) ==
  IF diagram.lib = "flex" THEN FirstOf(WithId(blocks_data, diagram.ids[b]))
  ELSE IF work[b] \in DOMAIN blocks_data THEN work[b] ELSE none

(* Scicos goes on to the next block, or ends the simulation.               *)
More == k < Len(diagram.ids)

Go(to) == phase' = to /\ k' = 1

NextInit(wrong) ==
  /\ at' = "scicos" /\ failed' = (failed \/ wrong)
  /\ IF More THEN k' = k + 1 /\ UNCHANGED phase
     ELSE Go(IF failed' THEN "end" ELSE "run")

NextUpdate ==
  /\ at' = "scicos" /\ UNCHANGED failed
  /\ IF More THEN k' = k + 1 /\ UNCHANGED phase
     ELSE (asked' < Requests /\ Go("run")) \/ Go("end")

NextEnd ==
  /\ at' = "scicos" /\ UNCHANGED failed
  /\ IF More THEN k' = k + 1 /\ UNCHANGED phase ELSE Go("off")

Start ==
  /\ phase = "off" /\ simulations > 0
  /\ Go("init") /\ failed' = FALSE /\ asked' = 0 /\ got' = <<>>
  /\ simulations' = simulations - 1
  /\ UNCHANGED <<diagram, at, entries, interrupted, reads, inbox, files, processes,
                 launchedAs>>

Calling(ph) == phase = ph /\ at = "scicos"
Entry == blocks_data[current]

-----------------------------------------------------------------------------
(* Flag 4.                                                                 *)

(* init_error: flex_blocks cleans the process and the channel, smcube_block *)
(* leaves them to flag 5.                                                   *)
InitError(entry) ==
  /\ blocks_data' = [blocks_data EXCEPT ![current] = [entry EXCEPT !.exists = FALSE]]
  /\ IF diagram.lib = "flex" THEN at' = "clean" /\ UNCHANGED <<phase, k, failed>>
     ELSE NextInit(TRUE)

(* flex_blocks takes a number for the position of its entry.               *)
Skipped == diagram.lib = "flex" /\ diagram.ids[k] < Len(blocks_data)

SkipBlock ==
  /\ Calling("init") /\ Skipped
  /\ NextInit(FALSE)
  /\ UNCHANGED <<scicos, entries, interrupted, update, inbox, files, processes, launchedAs>>

(* A new entry; without the engine's file it stays without a process.      *)
MakeBlock ==
  /\ Calling("init") /\ ~Skipped
  /\ LET before == IF erase_blocks THEN <<>> ELSE blocks_data
         pos    == Len(before) + 1
         id     == IF diagram.lib = "flex" THEN diagram.ids[k] ELSE pos
     IN  /\ blocks_data' = Append(before, NewEntry(id))
         /\ work' = [work EXCEPT ![k] = pos]
         /\ current' = FirstOf(WithId(blocks_data', id))
  /\ erase_blocks' = FALSE
  /\ at' = "open" /\ UNCHANGED <<phase, k, failed>>
  /\ UNCHANGED <<scicos, interrupted, update, inbox, files, processes, launchedAs>>

(* The file of the engine is missing, open_channel fails, or it does not.  *)
OpenChannel ==
  /\ at = "open"
  /\ \/ InitError(Entry) /\ UNCHANGED files
     \/ \E o \in open_channel(files, Entry.channel, Entry.id) :
          LET entry == [id |-> Entry.id, pid |-> Entry.pid, channel |-> o.channel,
                        exists |-> TRUE]
          IN  /\ files' = o.files
              /\ \/ ~o.ok /\ InitError(entry)
                 \/ /\ o.ok /\ at' = "launch"
                    /\ blocks_data' = [blocks_data EXCEPT ![current] = entry]
                    /\ UNCHANGED <<phase, k, failed>>
  /\ UNCHANGED <<scicos, current, work, erase_blocks, interrupted, update, inbox,
                 processes, launchedAs>>

LaunchProcess ==
  /\ at = "launch"
  /\ \/ (LaunchRefused \/ LaunchFails) /\ InitError(Entry) /\ UNCHANGED launchedAs
     \/ /\ Launch /\ at' = "poll"
        /\ blocks_data' = [blocks_data EXCEPT ![current].pid = NewPid]
        /\ launchedAs' = [launchedAs EXCEPT ![NewPid] = Entry.id]
        /\ UNCHANGED <<phase, k, failed>>
  /\ UNCHANGED <<scicos, current, work, erase_blocks, interrupted, update, inbox, files,
                 killed, abandoned>>

(* wait_for_connect_timeout: an engine has connected to the channel's name, *)
(* or the time is over, or SIGCHLD has interrupted poll; or accept fails.   *)
PollConnects ==
  /\ at = "poll" /\ HasFree(files)
  /\ \E p \in Pids :
       /\ engine[p] = "connecting" /\ Entry.id = launchedAs[p]
       /\ engine' = [engine EXCEPT ![p] = "connected"]
       /\ files' = Accept(Entry.channel, p).files
       /\ blocks_data' = [blocks_data EXCEPT
                            ![current].channel = Accept(Entry.channel, p).channel]
  /\ NextInit(FALSE) /\ interrupted' = FALSE
  /\ UNCHANGED <<scicos, current, work, erase_blocks, update, inbox, killed,
                 abandoned, handler_already_registered, launchedAs>>

PollFails ==
  /\ at = "poll" /\ interrupted' = FALSE
  /\ \/ InitError(Entry)
     \/ InitError([Entry EXCEPT !.channel = [@ EXCEPT !.handle = none]])
  /\ UNCHANGED <<scicos, current, work, erase_blocks, update, inbox, files, processes, launchedAs>>

-----------------------------------------------------------------------------
(* clean_process, and what flex_blocks does after it in init_error; at flag *)
(* 5 flex_blocks removes the entry, smcube_block keeps it until the next    *)
(* flag 4.                                                                  *)
Removed(i) == SubSeq(blocks_data, 1, i - 1)
                \o SubSeq(blocks_data, i + 1, Len(blocks_data))

AfterClean ==
  \/ /\ phase = "init" /\ NextInit(TRUE)
     /\ files' = clean_channel(files, Entry.channel)
     /\ UNCHANGED <<blocks_data, erase_blocks>>
  \/ /\ phase = "end" /\ NextEnd
     /\ IF diagram.lib = "flex"
        THEN blocks_data' = Removed(current) /\ UNCHANGED erase_blocks
        ELSE erase_blocks' = TRUE /\ UNCHANGED blocks_data
     /\ UNCHANGED files

CleanProcess ==
  /\ at = "clean"
  /\ LET p == Entry.pid
     IN  \/ NothingToKill(p) /\ unregister_handler /\ UNCHANGED killed /\ AfterClean
         \/ CannotKill(p) /\ UNCHANGED <<killed, handler_already_registered>> /\ AfterClean
         \/ /\ MustWait(p) /\ Kill(p) /\ at' = "wait"
            /\ UNCHANGED <<phase, k, failed, blocks_data, erase_blocks, files,
                           handler_already_registered>>
  /\ UNCHANGED <<scicos, current, work, interrupted, update, inbox, engine, abandoned,
                 launchedAs>>

(* ... the wait, which goes on until the child is the one that was killed, *)
(* or fails.                                                               *)
WaitReaps ==
  /\ at = "wait"
  /\ \E p \in Pids :
       /\ Reap(p)
       /\ IF p = Entry.pid
          THEN unregister_handler /\ AfterClean
          ELSE UNCHANGED <<place, blocks_data, erase_blocks, files,
                           handler_already_registered>>
  /\ UNCHANGED <<scicos, current, work, interrupted, update, inbox, killed, abandoned,
                 launchedAs>>

WaitFails ==
  /\ at = "wait" /\ WaitInterrupted(Entry.pid) /\ AfterClean
  /\ UNCHANGED <<scicos, current, work, interrupted, update, inbox, killed, launchedAs>>

(* Flag 5.  A board that another block has ended already has no entry.     *)
EndBlock ==
  /\ Calling("end")
  /\ current' = IF EntryOf(k) = none THEN current ELSE EntryOf(k)
  /\ IF EntryOf(k) = none THEN NextEnd /\ UNCHANGED files
     ELSE /\ files' = clean_channel(files, blocks_data[EntryOf(k)].channel)
          /\ at' = "clean" /\ UNCHANGED <<phase, k, failed>>
  /\ UNCHANGED <<scicos, blocks_data, work, erase_blocks, interrupted, update, inbox,
                 processes, launchedAs>>

-----------------------------------------------------------------------------
(* Flag 1: a request to the engine and the reads of its answer.  After an  *)
(* error (Coserror) Scicos ends the simulation.                            *)
Error(entry) ==
  /\ blocks_data' = [blocks_data EXCEPT ![entry].exists = FALSE]
  /\ at' = "scicos" /\ Go("end") /\ UNCHANGED failed

(* The engine at the other end of an entry's socket.                       *)
Peer(entry) == files[entry.channel.handle].of

Reads_first(b) ==                                                      \* mutant
  IF diagram.reads[b] = <<>> THEN <<>> ELSE <<Head(diagram.reads[b])>>
Reads(b) == diagram.reads[b]

SumOf(s) == LET sum[i \in 0 .. Len(s)] == IF i = 0 THEN 0 ELSE sum[i - 1] + s[i]
            IN  sum[Len(s)]

SkipUpdate ==
  /\ Calling("run")
  /\ IF EntryOf(k) = none THEN Go("end") /\ UNCHANGED <<at, failed, current>>
     ELSE /\ ~blocks_data[EntryOf(k)].exists /\ NextUpdate /\ current' = EntryOf(k)
  /\ UNCHANGED <<scicos, blocks_data, work, erase_blocks, interrupted,
                 update, inbox, files, processes, launchedAs>>

(* write_to_channel starts again when it is interrupted; it fails once the *)
(* engine is dead.                                                         *)
Request ==
  /\ Calling("run") /\ EntryOf(k) # none
  /\ LET e == EntryOf(k)
     IN  /\ blocks_data[e].exists /\ current' = e
         /\ LET p == Peer(blocks_data[e])
            IN  IF engine[p] # "connected"
                THEN Error(e) /\ UNCHANGED <<update, inbox>>
                ELSE /\ asked' = asked + 1
                     /\ inbox' = [inbox EXCEPT ![p] = @ \o
                                    [i \in 1 .. SumOf(diagram.reads[k]) |-> asked']]
                     /\ reads' = Reads(k) /\ got' = <<>>
                     /\ UNCHANGED blocks_data
                     /\ IF Reads(k) = <<>> THEN NextUpdate
                        ELSE at' = "recv" /\ UNCHANGED <<phase, k, failed>>
  /\ UNCHANGED <<scicos, work, erase_blocks, interrupted, files, processes, launchedAs>>

(* read_from_channel_size: recv takes what there is; the update is over    *)
(* after the last read.                                                    *)
Recv ==
  /\ at = "recv" /\ interrupted' = FALSE
  /\ LET p == Peer(Entry)
     IN  \E n \in 1 .. Head(reads) :
           /\ n <= Len(inbox[p])
           /\ got' = got \o SubSeq(inbox[p], 1, n)
           /\ inbox' = [inbox EXCEPT ![p] = SubSeq(@, n + 1, Len(@))]
           /\ reads' = IF n = Head(reads) THEN Tail(reads)
                       ELSE <<Head(reads) - n>> \o Tail(reads)
  /\ UNCHANGED asked
  /\ IF reads' = <<>> THEN NextUpdate ELSE UNCHANGED place
  /\ UNCHANGED <<scicos, entries, files, processes, launchedAs>>

(* recv returns 0 after the engine's last byte, and -1 when it has been    *)
(* interrupted: both end the read, whatever it has got.                    *)
RecvFails ==
  /\ at = "recv" /\ interrupted' = FALSE
  /\ \/ interrupted
     \/ engine[Peer(Entry)] # "connected" /\ inbox[Peer(Entry)] = <<>>
  /\ Error(current)
  /\ UNCHANGED <<scicos, current, work, erase_blocks, update, inbox, files, processes,
                 launchedAs>>

-----------------------------------------------------------------------------
(* The engines.  One connects to its channel's name; it ends when it is    *)
(* told to, or by itself, with some of its answer unsent.  SIGCHLD         *)
(* interrupts recv if there is a handler (poll may fail at any time).      *)
EngineConnects(p) ==
  /\ engine[p] = "starting" /\ \E f \in Fds : files[f] = Listening(launchedAs[p])
  /\ engine' = [engine EXCEPT ![p] = "connecting"]
  /\ UNCHANGED <<scicos, place, entries, interrupted, update, inbox, files, killed, abandoned,
                 handler_already_registered, launchedAs>>

EngineEnds(p) ==
  /\ p \in Alive
  /\ engine' = [engine EXCEPT ![p] = "dead"]
  /\ \E n \in 0 .. Len(inbox[p]) : inbox' = [inbox EXCEPT ![p] = SubSeq(@, 1, n)]
  /\ interrupted' = (interrupted \/ (handler_already_registered /\ at = "recv"))
  /\ UNCHANGED <<scicos, place, entries, update, files, killed, abandoned,
                 handler_already_registered, launchedAs>>

Flag4 == SkipBlock \/ MakeBlock \/ OpenChannel \/ LaunchProcess \/ PollConnects \/ PollFails
Flag1 == SkipUpdate \/ Request \/ Recv \/ RecvFails
Flag5 == EndBlock
Clean == CleanProcess \/ WaitReaps \/ WaitFails

Scicos  == Flag4 \/ Flag1 \/ Flag5 \/ Clean
Engines == \E p \in Pids : EngineConnects(p) \/ EngineEnds(p)
KilledEnd == \E p \in killed : EngineEnds(p)

Next == Start \/ Scicos \/ Engines

(* Scicos goes on, and SIGTERM ends an engine; engines answer or do not.   *)
Spec == Init /\ [][Next]_vars /\ WF_vars(Scicos) /\ WF_vars(KilledEnd)

-----------------------------------------------------------------------------
(* What an update reads is the answer to its own request: an answer comes  *)
(* in parts, may be cut by the end of the engine or by the end of another  *)
(* engine, and is read in one step by flex_blocks, in two by smcube_block. *)
InStep == \A i \in DOMAIN got : got[i] = asked

(* The boards are numbered from 0 in the order they come in the diagram:   *)
(* flex_blocks relies on it.                                               *)
Numbered ==
  diagram.lib = "flex" =>
    \A b \in DOMAIN diagram.ids :
      LET earlier == {diagram.ids[c] : c \in 1 .. b - 1}
      IN  diagram.ids[b] \in earlier \cup {Cardinality(earlier)}

(* When a simulation is over nothing is left of it, whatever call failed   *)
(* and whichever engine has died: no engine runs or is a zombie, but those *)
(* that were killed and whose wait failed; no descriptor is open, and      *)
(* Scicos has its own handler of SIGCHLD.                                  *)
NothingLeft ==
  phase = "off" =>
    /\ ~handler_already_registered
    /\ Numbered => /\ \A p \in Pids : engine[p] \in {"unused", "reaped"} \/ p \in abandoned
                   /\ \A f \in Fds : files[f] = Free

(* A simulation that ends comes to its end: no wait for a child that has   *)
(* been reaped by the wait for another.                                    *)
SimulationEnds ==
  /\ at = "wait" ~> at # "wait"
  /\ phase = "end" ~> phase = "off"
=============================================================================
