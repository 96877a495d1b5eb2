---------------------------- MODULE UdpCommunicator ----------------------------
(***************************************************************************)
(* UdpCommunicator.cs: two UDP clients that one thread opens and closes    *)
(* and a second one, started by the first Connect, receives on.  The first *)
(* thread's calls are lists of steps, one for each field it writes; the    *)
(* receiving thread is woken by an event that resets itself and by         *)
(* Thread.Interrupt, which stays pending until the thread next blocks.     *)
(***************************************************************************)
EXTENDS Integers, Sequences

CONSTANT Clients   \* names of UDP clients; null is 0

(* A new object always finds a name that is not in use.                    *)
ASSUME ClientsAssumption ==
  /\ Clients \subseteq Nat \ {0}
  /\ \A a, b \in Clients \cup {0} : \E c \in Clients : c \notin {a, b}

VARIABLES
  ui,                       \* the steps that the calling thread has to do
  udpSendingClient, udpReceivingClient,
  opened,                   \* the clients that are open
  refused,                  \* history: a Connect has made no sending client
  ReceivingActive, ReceivingClosed,
  ResumeReceiving,          \* the event is set
  interrupted,              \* an interrupt is pending
  receiver,                 \* where the receiving thread is
  on                        \* the client that it receives on

null == 0
clients == <<udpSendingClient, udpReceivingClient, opened, refused>>
flags   == <<ReceivingActive, ReceivingClosed>>
wakes   == <<ResumeReceiving, interrupted>>
thread  == <<receiver, on>>
communicator == <<clients, flags, wakes, thread>>

CommunicatorInit ==
  /\ udpSendingClient = null /\ udpReceivingClient = null /\ opened = {}
  /\ refused = FALSE
  /\ ReceivingActive = FALSE /\ ReceivingClosed = FALSE
  /\ ResumeReceiving = FALSE /\ interrupted = FALSE
  /\ receiver = "unstarted" /\ on = null

(* The lists of steps.                                                     *)
DisconnectSteps == <<"close_sending", "close_receiving", "interrupt">>
CloseSteps      == <<"inactive">> \o DisconnectSteps \o <<"join">>

Doing(step) == ui # <<>> /\ Head(ui) = step
Done        == ui' = Tail(ui)

NewClient == CHOOSE c \in Clients : c \notin opened \cup {on}

-----------------------------------------------------------------------------
(* Connect.  A client that is left of a failed Connect is closed first.    *)
ConnectCall_reopened ==                                              \* mutant
  /\ Doing("connect")
  /\ ui' = (IF ReceivingClosed THEN <<>>
            ELSE (IF udpReceivingClient # null THEN DisconnectSteps ELSE <<>>)
                   \o <<"new_sending", "new_receiving">>) \o Tail(ui)
  /\ UNCHANGED communicator

ConnectCall ==
  /\ Doing("connect")
  /\ ui' = (IF ReceivingClosed THEN <<>>
            ELSE (IF udpSendingClient # null THEN DisconnectSteps ELSE <<>>)
                   \o <<"new_sending", "new_receiving">>) \o Tail(ui)
  /\ UNCHANGED communicator

(* A client that cannot be made ends Connect, which returns FALSE: the     *)
(* sending one for want of a socket,                                       *)
NewSending ==
  /\ Doing("new_sending")
  /\ \/ /\ Done /\ udpSendingClient' = NewClient /\ opened' = opened \cup {NewClient}
        /\ UNCHANGED refused
     \/ /\ ui' = Tail(Tail(ui)) /\ refused' = TRUE
        /\ UNCHANGED <<udpSendingClient, opened>>
  /\ UNCHANGED <<udpReceivingClient, flags, wakes, thread>>

(* the receiving one also because its port is in use.                      *)
NewReceiving ==
  /\ Doing("new_receiving")
  /\ \/ /\ ui' = <<"resume">> \o Tail(ui)
        /\ udpReceivingClient' = NewClient /\ opened' = opened \cup {NewClient}
        /\ UNCHANGED <<udpSendingClient, refused>>
     \/ Done /\ UNCHANGED clients
  /\ UNCHANGED <<flags, wakes, thread>>

Resume ==
  /\ Doing("resume") /\ Done
  /\ IF ReceivingActive
     THEN ResumeReceiving' = TRUE /\ UNCHANGED <<ReceivingActive, receiver>>
     ELSE ReceivingActive' = TRUE /\ receiver' = "while" /\ UNCHANGED ResumeReceiving
  /\ UNCHANGED <<clients, ReceivingClosed, interrupted, on>>

(* Disconnect: each client is closed after its field is cleared.           *)
CloseSending ==
  /\ Doing("close_sending") /\ Done
  /\ udpSendingClient' = null /\ opened' = opened \ {udpSendingClient}
  /\ UNCHANGED <<udpReceivingClient, refused, flags, wakes, thread>>

CloseReceiving ==
  /\ Doing("close_receiving") /\ Done
  /\ udpReceivingClient' = null /\ opened' = opened \ {udpReceivingClient}
  /\ UNCHANGED <<udpSendingClient, refused, flags, wakes, thread>>

(* Interrupting a thread that does not run throws, which Disconnect drops. *)
InterruptReceiver_none ==                                            \* mutant
  /\ Doing("interrupt") /\ Done
  /\ UNCHANGED communicator

InterruptReceiver ==
  /\ Doing("interrupt") /\ Done
  /\ interrupted' = (interrupted \/ receiver \notin {"unstarted", "done"})
  /\ UNCHANGED <<clients, flags, ResumeReceiving, thread>>

(* Close: no more rounds, Disconnect, and the thread is waited for.        *)
Inactive ==
  /\ Doing("inactive") /\ Done
  /\ ReceivingActive' = FALSE
  /\ UNCHANGED <<clients, ReceivingClosed, wakes, thread>>

Join ==
  /\ Doing("join") /\ Done
  /\ receiver \in {"unstarted", "done"}
  /\ ReceivingClosed' = TRUE
  /\ UNCHANGED <<clients, ReceivingActive, wakes, thread>>

CallerSteps ==
  \/ ConnectCall \/ NewSending \/ NewReceiving \/ Resume
  \/ CloseSending \/ CloseReceiving \/ InterruptReceiver \/ Inactive \/ Join

-----------------------------------------------------------------------------
(* ReceiveMessages.                                                        *)
Receiver(from, to) == receiver = from /\ receiver' = to

While ==
  /\ Receiver("while", IF ReceivingActive THEN "flag" ELSE "done")
  /\ UNCHANGED <<ui, clients, flags, wakes, on>>

Flag ==
  /\ Receiver("flag", IF udpSendingClient # null THEN "receive" ELSE "wait")
  /\ UNCHANGED <<ui, clients, flags, wakes, on>>

WaitOne ==
  /\ Receiver("wait", "while")
  /\ \/ interrupted /\ interrupted' = FALSE /\ UNCHANGED ResumeReceiving
     \/ ResumeReceiving /\ ResumeReceiving' = FALSE /\ UNCHANGED interrupted
  /\ UNCHANGED <<ui, clients, flags, on>>

(* No client, or the field cleared since it was tested: an exception.      *)
Receive ==
  /\ Receiver("receive", IF udpReceivingClient # null THEN "blocked" ELSE "while")
  /\ on' = udpReceivingClient
  /\ UNCHANGED <<ui, clients, flags, wakes>>

(* Receive throws once the client is closed.                               *)
ReceiveThrows ==
  /\ Receiver("blocked", "while") /\ on \notin opened
  /\ on' = null
  /\ UNCHANGED <<ui, clients, flags, wakes>>

(* ... and returns a datagram to hand to udpReceivingHandler.              *)
ReceiveReturns ==
  /\ Receiver("blocked", "handler") /\ on \in opened
  /\ on' = null
  /\ UNCHANGED <<ui, clients, flags, wakes>>

(* The handler blocks, and an interrupt is thrown there.                   *)
InterruptThrown == interrupted /\ interrupted' = FALSE

ReceiverSteps == While \/ Flag \/ WaitOne \/ Receive \/ ReceiveThrows
=============================================================================
