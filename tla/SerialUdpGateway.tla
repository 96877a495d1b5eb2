--------------------------- MODULE SerialUdpGateway ---------------------------
(***************************************************************************)
(* EasylabSerialUDPGateway.cs: the form that joins a serial port of an     *)
(* Easylab board and UDP.  Its thread opens and closes the port and the    *)
(* UDP clients (UdpCommunicator) as the user or a reset message asks;      *)
(* bytes of the port are parsed (StreamParser) and sent by UDP in the      *)
(* port's event handler; datagrams are encoded and written to the port in  *)
(* the receiving thread.  The board is on one serial line, which one       *)
(* SerialPort at a time can have open.                                     *)
(***************************************************************************)
EXTENDS UdpCommunicator, StreamParser

CONSTANTS
  Ports,       \* names of SerialPort objects; null is 0
  Script,      \* what the board sends
  Datagrams,   \* what a UDP peer sends: sequences of chunks
  Budget       \* bound on the clicks and reset messages

ASSUME SerialAssumption ==
  /\ Script \in Seq(Byte) /\ Budget \in Nat
  /\ Ports \subseteq Nat \ {0}
  /\ \A a, b \in Ports \cup {0} : \E p \in Ports : p \notin {a, b}
  /\ \A d \in Datagrams :
       d \in Seq(Seq(Byte)) /\ \A i \in DOMAIN d : Len(d[i]) = FLOATS + 1

VARIABLES
  CommPort, openPorts,      \* the port of the form, and those that are open
  unclosed,                 \* history: the ports whose Close has thrown
  DisconnectEnabled,        \* of DisconnectButton; ConnectButton's is not
  next, received,           \* the board's next byte, the bytes in the port
  stream,                   \* the bytes that the parser was given
  RemainingBytes,           \* of the parser
  batch, handed, unsent,    \* the floats that the event handler has still to
                            \* hand to Send, those that it has handed over,
                            \* and why some of them were not sent
  LocalPort, packets,       \* of udpReceivingHandler
  echo,                     \* the packet just written, and its chunk
  budget

port   == <<CommPort, openPorts, unclosed, DisconnectEnabled>>
handler == <<batch, handed, unsent>>
serial == <<next, received, stream, RemainingBytes, handler>>
echoing == <<LocalPort, packets, echo>>
serialVars == <<ui, communicator, port, serial, echoing, budget>>

NoEcho == [packet |-> <<>>, of |-> <<>>]

SerialInit ==
  /\ CommunicatorInit /\ ui = <<>>
  /\ CommPort = null /\ openPorts = {} /\ unclosed = {} /\ DisconnectEnabled = FALSE
  /\ next = 1 /\ received = <<>> /\ stream = <<>>
  /\ RemainingBytes = <<>> /\ batch = <<>> /\ handed = <<>> /\ unsent = {}
  /\ LocalPort = null /\ packets = <<>> /\ echo = NoEcho
  /\ budget = Budget

-----------------------------------------------------------------------------
(* What the form's thread is asked to do.                                  *)
FormConnect    == <<"new_port", "connect", "open_port">>
FormDisconnect ==
  IF DisconnectEnabled THEN <<"close_port", "null_port">> \o DisconnectSteps ELSE <<>>

Asked(steps) ==
  /\ ui = <<>> /\ ~ReceivingClosed /\ ui' = steps
  /\ UNCHANGED <<communicator, port, serial, echoing>>

Bounded == budget > 0 /\ budget' = budget - 1

ConnectButton_Click ==
  /\ ~DisconnectEnabled /\ CommPort \notin openPorts
  /\ Asked(FormConnect) /\ Bounded

DisconnectButton_Click ==
  /\ DisconnectEnabled
  /\ Asked(FormDisconnect \o <<"buttons">>) /\ Bounded

(* WndProc: the reset message connects a form that was not, too.           *)
ResetMessage == Asked(FormDisconnect \o FormConnect) /\ Bounded

FormClosing == Asked(FormDisconnect \o CloseSteps) /\ UNCHANGED budget

-----------------------------------------------------------------------------
(* The steps of Connect and Disconnect that are the form's own.            *)
NewPort ==
  /\ Doing("new_port") /\ Done
  /\ CommPort' = CHOOSE p \in Ports : p \notin openPorts \cup {LocalPort}
  /\ UNCHANGED <<communicator, openPorts, unclosed, DisconnectEnabled, serial, echoing,
                 budget>>

(* Open may throw, with the UDP clients open already, and does if the line *)
(* is still held by an earlier port.                                       *)
OpenPort ==
  /\ Doing("open_port") /\ Done
  /\ \/ openPorts = {} /\ openPorts' = {CommPort} /\ DisconnectEnabled' = TRUE
     \/ UNCHANGED <<openPorts, DisconnectEnabled>>
  /\ UNCHANGED <<communicator, CommPort, unclosed, serial, echoing, budget>>

(* An open port's Close waits for its event handler; or it throws, and the *)
(* port stays open.                                                        *)
ClosePort ==
  /\ Doing("close_port") /\ Done
  /\ \/ CommPort \notin openPorts /\ UNCHANGED <<openPorts, unclosed, received>>
     \/ /\ CommPort \in openPorts /\ batch = <<>>
        /\ openPorts' = openPorts \ {CommPort} /\ received' = <<>> /\ UNCHANGED unclosed
     \/ /\ CommPort \in openPorts /\ unclosed' = unclosed \cup {CommPort}
        /\ UNCHANGED <<openPorts, received>>
  /\ UNCHANGED <<communicator, CommPort, DisconnectEnabled, next, stream,
                 RemainingBytes, handler, echoing, budget>>

(* ... whatever became of Close.                                           *)
NullPort ==
  /\ Doing("null_port") /\ Done
  /\ CommPort' = null
  /\ UNCHANGED <<communicator, openPorts, unclosed, DisconnectEnabled, serial, echoing,
                 budget>>

Buttons ==
  /\ Doing("buttons") /\ Done
  /\ DisconnectEnabled' = FALSE
  /\ UNCHANGED <<communicator, CommPort, openPorts, unclosed, serial, echoing, budget>>

Form ==
  \/ CallerSteps /\ UNCHANGED <<port, serial, echoing, budget>>
  \/ NewPort \/ OpenPort \/ ClosePort \/ NullPort \/ Buttons

User == ConnectButton_Click \/ DisconnectButton_Click \/ ResetMessage \/ FormClosing

-----------------------------------------------------------------------------
(* From the board to UDP.                                                  *)

(* Bytes that come while the port is closed are lost.                      *)
BoardSends ==
  /\ next <= Len(Script) /\ next' = next + 1
  /\ received' = IF openPorts # {} THEN Append(received, Script[next]) ELSE received
  /\ UNCHANGED <<ui, communicator, port, stream, RemainingBytes, handler, echoing, budget>>

(* The handler reads all that its port holds and parses it; it reads by    *)
(* the field, and throws if that refers to the port no more.               *)
commPort_DataReceived ==
  /\ CommPort \in openPorts /\ received # <<>> /\ batch = <<>>
  /\ received' = <<>> /\ stream' = stream \o received
  /\ LET parsed == ParseBytes(RemainingBytes, received)
     IN  RemainingBytes' = parsed.remaining /\ batch' = parsed.floats
  /\ UNCHANGED <<ui, communicator, port, next, handed, unsent, echoing, budget>>

(* UdpCommunicator.Send drops the packet without a client, and may throw   *)
(* with one.                                                               *)
Send ==
  \/ udpSendingClient # null /\ UNCHANGED unsent
  \/ unsent' = unsent \cup {IF udpSendingClient = null THEN "no client" ELSE "threw"}

(* ... and then sends the packets, one by one, whatever becomes of each.   *)
SendPackets ==
  /\ batch # <<>>
  /\ batch' = Tail(batch) /\ handed' = Append(handed, Head(batch))
  /\ Send
  /\ UNCHANGED <<ui, communicator, port, next, received, stream, RemainingBytes, echoing,
                 budget>>

-----------------------------------------------------------------------------
(* From UDP to the board: udpReceivingHandler.                             *)
DatagramArrives ==
  /\ ReceiveReturns
  /\ \E d \in Datagrams : packets' = [i \in DOMAIN d |-> [packet |-> EncodeBytes(d)[i],
                                                          of |-> d[i]]]
  /\ LocalPort' = CommPort
  /\ UNCHANGED <<port, serial, echo, budget>>

(* ... the test of LocalPort.IsOpen before each packet,                    *)
TestPort ==
  /\ LET goesOn == LocalPort \in openPorts /\ packets # <<>>
     IN  /\ Receiver("handler", IF goesOn THEN "write" ELSE "while")
         /\ packets' = IF goesOn THEN packets ELSE <<>>
         /\ LocalPort' = IF goesOn THEN LocalPort ELSE null
         /\ echo' = IF goesOn THEN echo ELSE NoEcho
  /\ UNCHANGED <<ui, clients, flags, wakes, on, port, serial, budget>>

(* ... and the Write, to the field CommPort.  It throws if that is null or *)
(* not open by now, or if the thread is interrupted in it.                 *)
WritePacket ==
  /\ Receiver("write", "handler") /\ packets' = Tail(packets)
  /\ \/ CommPort \in openPorts /\ echo' = Head(packets) /\ UNCHANGED interrupted
     \/ CommPort \notin openPorts /\ UNCHANGED <<echo, interrupted>>
     \/ InterruptThrown /\ UNCHANGED echo
  /\ UNCHANGED <<ui, clients, flags, ResumeReceiving, on, port, serial, LocalPort, budget>>

ReceivingThread ==
  \/ ReceiverSteps /\ UNCHANGED <<port, serial, echoing, budget>>
  \/ TestPort \/ WritePacket

SerialNext ==
  \/ Form \/ User \/ BoardSends \/ commPort_DataReceived \/ SendPackets
  \/ DatagramArrives \/ ReceivingThread

(* The two threads run; the user, the board and the peer need not act.     *)
SerialSpec ==
  /\ SerialInit /\ [][SerialNext]_serialVars
  /\ WF_serialVars(Form) /\ WF_serialVars(ReceivingThread)

-----------------------------------------------------------------------------
(* From the board to UDP: the floats handed over for sending are those of  *)
(* the packets in the stream that the parser was given, none lost and none *)
(* made up, wherever the port cut the stream and however often it was      *)
(* closed and opened in the middle of a packet.  And a Send that threw is  *)
(* the only reason why one was not sent, as long as every Connect got its  *)
(* sending client and no Close of a port has thrown: without a client the  *)
(* port is opened all the same, and a Close that throws does not wait for  *)
(* the handler.                                                            *)
SerialToUdp ==
  /\ Says(stream, handed \o batch)
  /\ ~refused /\ unclosed = {} => unsent \subseteq {"threw"}

(* From UDP to the board: the checksum that EncodeBytes computes covers a  *)
(* byte more than the packet carries, so that a reader like ParseBytes     *)
(* understands a packet exactly if that byte of its chunk is zero.         *)
UdpToSerial ==
  echo # NoEcho =>
    (ParseBytes(<<>>, echo.packet).floats = <<SubSeq(echo.of, 1, FLOATS)>>
       <=> echo.of[FLOATS + 1] = 0)

(* Whatever fails in a Connect, every open client is held by its field and *)
(* every open port by its own, but those whose Close threw, which Disconnect *)
(* forgets; a port that is held can be closed by its button, and nothing   *)
(* else is open once the form is closed.                                   *)
NothingLeaks ==
  /\ opened \subseteq {udpSendingClient, udpReceivingClient}
  /\ openPorts \subseteq {CommPort} \cup unclosed
  /\ CommPort \in openPorts \ unclosed => DisconnectEnabled
  /\ ReceivingClosed => opened = {} /\ openPorts \subseteq unclosed

(* The receiving thread follows the form: it comes to receive on the       *)
(* client of the last Connect, though the old one was closed under it and  *)
(* an interrupt may reach it late, and Close does not wait for ever.       *)
ThreadFollows ==
  /\ ui = <<>> /\ udpReceivingClient # null
       ~> ui # <<>> \/ (receiver = "blocked" /\ on = udpReceivingClient)
  /\ Doing("join") ~> ReceivingClosed
=============================================================================
