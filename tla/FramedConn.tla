---------------------------- MODULE FramedConn ------------------------------
(***************************************************************************)
(* One direction of a connection (net/conn.cpp): a Conn that sends, the    *)
(* socket, and a Conn that receives, with the service loops that call them *)
(* (Server::run, MpClient::poll).  What is sent is cut into pieces; a      *)
(* frame is a header piece, which tells its size, and the rest.            *)
(*                                                                         *)
(* The socket takes and gives as many pieces as it likes, keeps their      *)
(* order, and after the sender has hung up gives what it holds and then    *)
(* the end of the stream.  Resets and malformed lengths are left out.      *)
(***************************************************************************)
EXTENDS Naturals, Sequences, FiniteSets

CONSTANTS Sizes,         \* pieces of a frame
          SocketCap,     \* pieces the socket holds
          TxLimit,       \* kMaxTxBacklog
          TxCompactAt,   \* kCompactAt
          PassPieces,    \* kRecvPassBytes
          RxLimit,       \* kMaxRxBacklog
          RxCompactAt,   \* the dead prefix a poll leaves
          MaxFrames      \* bound: frames sent

(* A frame and a pass fit the receive buffer.                              *)
ASSUME FramedAssumption ==
  /\ Sizes \subseteq Nat \ {0} /\ \A n \in Sizes : n + PassPieces <= RxLimit + 2
  /\ {SocketCap, PassPieces, RxLimit} \subseteq Nat \ {0}
  /\ {TxLimit, TxCompactAt, RxCompactAt, MaxFrames} \subseteq Nat

VARIABLES frames,         \* history: the frames given to send
          txBuf, txOff,
          open,           \* the sender's socket is
          socket,         \* pieces under way
          rxBuf, rxOff,
          servicing,      \* the receiver is between recv and the end of the drain
          peerClosed,
          failed,         \* the receiver's recv returned false
          delivered       \* history: the frames given to onFrame

txVars == <<frames, txBuf, txOff, open>>
rxVars == <<rxBuf, rxOff, servicing, peerClosed, failed, delivered>>
framedVars == <<txVars, socket, rxVars>>

Piece(f, i, n) == [frame |-> f, part |-> i, size |-> n]
Unsent == SubSeq(txBuf, txOff + 1, Len(txBuf))
Unread == SubSeq(rxBuf, rxOff + 1, Len(rxBuf))

FramedInit ==
  /\ frames = <<>> /\ txBuf = <<>> /\ txOff = 0 /\ open = TRUE
  /\ socket = <<>>
  /\ rxBuf = <<>> /\ rxOff = 0 /\ servicing = FALSE /\ peerClosed = FALSE /\ failed = FALSE
  /\ delivered = <<>>

----------------------------------------------------------------------------
(* The sender.                                                             *)

SendFrame(n) ==
  /\ open /\ Len(frames) < MaxFrames /\ Len(Unsent) <= TxLimit
  /\ frames' = Append(frames, Len(frames) + 1)
  /\ txBuf' = txBuf \o [i \in 1..n |-> Piece(Len(frames) + 1, i, n)]
  /\ UNCHANGED <<txOff, open, socket, rxVars>>

(* The peer has stopped reading: the frame is not taken, and the caller    *)
(* drops the connection.                                                   *)
Overrun ==
  /\ open /\ Len(Unsent) > TxLimit
  /\ open' = FALSE
  /\ UNCHANGED <<frames, txBuf, txOff, socket, rxVars>>

(* The part that is on the wire is dropped when it is long, and more than  *)
(* half.  Mutant: the offset still counts what was dropped.                *)
Compacts == txOff >= TxCompactAt /\ txOff * 2 >= Len(txBuf)
AfterCompact_SameOffset == txOff
AfterCompact == 0

(* flushWrite: n pieces go before the socket is full.                      *)
Flush(n) ==
  LET buf == IF Compacts THEN Unsent ELSE txBuf
      off == (IF Compacts THEN AfterCompact ELSE txOff) + n
  IN /\ open /\ n <= SocketCap - Len(socket) /\ off <= Len(buf)
     /\ socket' = socket \o SubSeq(buf, off - n + 1, off)
     /\ txBuf' = (IF off = Len(buf) THEN <<>> ELSE buf)
     /\ txOff' = (IF off = Len(buf) THEN 0 ELSE off)
     /\ UNCHANGED <<frames, open, rxVars>>

SomeFlush == \E n \in 1..SocketCap : Flush(n)

(* closeNow, after one last flush or without.                              *)
Close ==
  /\ open /\ open' = FALSE
  /\ UNCHANGED <<frames, txBuf, txOff, socket, rxVars>>

----------------------------------------------------------------------------
(* The receiver's service pass: recv, then the frames that are whole, then *)
(* the end of the stream.                                                  *)

(* Mutant of AtEof: the end of the stream is an error like others.         *)
AtEof_Fails(eof) == failed' = eof /\ servicing' = ~eof /\ UNCHANGED peerClosed
AtEof(eof) == peerClosed' = eof /\ servicing' = TRUE /\ UNCHANGED failed

(* recv reads until nothing more has come, the stream ends, or the pass is *)
(* over.  It fails when more is unread than an honest peer leaves.         *)
Recv(n) ==
  /\ ~servicing /\ ~peerClosed /\ ~failed
  /\ n <= Len(socket) /\ n <= PassPieces /\ (n = 0 => ~open /\ socket = <<>>)
  /\ rxBuf' = rxBuf \o SubSeq(socket, 1, n)
  /\ socket' = SubSeq(socket, n + 1, Len(socket))
  /\ IF n < PassPieces /\ Len(Unread) + n > RxLimit
     THEN failed' = TRUE /\ UNCHANGED <<servicing, peerClosed>>
     ELSE AtEof(~open /\ n = Len(socket) /\ n < PassPieces)
  /\ UNCHANGED <<txVars, rxOff, delivered>>

Whole == Unread # <<>> /\ Unread[1].size <= Len(Unread)

(* poll, and onFrame with what it returns.                                 *)
Poll ==
  /\ servicing /\ Whole
  /\ delivered' = Append(delivered, Unread[1].frame)
  /\ LET off == rxOff + Unread[1].size
     IN IF off > RxCompactAt
        THEN rxBuf' = SubSeq(rxBuf, off + 1, Len(rxBuf)) /\ rxOff' = 0
        ELSE rxOff' = off /\ UNCHANGED rxBuf
  /\ UNCHANGED <<txVars, socket, servicing, peerClosed, failed>>

PassOver ==
  /\ servicing /\ ~Whole
  /\ servicing' = FALSE
  /\ UNCHANGED <<txVars, socket, rxBuf, rxOff, peerClosed, failed, delivered>>

SomeRecv == \E n \in 0..PassPieces : Recv(n)
ServicePass == SomeRecv \/ Poll \/ PassOver
FramedNext == (\E n \in Sizes : SendFrame(n)) \/ Overrun \/ SomeFlush \/ Close \/ ServicePass

(* The loops of both programs turn, and the socket takes what fits.        *)
FramedSpec ==
  /\ FramedInit /\ [][FramedNext]_framedVars
  /\ WF_framedVars(SomeFlush) /\ WF_framedVars(ServicePass)

----------------------------------------------------------------------------
(* A frame has left when no piece of it is waiting.                        *)
HasLeft == Len(frames) - Cardinality({Unsent[i].frame : i \in DOMAIN Unsent})

Link == INSTANCE FrameLink WITH sent <- frames, left <- HasLeft, got <- delivered, up <- open

(* Frames come out whole, in order and once, however they were cut up; and *)
(* what left the sender before it hung up comes out, the last ones too,    *)
(* that come together with the end of the stream (conn.cpp:136-143).       *)
ImplementsLink == Link!LinkSpec
=============================================================================
