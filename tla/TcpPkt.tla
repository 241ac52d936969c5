------------------------------- MODULE TcpPkt -------------------------------
(***************************************************************************)
(* Messages over a TCP stream, tcppkt.C: used between the monitoring       *)
(* programs and the daemon, and between the simulator and its routers.  A  *)
(* message is a header of HdrLen bytes that names its length, and a body.  *)
(* The stream delivers bytes, as many at a time as it likes.               *)
(*                                                                         *)
(* A byte is named by its message and its place in it.                     *)
(***************************************************************************)
EXTENDS Integers, SequencesExt

CONSTANTS
  HdrLen,      \* sizeof(TcpPktHdr)
  BodyLens,    \* lengths of bodies
  MaxMsgs,     \* bound: messages
  Partial      \* whether send() may take a part of what it is given

ASSUME TcpPktAssumption ==
  HdrLen \in Nat \ {0} /\ BodyLens \subseteq Nat /\ MaxMsgs \in Nat /\ Partial \in BOOLEAN

VARIABLES
  queue,       \* xmt_head: the messages to be sent
  xmt_done,    \* bytes of its first message that were sent
  stream,      \* bytes on their way
  rcvbuff,     \* the part of a message that was received
  got,         \* the messages that were received, as their bytes
  sent         \* the messages that were queued

tcpVars == <<queue, xmt_done, stream, rcvbuff, got, sent>>

Byte(m, i)  == [msg |-> m.no, at |-> i, len |-> m.len]
BytesOf(m)  == [i \in 1..m.len |-> Byte(m, i)]
SomeByte(m) == [msg |-> m.no, at |-> 0, len |-> 0]      \* memory before the body

queue_xpkt(len) ==
  /\ Len(sent) < MaxMsgs
  /\ LET m == [no |-> Len(sent) + 1, len |-> HdrLen + len]
     IN  queue' = Append(queue, m) /\ sent' = Append(sent, m)
  /\ UNCHANGED <<xmt_done, stream, rcvbuff, got>>

sendpkt_DoneAtOnce(n) ==
  LET m       == Head(queue)
      hdr     == xmt_done < HdrLen
      to_send == IF hdr THEN HdrLen - xmt_done ELSE m.len - xmt_done
  IN  /\ queue # <<>> /\ n \in 0..to_send
      /\ to_send > 0 => n > 0 /\ (Partial \/ n = to_send)
      /\ stream' = stream \o [i \in 1..n |-> Byte(m, xmt_done + i)]
      /\ IF n = to_send THEN queue' = Tail(queue) /\ xmt_done' = 0
         ELSE xmt_done' = xmt_done + n /\ UNCHANGED queue
      /\ UNCHANGED <<rcvbuff, got, sent>>

(* The header first, then the body in a call of its own.  What is left of  *)
(* a body is looked for before the body instead of behind what was sent.   *)
sendpkt(n) ==
  LET m       == Head(queue)
      hdr     == xmt_done < HdrLen
      to_send == IF hdr THEN HdrLen - xmt_done ELSE m.len - xmt_done
      data(i) == IF hdr \/ xmt_done = HdrLen THEN Byte(m, xmt_done + i)
                 ELSE IF i <= xmt_done - HdrLen THEN SomeByte(m)
                 ELSE Byte(m, HdrLen + i - (xmt_done - HdrLen))
  IN  /\ queue # <<>> /\ n \in 0..to_send
      /\ to_send > 0 => n > 0 /\ (Partial \/ n = to_send)
      /\ stream' = stream \o [i \in 1..n |-> data(i)]
      /\ IF ~hdr /\ n = to_send THEN queue' = Tail(queue) /\ xmt_done' = 0
         ELSE xmt_done' = xmt_done + n /\ UNCHANGED queue
      /\ UNCHANGED <<rcvbuff, got, sent>>

(* A message that is sent at once, unless another one is under way: it     *)
(* overtakes those that are queued.                                        *)
sendpkt_suspend(len) ==
  /\ Len(sent) < MaxMsgs
  /\ xmt_done = 0
  /\ LET m == [no |-> Len(sent) + 1, len |-> HdrLen + len]
     IN  stream' = stream \o BytesOf(m) /\ sent' = Append(sent, m)
  /\ UNCHANGED <<queue, xmt_done, rcvbuff, got>>

(* One recv(): the rest of the header at most, or the rest of the message. *)
receive(n) ==
  LET offset == Len(rcvbuff)
      target == IF offset < HdrLen THEN HdrLen - offset ELSE rcvbuff[1].len - offset
      buff   == rcvbuff \o SubSeq(stream, 1, n)
  IN  /\ n \in 1..Len(stream) /\ n <= target
      /\ stream' = SubSeq(stream, n + 1, Len(stream))
      /\ IF Len(buff) >= HdrLen /\ Len(buff) = buff[1].len
         THEN got' = Append(got, buff) /\ rcvbuff' = <<>>
         ELSE rcvbuff' = buff /\ UNCHANGED got
      /\ UNCHANGED <<queue, xmt_done, sent>>

StreamInit ==
  /\ queue = <<>> /\ xmt_done = 0 /\ stream = <<>>
  /\ rcvbuff = <<>> /\ got = <<>> /\ sent = <<>>

MaxLen == HdrLen + Max(BodyLens \cup {0})

StreamNext ==
  \/ \E len \in BodyLens : queue_xpkt(len) \/ sendpkt_suspend(len)
  \/ \E n \in 0..MaxLen : sendpkt(n) \/ receive(n)

StreamSpec == StreamInit /\ [][StreamNext]_tcpVars

(* The receiver gets every message that was sent, whole and once, however  *)
(* the stream cuts them and in whatever parts they were handed to it:      *)
(* "Send all or part of the "head" packet onto the TCP stream"             *)
(* (tcppkt.C:170).                                                         *)
MessagesIntact ==
  /\ \A k \in DOMAIN got : got[k] = BytesOf(sent[got[k][1].msg])
  /\ \A j, k \in DOMAIN got : got[j] = got[k] => j = k
  /\ queue = <<>> /\ stream = <<>> => Len(got) = Len(sent) /\ rcvbuff = <<>>
=============================================================================
