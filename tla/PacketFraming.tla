---------------------------- MODULE PacketFraming ----------------------------
(***************************************************************************)
(* comm/packet.c: packets on a serial line (USB, UART). A frame is a start *)
(* byte that is also the length of the header, the payload's length in one *)
(* or two bytes, the payload, its CRC in two bytes, and the stop byte. The *)
(* receiver looks for frames at every offset of what it has received, as   *)
(* bytes are lost, damaged or inserted on the line, and its state is       *)
(* cleared when the port is started again.                                 *)
(*                                                                         *)
(* The numbers are scaled: a byte has Base values for 256 and the longest  *)
(* payload MaxPl for 512, so that both forms of the length occur. CRC      *)
(* bytes match the payload they are of and no other.                       *)
(***************************************************************************)
EXTENDS Integers, Sequences

CONSTANTS Packets,   \* the payloads that are sent
          Base,      \* values of a byte
          MaxPl,     \* PACKET_MAX_PL_LEN
          CrcBytes,  \* what the two CRC bytes look like
          Noise,     \* what damaged and inserted bytes look like
          MaxSent, MaxHarm,   \* bounds of the packets and of the damages
          None

ASSUME BaseAssumption == Base \in Nat /\ Base > 3   \* the stop byte is a byte
ASSUME PacketsAssumption == Packets \subseteq Seq(0..Base - 1)
ASSUME BytesAssumption == /\ CrcBytes \in Seq(0..Base - 1) /\ Len(CrcBytes) = 2
                          /\ Noise \subseteq 0..Base - 1
ASSUME NoneAssumption == None \notin Seq(Nat) \X {1, 2}
ASSUME BoundsAssumption == MaxPl \in Nat /\ MaxSent \in Nat /\ MaxHarm \in Nat

BufferLen == MaxPl + 8

VARIABLES
  rx,     \* rx_buffer from rx_read_ptr to rx_write_ptr
  read,   \* rx_read_ptr
  left,   \* bytes_left
  wire,   \* the bytes on the line
  sent, last, got,   \* as in PacketChannel
  harm,   \* damages so far
  run,    \* packet and place of the last byte, if all before it arrived unharmed
  due     \* packets that arrived whole and have not been delivered

vars == <<rx, read, left, wire, sent, last, got, harm, run, due>>

Init ==
  /\ rx = <<>> /\ read = 0 /\ left = 0
  /\ wire = <<>>
  /\ sent = <<>> /\ last = 0 /\ got = <<>>
  /\ harm = 0 /\ run = <<0, 0>> /\ due = {}

-----------------------------------------------------------------------------
(* packet_send_packet *)

\* The header tells how long itself is: 2 and a byte, or 3 and two bytes.
Header(p) == IF Len(p) < Base THEN <<2, Len(p)>>
             ELSE <<3, Len(p) \div Base, Len(p) % Base>>

\* The k-th packet on the line. A byte is its value, the payload whose CRC it is
\* part of, and where it was sent.
Frame(p, k) ==
  LET values == Header(p) \o p \o CrcBytes \o <<3>>
      crc(i) == i - Len(Header(p) \o p)
  IN  [i \in DOMAIN values |->
        [val |-> values[i],
         of  |-> IF crc(i) \in 1..2 THEN <<p, crc(i)>> ELSE None,
         id  |-> <<k, i>>]]

Sendable(p) == Len(p) \in 1..MaxPl

Send(p) ==
  /\ wire = <<>>
  /\ Len(sent) < MaxSent
  /\ sent' = Append(sent, p)
  /\ wire' = IF Sendable(p) THEN Frame(p, Len(sent) + 1) ELSE <<>>
  /\ got' = <<>>
  /\ UNCHANGED <<rx, read, left, last, harm, run, due>>

-----------------------------------------------------------------------------
(* The line *)

Stray(v) == [val |-> v, of |-> None, id |-> <<0, 0>>]

Damage(bytes) ==
  /\ harm < MaxHarm
  /\ harm' = harm + 1
  /\ wire' = bytes
  /\ got' = <<>>
  /\ UNCHANGED <<rx, read, left, sent, last, run, due>>

Lose == wire # <<>> /\ Damage(Tail(wire))
Garble(v) == wire # <<>> /\ v # Head(wire).val /\ Damage(<<Stray(v)>> \o Tail(wire))
Insert(v) == Damage(<<Stray(v)>> \o wire)

-----------------------------------------------------------------------------
(* try_decode_packet: what is found at offset n of the bytes buf *)

\* res is the number of bytes decoded, or -1 when there is no packet here, or -2
\* when it takes more bytes to tell.
Invalid == [res |-> -1, left |-> 0]
More(n) == [res |-> -2, left |-> n]

\* Mutant: the limit of the payload dropped.
HeaderFitsAny(start, len) == (start = 2 => len >= 1) /\ (start = 3 => len >= Base - 1)
HeaderFits(start, len) ==
  /\ start = 2 => len >= 1
  /\ start = 3 => len >= Base - 1
  /\ len <= MaxPl

\* Mutant: one byte too many is waited for.
MissingLong(start, len, in) == len + start + 4 - in
Missing(start, len, in) == len + start + 3 - in

\* Mutant: the CRC is not looked at.
CrcUnchecked(buf, n, p) == TRUE
CrcMatches(buf, n, p) == buf[n + 1].of = <<p, 1>> /\ buf[n + 2].of = <<p, 2>>

\* The payload behind a header of start bytes.
Payload(buf, n, start, len) == [i \in 1..len |-> buf[n + start + i].val]

TryDecode(buf, n) ==
  LET in == Len(buf) - n
      start == buf[n + 1].val
      len == IF start = 2 THEN buf[n + 2].val ELSE buf[n + 2].val * Base + buf[n + 3].val
      payload == Payload(buf, n, start, len)
      end == n + start + len
  IN  CASE in = 0                            -> More(1)
        [] in > 0 /\ start \notin {2, 3}     -> Invalid
        [] in > 0 /\ start \in {2, 3} /\ in < start -> More(start - in)
        [] OTHER ->
             CASE ~HeaderFits(start, len)  -> Invalid
               [] HeaderFits(start, len) /\ Missing(start, len, in) > 0 ->
                    More(Missing(start, len, in))
               [] OTHER ->
                    IF buf[end + 3].val = 3 /\ CrcMatches(buf, end, payload)
                    THEN [res |-> start + len + 3, left |-> 0, pkt |-> payload,
                          id |-> buf[end + 1].id[1], stop |-> buf[end + 3].id]
                    ELSE Invalid

-----------------------------------------------------------------------------
(* packet_process_byte *)

\* Mutant: what looked like a packet is skipped as a whole.
SkipAll(buf, n) == Len(buf) - n
Skip(buf, n) == 1

\* The loop from offset n on, from standing for the rest of it. With restart, the
\* first packet that is processed has packet_init clear the state: the loop goes on
\* over zeroes, in which no packet starts.
Found(buf, restart, n, from) ==
  LET t == TryDecode(buf, n)
  IN  CASE t.res = -2 -> [at |-> n, left |-> t.left, pkts |-> <<>>]
        [] t.res = -1 -> from[n + Skip(buf, n)]
        [] t.res > 0 /\ restart -> [at |-> Len(buf), left |-> 1, pkts |-> <<t>>]
        [] OTHER -> LET rest == from[n + t.res]
                    IN  [rest EXCEPT !.pkts = <<t>> \o @]

Loop(buf, restart) ==
  LET from[n \in 0..Len(buf)] == Found(buf, restart, n, from) IN from

Decode(buf, restart) == Loop(buf, restart)[0]

\* Mutant: rx_read_ptr is kept when the bytes are moved to the front.
ShiftedKeep == read
Shifted == IF read + Len(rx) >= BufferLen THEN 0 ELSE read

\* The start byte of a long frame is 3, as the stop byte: it completes the packet
\* before it when that has lost its own.
Eaten(pkts) == {k \in DOMAIN sent : \E i \in DOMAIN pkts : pkts[i].stop = <<k, 1>>}

Took(b, pkts) ==
  LET now == IF b.id[2] = 1 \/ b.id = <<run[1], run[2] + 1>> THEN b.id ELSE <<0, 0>>
      whole == {k \in DOMAIN sent : Sendable(sent[k]) /\ now = <<k, Len(Frame(sent[k], k))>>}
  IN  /\ run' = IF now[1] \in Eaten(pkts) THEN <<0, 0>> ELSE now
      /\ got' = [i \in DOMAIN pkts |-> pkts[i].pkt]
      /\ last' = IF pkts = <<>> THEN last ELSE pkts[Len(pkts)].id
      /\ due' = (due \cup whole) \ ({pkts[i].id : i \in DOMAIN pkts} \cup Eaten(pkts))

Wait(b) ==
  /\ Len(rx) < BufferLen /\ left > 1
  /\ rx' = Append(rx, b) /\ read' = Shifted /\ left' = left - 1
  /\ Took(b, <<>>)

\* The first case is "out of space (should not happen)".
Look(b) ==
  LET buf == Append(rx, b)
      d == Decode(buf, FALSE)
  IN  /\ Len(rx) >= BufferLen \/ left <= 1
      /\ IF Len(rx) >= BufferLen
         THEN rx' = <<b>> /\ read' = 0 /\ left' = 0 /\ Took(b, <<>>)
         ELSE /\ rx' = SubSeq(buf, d.at + 1, Len(buf))
              /\ read' = IF d.at = Len(buf) THEN 0 ELSE Shifted + d.at
              /\ left' = d.left
              /\ Took(b, d.pkts)

ProcessByte ==
  /\ wire # <<>>
  /\ wire' = Tail(wire)
  /\ Wait(Head(wire)) \/ Look(Head(wire))
  /\ UNCHANGED <<sent, harm>>

\* A restart of the port (app_uartcomm_start) is a damage too: what the buffer
\* holds is not due any more. It comes between two bytes, by another thread, or
\* from the packet that is processed, a new application configuration.
Restarted ==
  /\ harm < MaxHarm
  /\ harm' = harm + 1
  /\ rx' = <<>> /\ read' = 0
  /\ run' = <<0, 0>> /\ due' = {}
  /\ UNCHANGED sent

Restart ==
  /\ Restarted
  /\ left' = 0
  /\ got' = <<>>
  /\ UNCHANGED <<wire, last>>

ProcessRestart ==
  LET d == Decode(Append(rx, Head(wire)), TRUE)
  IN  /\ wire # <<>>
      /\ Len(rx) < BufferLen /\ left <= 1
      /\ d.pkts # <<>>
      /\ Restarted
      /\ wire' = Tail(wire)
      /\ left' = d.left
      /\ got' = <<d.pkts[1].pkt>>
      /\ last' = d.pkts[1].id

-----------------------------------------------------------------------------
Next ==
  \/ \E p \in Packets : Send(p)
  \/ ProcessByte
  \/ Lose
  \/ \E v \in Noise : Garble(v) \/ Insert(v)
  \/ Restart
  \/ ProcessRestart

Spec == Init /\ [][Next]_vars

-----------------------------------------------------------------------------
\* Every variable keeps its type; what is received stays within rx_buffer.
TypeOK ==
  /\ Len(rx) \in 0..BufferLen /\ read + Len(rx) <= BufferLen /\ left \in 0..BufferLen
  /\ sent \in Seq(Packets) /\ Len(sent) <= MaxSent
  /\ last \in 0..Len(sent)
  /\ harm \in 0..MaxHarm
  /\ due \subseteq 1..Len(sent)

\* However bytes are lost, damaged or inserted and the port started again, the
\* receiver only processes what was sent, in order and once.
Channel == INSTANCE PacketChannel
ImplementsChannel == Channel!Spec

\* A packet all of whose bytes arrived is never skipped: bytes before it that look
\* like the start of another packet may delay it, and then it is whole in the
\* buffer still. As the buffer has less than BufferLen bytes, the delay is bounded.
\* The exception is a long packet whose start byte was taken for the stop byte that
\* the packet before it lost (Eaten): one damage then costs it. There have to be fewer
\* damages than the shortest frame has bytes: with more, a frame on the line can stand
\* in for lost payload of the next one and is swallowed with it.
ShortestFrame == 6
NoneSkipped ==
  harm < ShortestFrame =>
    \A k \in due : \E i \in 0..Len(rx) :
      LET frame == Frame(sent[k], k)
      IN  i + Len(frame) <= Len(rx) /\ SubSeq(rx, i + 1, i + Len(frame)) = frame

\* "Out of space (should not happen)": no header makes the receiver wait for more
\* than fits the buffer.
NeverOutOfSpace == Len(rx) < BufferLen

\* On an undamaged line each packet is processed with its last byte.
PromptWhenClean == harm = 0 => due = {} /\ (wire = <<>> => rx = <<>>)
=============================================================================
