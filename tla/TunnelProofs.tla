---------------------------- MODULE TunnelProofs ----------------------------
(***************************************************************************)
(* Two parts of tunnel.go that share no state.                             *)
(*                                                                         *)
(* The byte stream of a Conn for payloads and reads of any size and a      *)
(* dataCh of any capacity: the invariant follows the bytes through the     *)
(* reader's hand, dataCh, readBuf and the slices Read has returned.        *)
(*                                                                         *)
(* The watchdog for every timeout, limit and length of run: the stall      *)
(* clock is compared with the ghost lastProgress; it starts at most one    *)
(* period after the last report of progress and never before it.           *)
(***************************************************************************)
EXTENDS ConnStream, Watchdog, SequenceTheorems, TLAPS

-----------------------------------------------------------------------------
(* The stream *)

(* The payloads of q hold the bytes first + 1 .. last in order; the j-th   *)
(* follows the byte s[j].                                                  *)
Chain(q, s, first, last) ==
    /\ s \in [1..Len(q) + 1 -> Nat]
    /\ s[1] = first
    /\ s[Len(q) + 1] = last
    /\ \A j \in 1..Len(q) :
           /\ s[j + 1] = s[j] + Len(q[j])
           /\ \A i \in 1..Len(q[j]) : q[j][i] = s[j] + i

(* Returned bytes, readBuf and dataCh follow each other. *)
Queued ==
    /\ NoHole
    /\ \A i \in 1..Len(readBuf) : readBuf[i] = Len(out) + i
    /\ \E s : Chain(dataCh, s, Len(out) + Len(readBuf), accepted)

(* The reader has in hand what comes after the queued bytes. *)
InHand ==
    /\ accepted <= arrived
    /\ readerPc = "deliver" =>
           /\ arrived = accepted + Len(payload)
           /\ \A i \in 1..Len(payload) : payload[i] = accepted + i
    /\ inRealms /\ readerPc = "idle" => arrived = accepted

(* A Conn the reader closed has left the map, so dataCh only gets shorter. *)
Closing ==
    /\ pc \in {"drain", "select"} => readBuf = <<>>
    /\ pc = "drain" => closed
    /\ readerPc \in {"signal", "closeCh"} => ~inRealms
    /\ closed => closerPc # "idle" \/ (~inRealms /\ readerPc \in {"idle", "closeCh"})
    /\ eof => closed /\ (closerPc = "idle" => dataCh = <<>> /\ readBuf = <<>>)

StreamInv == TypeOK /\ Queued /\ InHand /\ Closing

USE StreamAssumption DEF Bytes, Deadlines, conn, deadline, producer

(* Queueing the next payload extends the chain. *)
LEMMA ChainAppend ==
    ASSUME NEW q \in Seq(Seq(Bytes)), NEW p \in Seq(Bytes), NEW s,
           NEW first \in Nat, NEW last \in Nat, Chain(q, s, first, last),
           \A i \in 1..Len(p) : p[i] = last + i
    PROVE  \E t : Chain(Append(q, p), t, first, last + Len(p))
<1> DEFINE t == [j \in 1..Len(q) + 2 |-> IF j <= Len(q) + 1 THEN s[j] ELSE last + Len(p)]
<1>1. Len(Append(q, p)) = Len(q) + 1 /\ Len(q) \in Nat /\ Len(p) \in Nat
  OBVIOUS
<1>2. t \in [1..Len(Append(q, p)) + 1 -> Nat]
  BY <1>1 DEF Chain
<1>3. t[1] = first /\ t[Len(Append(q, p)) + 1] = last + Len(p)
  BY <1>1 DEF Chain
<1>4. ASSUME NEW j \in 1..Len(Append(q, p))
      PROVE  /\ t[j + 1] = t[j] + Len(Append(q, p)[j])
             /\ \A i \in 1..Len(Append(q, p)[j]) : Append(q, p)[j][i] = t[j] + i
  <2>1. CASE j <= Len(q)
    BY <1>1, <2>1, SMTT(30) DEF Chain
  <2>2. CASE j = Len(q) + 1
    BY <1>1, <2>2 DEF Chain
  <2>3. j <= Len(q) \/ j = Len(q) + 1
    BY <1>1
  <2> QED
    BY <2>1, <2>2, <2>3, Zenon
<1> HIDE DEF t
<1>5. Chain(Append(q, p), t, first, last + Len(p))
  BY <1>2, <1>3, <1>4, Zenon DEF Chain
<1> QED
  BY <1>5

(* Taking the first payload shortens the chain by its bytes. *)
LEMMA ChainTail ==
    ASSUME NEW q \in Seq(Seq(Bytes)), q # <<>>, NEW s,
           NEW first \in Nat, NEW last \in Nat, Chain(q, s, first, last)
    PROVE  /\ \E t : Chain(Tail(q), t, first + Len(Head(q)), last)
           /\ \A i \in 1..Len(Head(q)) : Head(q)[i] = first + i
           /\ Head(q) \in Seq(Bytes) /\ Tail(q) \in Seq(Seq(Bytes))
<1> DEFINE t == [j \in 1..Len(q) |-> s[j + 1]]
<1>1. /\ Len(q) \in Nat \ {0} /\ Len(Tail(q)) = Len(q) - 1 /\ Head(q) = q[1]
      /\ q[1] \in Seq(Bytes) /\ Tail(q) \in Seq(Seq(Bytes))
      /\ \A j \in 1..Len(Tail(q)) : Tail(q)[j] = q[j + 1]
  OBVIOUS
<1>2. t \in [1..Len(Tail(q)) + 1 -> Nat]
  BY <1>1 DEF Chain
<1>3. t[1] = first + Len(Head(q)) /\ t[Len(Tail(q)) + 1] = last
  <2>1. 1 \in 1..Len(q) /\ t[1] = s[1 + 1] /\ t[Len(q)] = s[Len(q) + 1]
    BY <1>1
  <2>2. s[1 + 1] = s[1] + Len(q[1]) /\ s[1] = first /\ s[Len(q) + 1] = last
    BY <2>1 DEF Chain
  <2>3. Len(Tail(q)) + 1 = Len(q)
    BY <1>1
  <2> QED
    BY <1>1, <2>1, <2>2, <2>3, Zenon
<1>4. ASSUME NEW j \in 1..Len(Tail(q))
      PROVE  /\ t[j + 1] = t[j] + Len(Tail(q)[j])
             /\ \A i \in 1..Len(Tail(q)[j]) : Tail(q)[j][i] = t[j] + i
  BY <1>1 DEF Chain
<1>5. \A i \in 1..Len(Head(q)) : Head(q)[i] = first + i
  BY <1>1 DEF Chain
<1> HIDE DEF t
<1>6. Chain(Tail(q), t, first + Len(Head(q)), last)
  BY <1>2, <1>3, <1>4, Zenon DEF Chain
<1> QED
  BY <1>1, <1>5, <1>6

(* readData: what Read returns and what it keeps continue the stream. *)
LEMMA DataReturned ==
    ASSUME TypeOK, NoHole, NEW data \in Seq(Bytes), ReturnData(data),
           \A i \in 1..Len(data) : data[i] = Len(out) + i
    PROVE  /\ out' \in Seq(Bytes) /\ readBuf' \in Seq(Bytes) /\ NoHole'
           /\ \A i \in 1..Len(readBuf') : readBuf'[i] = Len(out') + i
           /\ Len(out') + Len(readBuf') = Len(out) + Len(data)
           /\ pc' = "idle" /\ size' = 0 /\ seen' = "none" /\ changed' = FALSE
<1> DEFINE n == IF Len(data) < size THEN Len(data) ELSE size
<1>1. n \in 0..Len(data) /\ Len(data) \in Nat /\ Len(out) \in Nat
  BY DEF TypeOK
<1>2. /\ out' = out \o SubSeq(data, 1, n) /\ readBuf' = SubSeq(data, n + 1, Len(data))
      /\ pc' = "idle" /\ size' = 0 /\ seen' = "none" /\ changed' = FALSE
  BY DEF ReturnData, Rest, ReturnFromRead
<1> HIDE DEF n
<1>3. /\ SubSeq(data, 1, n) \in Seq(Bytes) /\ Len(SubSeq(data, 1, n)) = n
      /\ \A i \in 1..n : SubSeq(data, 1, n)[i] = data[i]
  BY <1>1
<1>4. /\ readBuf' \in Seq(Bytes) /\ Len(readBuf') = Len(data) - n
      /\ \A i \in 1..Len(readBuf') : readBuf'[i] = data[n + i]
  BY <1>1, <1>2, SMTT(30)
<1> DEFINE head == SubSeq(data, 1, n)
<1> HIDE DEF head
<1>5. /\ out' \in Seq(Bytes) /\ Len(out') = Len(out) + n
      /\ \A i \in 1..Len(out) : out'[i] = out[i]
      /\ \A i \in 1..n : out'[Len(out) + i] = data[i]
  <2>1. head \in Seq(Bytes) /\ Len(head) = n /\ \A i \in 1..n : head[i] = data[i]
    BY <1>3 DEF head
  <2>2. out \in Seq(Bytes) /\ out' = out \o head
    BY <1>2 DEF head, TypeOK
  <2>3. /\ out \o head \in Seq(Bytes) /\ Len(out \o head) = Len(out) + Len(head)
        /\ \A i \in 1..Len(out) + Len(head) :
               (out \o head)[i] = IF i <= Len(out) THEN out[i] ELSE head[i - Len(out)]
    BY <2>1, <2>2, ConcatProperties, Zenon
  <2>4. ASSUME NEW i \in 1..n PROVE out'[Len(out) + i] = data[i]
    <3>1. /\ Len(out) + i \in 1..Len(out) + Len(head) /\ ~(Len(out) + i <= Len(out))
          /\ (Len(out) + i) - Len(out) = i
      BY <1>1, <2>1
    <3> QED
      BY <2>1, <2>2, <2>3, <3>1
  <2>5. \A i \in 1..Len(out) : out'[i] = out[i]
    BY <1>1, <2>1, <2>2, <2>3
  <2> QED
    BY <2>1, <2>2, <2>3, <2>4, <2>5
<1>6. NoHole'
  <2> SUFFICES ASSUME NEW i \in 1..Len(out') PROVE out'[i] = i
    BY DEF NoHole
  <2>1. CASE i <= Len(out)
    <3>1. i \in 1..Len(out)
      BY <1>1, <1>5, <2>1
    <3>2. out[i] = i
      BY <3>1, Zenon DEF NoHole
    <3> QED
      BY <1>5, <3>1, <3>2
  <2>2. CASE i > Len(out)
    <3>1. i - Len(out) \in 1..n /\ i = Len(out) + (i - Len(out))
      BY <1>1, <1>5, <2>2
    <3>2. out'[i] = data[i - Len(out)]
      BY <1>5, <3>1
    <3> QED
      BY <1>1, <3>1, <3>2
  <2> QED
    BY <1>1, <1>5, <2>1, <2>2
<1>7. Len(out') + Len(readBuf') = Len(out) + Len(data)
  BY <1>1, <1>4, <1>5
<1>8. ASSUME NEW i \in 1..Len(readBuf') PROVE readBuf'[i] = Len(out') + i
  <2>1. n + i \in 1..Len(data) /\ readBuf'[i] = data[n + i]
    BY <1>1, <1>4
  <2>2. data[n + i] = Len(out) + (n + i)
    BY <2>1
  <2> QED
    BY <1>1, <1>4, <1>5, <2>1, <2>2
<1> QED
  BY <1>2, <1>4, <1>5, <1>6, <1>7, <1>8, Zenon

(* A step that moves no byte. *)
LEMMA QueueUntouched ==
    ASSUME Queued, UNCHANGED <<dataCh, readBuf, out, accepted>>
    PROVE  Queued'
BY DEF Queued, NoHole

(* A step that takes data from the front of the stream, from readBuf or    *)
(* from dataCh, and leaves the rest of the queue q.                        *)
LEMMA ReadContinues ==
    ASSUME StreamInv, NEW data \in Seq(Bytes), NEW q \in Seq(Seq(Bytes)), Len(q) <= Len(dataCh),
           ReturnData(data), dataCh' = q,
           UNCHANGED <<conn, readDeadline, producer, closerPc, eof>>,
           \A i \in 1..Len(data) : data[i] = Len(out) + i,
           \E s : Chain(q, s, Len(out) + Len(data), accepted),
           eof /\ closerPc = "idle" => q = <<>> /\ Len(data) = 0
    PROVE  StreamInv'
<1>1. TypeOK /\ NoHole /\ InHand /\ Closing
  BY DEF StreamInv, Queued
<1>2. /\ out' \in Seq(Bytes) /\ readBuf' \in Seq(Bytes) /\ NoHole'
      /\ \A i \in 1..Len(readBuf') : readBuf'[i] = Len(out') + i
      /\ Len(out') + Len(readBuf') = Len(out) + Len(data)
      /\ pc' = "idle" /\ size' = 0 /\ seen' = "none" /\ changed' = FALSE
  BY <1>1, DataReturned, Zenon
<1>3. TypeOK'
  <2>1. (inRealms \in BOOLEAN /\ closed \in BOOLEAN /\ closeCh \in BOOLEAN /\ eof \in BOOLEAN)'
    BY <1>1, Zenon DEF TypeOK
  <2>2. dataCh' \in Seq(Seq(Bytes)) /\ Len(dataCh') <= Cap
    BY <1>1 DEF TypeOK
  <2> QED
    BY <1>1, <1>2, <2>1, <2>2, Zenon DEF TypeOK
<1>4. Queued'
  BY <1>2 DEF Queued
<1>5. InHand'
  BY <1>1 DEF InHand
<1>6. Closing'
  <2>1. Len(data) = 0 => readBuf' = <<>>
    BY <1>2 DEF ReturnData, Rest, TypeOK
  <2> QED
    BY <1>1, <1>2, <2>1 DEF Closing
<1> QED
  BY <1>3, <1>4, <1>5, <1>6 DEF StreamInv

(* Every step keeps the invariant. *)
LEMMA StreamPreserved == StreamInv /\ [Next]_vars => StreamInv'
<1> SUFFICES ASSUME StreamInv, [Next]_vars PROVE StreamInv'
  OBVIOUS
<1>h. TypeOK /\ Queued /\ InHand /\ Closing
  BY DEF StreamInv
<1>1. ASSUME NEW n \in Lengths, ReceivePayload(n) PROVE StreamInv'
  <2>1. n \in Nat /\ arrived + n \in 0..MaxBytes
    BY <1>h, <1>1 DEF ReceivePayload, TypeOK
  <2>2. CASE inRealms
    <3>1. /\ payload' = [i \in 1..n |-> arrived + i] /\ readerPc' = "deliver"
          /\ arrived' = arrived + n /\ arrived = accepted
      BY <1>h, <1>1, <2>2 DEF ReceivePayload, InHand
    <3>2. payload' \in Seq(Bytes) /\ Len(payload') = n
      BY <1>h, <2>1, <3>1 DEF TypeOK
    <3>3. TypeOK'
      BY <1>h, <1>1, <2>1, <3>1, <3>2 DEF ReceivePayload, TypeOK
    <3>4. Queued'
      BY <1>h, <1>1, QueueUntouched DEF ReceivePayload
    <3>5. InHand'
      BY <1>h, <1>1, <2>1, <3>1, <3>2 DEF ReceivePayload, InHand, TypeOK
    <3>6. Closing'
      BY <1>h, <1>1, <2>2, <3>1 DEF ReceivePayload, Closing
    <3> QED
      BY <3>3, <3>4, <3>5, <3>6 DEF StreamInv
  <2>3. CASE ~inRealms
    <3>1. TypeOK'
      BY <1>h, <1>1, <2>1, <2>3 DEF ReceivePayload, TypeOK
    <3>2. Queued'
      BY <1>h, <1>1, QueueUntouched DEF ReceivePayload
    <3>3. InHand'
      BY <1>h, <1>1, <2>1, <2>3 DEF ReceivePayload, InHand, TypeOK
    <3>4. Closing'
      BY <1>h, <1>1, <2>3 DEF ReceivePayload, Closing
    <3> QED
      BY <3>1, <3>2, <3>3, <3>4 DEF StreamInv
  <2> QED
    BY <2>2, <2>3
<1>2. CASE Deliver
  <2>1. CASE HasRoom
    <3>1. /\ dataCh' = Append(dataCh, payload) /\ accepted' = accepted + Len(payload)
          /\ readerPc' = "idle" /\ payload' = <<>> /\ readerPc = "deliver"
          /\ UNCHANGED <<conn, readBuf, deadline, pc, size, arrived, closerPc, out, eof>>
      BY <1>2, <2>1 DEF Deliver
    <3>2. /\ arrived = accepted + Len(payload) /\ Len(dataCh') = Len(dataCh) + 1
          /\ \A i \in 1..Len(payload) : payload[i] = accepted + i
      BY <1>h, <3>1 DEF InHand, TypeOK
    <3>3. TypeOK'
      BY <1>h, <2>1, <3>1, <3>2 DEF TypeOK, HasRoom
    <3>4. Queued'
      <4>1. PICK s : Chain(dataCh, s, Len(out) + Len(readBuf), accepted)
        BY <1>h DEF Queued
      <4>2. \E t : Chain(Append(dataCh, payload), t, Len(out) + Len(readBuf),
                        accepted + Len(payload))
        <5>1. /\ Len(out) + Len(readBuf) \in Nat /\ accepted \in Nat
              /\ dataCh \in Seq(Seq(Bytes)) /\ payload \in Seq(Bytes)
          BY <1>h DEF TypeOK
        <5> QED
          BY <3>2, <4>1, <5>1, ChainAppend
      <4> QED
        BY <1>h, <3>1, <4>2, Zenon DEF Queued, NoHole
    <3>5. InHand'
      BY <1>h, <3>1, <3>2 DEF InHand, TypeOK
    <3>6. Closing'
      BY <1>h, <3>1 DEF Closing
    <3> QED
      BY <3>3, <3>4, <3>5, <3>6 DEF StreamInv
  <2>2. CASE ~HasRoom
    <3>1. /\ readerPc' = "delete" /\ payload' = <<>> /\ readerPc = "deliver"
          /\ UNCHANGED <<conn, dataCh, readBuf, deadline, pc, size, arrived, accepted, closerPc,
                         out, eof>>
      BY <1>2, <2>2 DEF Deliver, TearDown
    <3>2. TypeOK'
      BY <1>h, <3>1 DEF TypeOK
    <3>3. Queued'
      BY <1>h, <3>1, QueueUntouched
    <3>4. InHand' /\ Closing'
      BY <1>h, <3>1 DEF InHand, Closing
    <3> QED
      BY <3>2, <3>3, <3>4 DEF StreamInv
  <2> QED
    BY <2>1, <2>2
<1>3. CASE ReceiveDisconnect \/ ReaderDelete \/ ReaderSignal \/ ReaderCloseCh \/ StartClose
           \/ CloserCloseCh \/ CloserDelete
  <2>1. UNCHANGED <<dataCh, readBuf, deadline, pc, size, payload, arrived, accepted, out, eof>>
    BY <1>3 DEF ReceiveDisconnect, ReaderDelete, ReaderSignal, ReaderCloseCh, StartClose,
       CloserCloseCh, CloserDelete
  <2>2. TypeOK'
    <3>1. (inRealms \in BOOLEAN /\ closed \in BOOLEAN /\ closeCh \in BOOLEAN)'
      BY <1>h, <1>3, Zenon DEF ReceiveDisconnect, ReaderDelete, ReaderSignal, ReaderCloseCh,
         StartClose, CloserCloseCh, CloserDelete, TypeOK
    <3>2. (/\ readerPc \in {"idle", "deliver", "delete", "signal", "closeCh"}
           /\ closerPc \in {"idle", "closeCh", "delete", "done"})'
      BY <1>h, <1>3 DEF ReceiveDisconnect, ReaderDelete, ReaderSignal, ReaderCloseCh, StartClose,
         CloserCloseCh, CloserDelete, TypeOK
    <3> QED
      BY <1>h, <2>1, <3>1, <3>2, Zenon DEF TypeOK
  <2>3. Queued'
    BY <1>h, <2>1, QueueUntouched
  <2>4. InHand'
    BY <1>h, <1>3, <2>1 DEF ReceiveDisconnect, ReaderDelete, ReaderSignal, ReaderCloseCh,
       StartClose, CloserCloseCh, CloserDelete, InHand, Closing
  <2>5. Closing'
    BY <1>h, <1>3, <2>1 DEF ReceiveDisconnect, ReaderDelete, ReaderSignal, ReaderCloseCh,
       StartClose, CloserCloseCh, CloserDelete, Closing
  <2> QED
    BY <2>2, <2>3, <2>4, <2>5 DEF StreamInv
<1>4. CASE (\E n \in BufSizes : CallRead(n)) \/ SelectClosed \/ SelectChanged \/ SelectTimeout
           \/ ReadSnapshot \/ (\E d \in Deadlines : SetReadDeadline(d)) \/ DeadlinePasses
           \/ UNCHANGED vars
  <2>1. /\ UNCHANGED <<conn, dataCh, readBuf, producer, closerPc, out, eof>>
        /\ pc' \in {"drain", "select"} => pc' = pc \/ readBuf = <<>>
        /\ pc' = "drain" => pc' = pc \/ closed
    BY <1>4 DEF CallRead, SelectClosed, SelectChanged, SelectTimeout, ReadSnapshot, ReturnFromRead,
       SetReadDeadline, DeadlinePasses, vars
  <2>2. /\ readDeadline' \in Deadlines /\ seen' \in Deadlines
        /\ pc' \in {"idle", "read", "drain", "select"} /\ size' \in BufSizes \cup {0}
    BY <1>h, <1>4 DEF CallRead, SelectClosed, SelectChanged, SelectTimeout, ReadSnapshot,
       ReturnFromRead, SetReadDeadline, DeadlinePasses, vars, TypeOK
  <2>3. TypeOK'
    <3>1. changed' \in BOOLEAN
      <4>1. CASE \E d \in Deadlines : SetReadDeadline(d)
        <5>1. NotifyReader \in BOOLEAN
          BY DEF NotifyReader
        <5>2. changed' = NotifyReader
          BY <4>1 DEF SetReadDeadline
        <5> QED
          BY <5>1, <5>2
      <4>2. CASE changed' = changed \/ changed' = FALSE
        BY <1>h, <4>2, Zenon DEF TypeOK
      <4>3. (\E d \in Deadlines : SetReadDeadline(d)) \/ changed' = changed \/ changed' = FALSE
        BY <1>4, Zenon DEF CallRead, SelectClosed, SelectChanged, SelectTimeout, ReadSnapshot,
           ReturnFromRead, DeadlinePasses, vars
      <4> QED
        BY <4>1, <4>2, <4>3, Zenon
    <3> QED
      BY <1>h, <2>1, <2>2, <3>1, Zenon DEF TypeOK
  <2>4. Queued'
    BY <1>h, <2>1, QueueUntouched
  <2>5. InHand' /\ Closing'
    BY <1>h, <2>1 DEF InHand, Closing
  <2> QED
    BY <2>3, <2>4, <2>5 DEF StreamInv
<1>5. CASE ReadBuffered
  <2>1. /\ ReturnData(readBuf) /\ readBuf # <<>>
        /\ UNCHANGED <<conn, dataCh, readDeadline, producer, closerPc, eof>>
    BY <1>5 DEF ReadBuffered
  <2>2. /\ readBuf \in Seq(Bytes) /\ dataCh \in Seq(Seq(Bytes)) /\ Len(dataCh) <= Len(dataCh)
    BY <1>h DEF TypeOK
  <2>3. ~(eof /\ closerPc = "idle")
    BY <1>h, <2>1 DEF Closing
  <2> QED
    BY <1>h, <2>1, <2>2, <2>3, ReadContinues, Zenon DEF Queued
<1>6. ASSUME dataCh # <<>>, readBuf = <<>>, ReturnData(Head(dataCh)), dataCh' = Tail(dataCh),
             UNCHANGED <<conn, readDeadline, producer, closerPc, eof>>
      PROVE  StreamInv'
  <2>1. PICK s : Chain(dataCh, s, Len(out), accepted)
    BY <1>h, <1>6 DEF Queued, TypeOK
  <2>2. /\ \E t : Chain(Tail(dataCh), t, Len(out) + Len(Head(dataCh)), accepted)
        /\ \A i \in 1..Len(Head(dataCh)) : Head(dataCh)[i] = Len(out) + i
        /\ Head(dataCh) \in Seq(Bytes) /\ Tail(dataCh) \in Seq(Seq(Bytes))
    <3>1. Len(out) \in Nat /\ accepted \in Nat /\ dataCh \in Seq(Seq(Bytes))
      BY <1>h DEF TypeOK
    <3> QED
      BY <1>6, <2>1, <3>1, ChainTail, Zenon
  <2>3. Len(Tail(dataCh)) <= Len(dataCh)
    BY <1>h, <1>6 DEF TypeOK
  <2>4. ~(eof /\ closerPc = "idle")
    BY <1>h, <1>6 DEF Closing
  <2> QED
    BY <1>6, <2>2, <2>3, <2>4, ReadContinues, Zenon
<1>7. CASE SelectData
  BY <1>h, <1>6, <1>7 DEF SelectData, Closing
<1>8. CASE ReadDrain
  <2>1. CASE dataCh # <<>>
    BY <1>h, <1>6, <1>8, <2>1 DEF ReadDrain, Closing
  <2>2. CASE dataCh = <<>>
    <3>1. /\ eof' = TRUE /\ pc' = "idle" /\ size' = 0 /\ seen' = "none" /\ changed' = FALSE
          /\ UNCHANGED <<conn, dataCh, readBuf, readDeadline, producer, closerPc, out>>
          /\ closed /\ readBuf = <<>>
      BY <1>h, <1>8, <2>2 DEF ReadDrain, ReturnFromRead, Closing
    <3>2. TypeOK'
      BY <1>h, <3>1, Zenon DEF TypeOK
    <3>3. Queued'
      BY <1>h, <3>1, QueueUntouched
    <3>4. InHand' /\ Closing'
      BY <1>h, <2>2, <3>1 DEF InHand, Closing
    <3> QED
      BY <3>2, <3>3, <3>4 DEF StreamInv
  <2> QED
    BY <2>1, <2>2
<1> QED
  BY <1>1, <1>2, <1>3, <1>4, <1>5, <1>7, <1>8 DEF Next, ReadStep, ReaderStep, CloserStep

(* The invariant holds in every behaviour. *)
LEMMA StreamInvariant == Spec => []StreamInv
<1>1. Init => StreamInv
  <2> SUFFICES ASSUME Init PROVE StreamInv
    OBVIOUS
  <2>1. TypeOK
    <3>1. dataCh \in Seq(Seq(Bytes)) /\ Len(dataCh) <= Cap /\ readBuf \in Seq(Bytes)
      BY DEF Init
    <3>2. payload \in Seq(Bytes) /\ out \in Seq(Bytes)
      BY DEF Init
    <3>3. arrived \in 0..MaxBytes /\ accepted \in 0..MaxBytes
      BY DEF Init
    <3> QED
      BY <3>1, <3>2, <3>3, Zenon DEF Init, TypeOK
  <2>2. Queued
    <3>1. Chain(<<>>, [j \in 1..1 |-> 0], 0, 0)
      BY DEF Chain
    <3> QED
      BY <3>1 DEF Init, Queued, NoHole
  <2>3. InHand /\ Closing
    BY DEF Init, InHand, Closing
  <2> QED
    BY <2>1, <2>2, <2>3 DEF StreamInv
<1> QED
  BY <1>1, StreamPreserved, PTL DEF Spec

(* Type correctness of the stream; dataCh never holds more than Cap        *)
(* payloads.                                                               *)
THEOREM TypeCorrect == Spec => []TypeOK
<1>1. StreamInv => TypeOK
  BY DEF StreamInv
<1> QED
  BY <1>1, StreamInvariant, PTL

(* For payloads and slices of any length and a queue of any capacity, Read *)
(* returns the device's bytes in order and without a hole.                 *)
THEOREM StreamHasNoHole == Spec => []NoHole
<1>1. StreamInv => NoHole
  BY DEF StreamInv, Queued
<1> QED
  BY <1>1, StreamInvariant, PTL

(* Read reports the end of a realm the tunnel's reader closed only after   *)
(* it returned every byte that was queued.                                 *)
THEOREM EofIsLast == Spec => []EofAfterDrain
<1>1. StreamInv => EofAfterDrain
  <2> SUFFICES ASSUME StreamInv, eof, closerPc = "idle" PROVE Len(out) = accepted
    BY DEF EofAfterDrain
  <2>1. dataCh = <<>> /\ readBuf = <<>> /\ Len(out) \in Nat
    BY DEF StreamInv, Closing, TypeOK
  <2>2. PICK s : Chain(dataCh, s, Len(out) + Len(readBuf), accepted)
    BY DEF StreamInv, Queued
  <2> QED
    BY <2>1, <2>2 DEF Chain
<1> QED
  BY <1>1, StreamInvariant, PTL

-----------------------------------------------------------------------------
(* The watchdog *)

(* What the last heartbeat saw of the device's progress. *)
Observed ==
    /\ lastDrain <= peerRecv
    /\ heartbeat = "check" => lastDrain < sent
    /\ lastDrainTime = None => now = 0 /\ heartbeat # "done" /\ closedFor = "open"
    /\ lastDrainTime # None => lastDrainTime <= now
    /\ lastDrainTime # None /\ peerRecv = lastDrain =>
           lastProgress <= lastDrainTime /\ lastDrainTime <= lastProgress + 1
    /\ peerRecv # lastDrain => now <= lastProgress + (IF heartbeat = "done" THEN 0 ELSE 1)

(* How long an open tunnel can have gone without being closed. *)
Waited ==
    closedFor = "open" /\ lastDrainTime # None /\ peerRecv = lastDrain =>
        now <= lastDrainTime + StallTimeout + (IF heartbeat = "done" THEN 0 ELSE 1)

Beats ==
    /\ lastProgress <= lastPacket
    /\ missed <= now - lastPacket + (IF heartbeat = "due" THEN 0 ELSE 1)

(* A heartbeat under way is one of an open tunnel. *)
OpenUntilDone == closedFor # "open" => heartbeat = "done"

Kept == Observed /\ Waited /\ Beats /\ OpenUntilDone /\ NoFalseStall /\ MissedBounded

WatchInv == WatchTypeOK /\ Kept

USE WatchdogAssumption

(* Every step of heartbeat, reader and device keeps the types. *)
LEMMA WatchTypePreserved == WatchInv /\ [WatchNext]_watchVars => WatchTypeOK'
<1> SUFFICES ASSUME WatchInv, [WatchNext]_watchVars PROVE WatchTypeOK'
  OBVIOUS
<1> USE DEF WatchInv, Kept, WatchTypeOK, drain
<1>1. CASE CountMissed \/ SendHeartbeat
  BY <1>1 DEF CountMissed, TooManyMissed, Close, SendHeartbeat
<1>2. CASE OutboundStalled
  BY <1>2 DEF OutboundStalled, Close
<1>3. CASE SendOther
  BY <1>3 DEF SendOther
<1>4. ASSUME NEW n \in 0..sent, ReceivePacket(n) PROVE WatchTypeOK'
  BY <1>4 DEF ReceivePacket
<1>5. ASSUME NEW n \in 0..sent, DeviceConsumes(n) PROVE WatchTypeOK'
  BY <1>5 DEF DeviceConsumes
<1>6. CASE Tick
  <2>1. now' \in 0..MaxTime /\ lastPacket' \in 0..now' /\ lastProgress' \in 0..now'
    BY <1>6 DEF Tick
  <2> QED BY <1>6, <2>1 DEF Tick
<1>7. CASE UNCHANGED watchVars
  BY <1>7 DEF watchVars
<1> QED BY <1>1, <1>2, <1>3, <1>4, <1>5, <1>6, <1>7 DEF WatchNext

(* The two bounds together: the count of missed heartbeats stays small. *)
LEMMA CountPreserves == WatchInv /\ CountMissed => Kept'
<1> SUFFICES ASSUME WatchInv, CountMissed PROVE Kept'
  OBVIOUS
<1> USE DEF WatchInv, Kept, WatchTypeOK, drain
<1>1. ~TooManyMissed /\ missed' <= StallTimeout + 3
  BY DEF CountMissed, TooManyMissed, Beats, Observed, Waited, MissedBounded
<1>2. heartbeat' = "send" /\ UNCHANGED closedFor
  BY <1>1 DEF CountMissed
<1>3. (Observed /\ Waited /\ NoFalseStall)'
  BY <1>2 DEF CountMissed, Observed, Waited, NoFalseStall
<1>4. (Beats /\ OpenUntilDone)'
  BY <1>2 DEF CountMissed, Beats, OpenUntilDone
<1>5. MissedBounded'
  BY <1>1, <1>2 DEF MissedBounded
<1> QED BY <1>3, <1>4, <1>5

(* outboundStalled keeps the bounds on its clock. *)
LEMMA StalledPreserves == WatchInv /\ OutboundStalled => Kept'
<1> SUFFICES ASSUME WatchInv, OutboundStalled PROVE Kept'
  OBVIOUS
<1> USE DEF WatchInv, Kept, WatchTypeOK, drain
<1>1. Observed'
  BY DEF OutboundStalled, Observed, OpenUntilDone
<1>2. Waited'
  BY DEF OutboundStalled, Stalled, Close, Waited, Observed
<1>3. (Beats /\ OpenUntilDone)'
  BY DEF OutboundStalled, Beats, OpenUntilDone
<1>4. NoFalseStall'
  BY DEF OutboundStalled, MayBeStalled, Close, NoFalseStall, Observed, OpenUntilDone
<1>5. MissedBounded'
  BY DEF OutboundStalled, Close, MissedBounded
<1> QED BY <1>1, <1>2, <1>3, <1>4, <1>5

(* The watchdog keeps its strengthened invariant in every behaviour. *)
LEMMA WatchInductive == WatchSpec => []WatchInv
<1>1. WatchInit => WatchInv
  <2> SUFFICES ASSUME WatchInit PROVE WatchInv
    OBVIOUS
  <2>1. WatchTypeOK
    <3>1. now \in 0..MaxTime /\ others \in 0..MaxSent /\ consumed \in 0..sent
      BY DEF WatchInit
    <3>2. peerRecv \in 0..consumed /\ lastPacket \in 0..now /\ lastProgress \in 0..now
      BY DEF WatchInit
    <3>3. sent \in Nat /\ missed \in Nat /\ lastDrain \in Nat /\ lastDrainTime \in Nat \cup {None}
      BY DEF WatchInit
    <3>4. /\ heartbeat \in {"due", "send", "check", "done"}
          /\ closedFor \in {"open", "stall", "missed"}
      BY Zenon DEF WatchInit
    <3> QED BY <3>1, <3>2, <3>3, <3>4 DEF WatchTypeOK
  <2>2. Observed /\ Waited /\ Beats /\ OpenUntilDone
    BY DEF WatchInit, Observed, Waited, Beats, OpenUntilDone
  <2> QED BY <2>1, <2>2 DEF WatchInit, WatchInv, Kept, NoFalseStall, MissedBounded
<1>2. WatchInv /\ [WatchNext]_watchVars => WatchInv'
  <2> SUFFICES ASSUME WatchInv, [WatchNext]_watchVars PROVE Kept'
    BY WatchTypePreserved DEF WatchInv
  <2> USE DEF WatchInv, Kept, WatchTypeOK, Observed, Waited, Beats, OpenUntilDone, NoFalseStall,
             MissedBounded, drain
  <2>1. CASE CountMissed
    BY <2>1, CountPreserves
  <2>2. CASE SendHeartbeat
    BY <2>2 DEF SendHeartbeat
  <2>3. CASE OutboundStalled
    BY <2>3, StalledPreserves
  <2>4. CASE SendOther
    BY <2>4 DEF SendOther
  <2>5. ASSUME NEW n \in 0..sent, ReceivePacket(n) PROVE Kept'
    BY <2>5 DEF ReceivePacket
  <2>6. ASSUME NEW n \in 0..sent, DeviceConsumes(n) PROVE Kept'
    BY <2>6 DEF DeviceConsumes
  <2>7. CASE Tick
    BY <2>7 DEF Tick
  <2>8. CASE UNCHANGED watchVars
    BY <2>8 DEF watchVars
  <2> QED BY <2>1, <2>2, <2>3, <2>4, <2>5, <2>6, <2>7, <2>8 DEF WatchNext
<1> QED BY <1>1, <1>2, PTL DEF WatchSpec

(* outboundStalled never closes a tunnel whose device made progress within *)
(* outboundStallTimeout.                                                   *)
THEOREM StallIsReal == WatchSpec => []NoFalseStall
<1>1. WatchInv => NoFalseStall
  BY DEF WatchInv, Kept
<1> QED BY <1>1, WatchInductive, PTL

(* A device that stops consuming is noticed within one period of           *)
(* outboundStallTimeout.                                                   *)
THEOREM StallIsNoticed == WatchSpec => []StallNoticed
<1>1. WatchInv => StallNoticed
  BY DEF WatchInv, Kept, WatchTypeOK, Observed, Waited, StallNoticed
<1> QED BY <1>1, WatchInductive, PTL

(* The missed-heartbeat limit is never what closes the tunnel. *)
THEOREM MissedIsBounded == WatchSpec => []MissedBounded
<1>1. WatchInv => MissedBounded
  BY DEF WatchInv, Kept
<1> QED BY <1>1, WatchInductive, PTL
=============================================================================
