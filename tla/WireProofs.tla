------------------------------ MODULE WireProofs ------------------------------
(***************************************************************************)
(* What Wire guarantees for any messages, any base of VarInt and any way   *)
(* TCP cuts the stream.  The argument has two parts: each decoder reads as *)
(* much as its message has (FieldsFit), and while nothing has brought the  *)
(* reader out of step, a header is read at the end of the last message     *)
(* handled and nowhere else (InStepStep).                                  *)
(***************************************************************************)
EXTENDS Wire, TLAPS

(* Quotient and remainder.                                                 *)
LEMMA DivMod ==
  ASSUME NEW n \in Nat, NEW b \in Nat, b > 0
  PROVE  /\ n % b \in Nat /\ n \div b \in Nat
         /\ (n % b) + b * (n \div b) = n
OBVIOUS

(* The decoder of VarInt reads back what a peer wrote, in every width.     *)
THEOREM VarIntRoundTrip ==
  ASSUME NEW n \in Nat
  PROVE  UnmarshalVarInt(VarInt(n)) = n
<1>1. CASE n < Byte - 3
  BY <1>1, WireAssumption DEF WireAssumption, VarInt, UnmarshalVarInt
<1>2. CASE n >= Byte - 3 /\ n < Byte * Byte
  <2>1. VarInt(n) = <<Byte - 3, n % Byte, n \div Byte>>
    BY <1>2, WireAssumption DEF WireAssumption, VarInt
  <2>2. UnmarshalVarInt(VarInt(n)) = (n % Byte) + Byte * (n \div Byte)
    BY <2>1, WireAssumption DEF WireAssumption, UnmarshalVarInt, DecodeUint16ForVarint
  <2> QED BY <2>2, DivMod, WireAssumption DEF WireAssumption
<1>3. CASE n >= Byte - 3 /\ ~(n < Byte * Byte)
  <2> DEFINE marker == IF n < Word THEN Byte - 2 ELSE Byte - 1
  <2>1. VarInt(n) = <<marker, n>>
    BY <1>3, WireAssumption DEF WireAssumption, VarInt
  <2> QED BY <2>1, WireAssumption DEF WireAssumption, UnmarshalVarInt
<1> QED BY <1>1, <1>2, <1>3, WireAssumption DEF WireAssumption

(* What one cell of a VarInt says of its width.                            *)
LEMMA VarIntShape ==
  ASSUME NEW n \in Nat
  PROVE  /\ Len(VarInt(n)) \in Nat \ {0}
         /\ VarInt(n)[1] \in Nat
         /\ \/ VarInt(n)[1] = n /\ Len(VarInt(n)) = 1
            \/ VarInt(n)[1] <= n /\ Len(VarInt(n)) > 1
BY WireAssumption DEF WireAssumption, VarInt

(* A decoder that reads a VarInt counts what the peer sent.                *)
LEMMA CountedCorrect ==
  ASSUME NEW m \in Message
  PROVE  /\ Counted(m) \in Nat
         /\ m.command \notin {"inv", "version"} => Counted(m) = m.n
         /\ m.command \in {"inv", "version"} => Counted(m) = VarInt(m.n)[1]
<1>1. m.n \in Nat /\ m.command \in Command
  BY WireAssumption DEF WireAssumption
<1> QED BY <1>1, VarIntRoundTrip, VarIntShape DEF Counted, Command

(* A payload has a length.                                                 *)
LEMMA LengthType == \A m \in Message : Length(m) \in Nat
<1> TAKE m \in Message
<1>1. m.n \in Nat /\ m.command \in Command
  BY WireAssumption DEF WireAssumption
<1>2. Len(VarInt(m.n)) \in Nat
  BY <1>1, VarIntShape
<1> QED BY <1>1, <1>2 DEF Length, Command

(* The last field of a decoder ends where the payload does, or before it   *)
(* in a message whose count may take more than the byte that is read, and  *)
(* in a filter of another type.                                            *)
Last(m) == IF Len(Fields(m)) = 0 THEN 0 ELSE Fields(m)[Len(Fields(m))].end

MayEndEarly(m) == m.command \in {"inv", "version"} \/ Refused(m)

Fits(m) ==
  /\ Len(Fields(m)) \in Nat
  /\ \A j \in 1..Len(Fields(m)) : Fields(m)[j].end \in 0..Length(m)
  /\ \/ Last(m) = Length(m) /\ Counted(m) = m.n
     \/ MayEndEarly(m) /\ Last(m) < Length(m)

(* No field of a decoder goes beyond the payload of its message.           *)
LEMMA FieldsFit ==
  ASSUME NEW m \in Message, HasValidCommand(m)
  PROVE  Fits(m)
<1> DEFINE c == Len(VarInt(m.n))
           count == Counted(m)
<1>1. m.n \in Nat /\ m.command \in Command \ {"unknown"}
  BY WireAssumption DEF WireAssumption, HasValidCommand
<1>2. c \in Nat \ {0} /\ count \in Nat
  BY <1>1, VarIntShape, CountedCorrect
<1>3. CASE m.command \in {"ping", "pong"}
  <2>1. Fields(m) = <<Full(1)>> /\ Length(m) = 1
    BY <1>3 DEF Fields, Length
  <2>2. count = m.n
    BY <1>3, CountedCorrect
  <2> HIDE DEF c, count
  <2> QED BY <1>1, <1>2, <2>1, <2>2 DEF Fits, Last, Full, Once, Rest, count
<1>4. CASE m.command \in {"tx", "block", "other"}
  <2>1. Fields(m) = <<Rest(2)>> /\ Length(m) = 2
    BY <1>4 DEF Fields, Length
  <2>2. count = m.n
    BY <1>4, CountedCorrect
  <2> HIDE DEF c, count
  <2> QED BY <1>1, <1>2, <2>1, <2>2 DEF Fits, Last, Full, Once, Rest, count
<1>5. CASE m.command = "verack"
  <2>1. Fields(m) = <<>> /\ Length(m) = 0
    BY <1>5 DEF Fields, Length
  <2>2. count = m.n
    BY <1>5, CountedCorrect
  <2> HIDE DEF c, count
  <2> QED BY <1>1, <1>2, <2>1, <2>2 DEF Fits, Last, Full, Once, Rest, count
<1>6. CASE m.command = "sendcmpct"
  <2>1. Fields(m) = <<Full(1), Full(2)>> /\ Length(m) = 2
    BY <1>6 DEF Fields, Length
  <2>2. count = m.n
    BY <1>6, CountedCorrect
  <2> HIDE DEF c, count
  <2> QED BY <1>1, <1>2, <2>1, <2>2 DEF Fits, Last, Full, Once, Rest, count
<1>7. CASE m.command = "version"
  <2>1. /\ Fields(m) = <<Full(1), Once(3), Full(4), Once(6), Full(7), Once(7 + count),
                        Full(8 + count)>>
        /\ Length(m) = 7 + c + m.n
    BY <1>7 DEF Fields, Length
  <2>2. \/ count = m.n /\ c = 1
        \/ count <= m.n /\ c > 1
    BY <1>1, <1>7, VarIntShape, CountedCorrect
  <2>3. MayEndEarly(m)
    BY <1>7 DEF MayEndEarly
  <2>4. Counted(m) = count
    BY DEF count
  <2> HIDE DEF c, count
  <2>5. /\ Len(Fields(m)) = 7
        /\ \A j \in 1..7 : Fields(m)[j].end \in 0..(8 + count)
        /\ Last(m) = 8 + count
    BY <1>2, <2>1 DEF Last, Full, Once
  <2>6. 8 + count <= Length(m) /\ Length(m) \in Nat
    BY <1>1, <1>2, <2>1, <2>2
  <2>7. \A j \in 1..7 : Fields(m)[j].end \in 0..Length(m)
    BY <1>2, <2>5, <2>6
  <2>8. \/ Last(m) = Length(m) /\ count = m.n
        \/ Last(m) < Length(m)
    BY <1>1, <1>2, <2>1, <2>2, <2>5
  <2> QED BY <2>3, <2>4, <2>5, <2>7, <2>8 DEF Fits
<1>8. CASE m.command = "getcfilters"
  <2>1. Fields(m) = <<Full(1), Full(2), Once(4)>> /\ Length(m) = 4
    BY <1>8 DEF Fields, Length
  <2>2. count = m.n
    BY <1>8, CountedCorrect
  <2> HIDE DEF c, count
  <2> QED BY <1>1, <1>2, <2>1, <2>2 DEF Fits, Last, Full, Once, Rest, count
<1>9. CASE m.command = "headers"
  <2>1. Fields(m) = <<Full(c), Rest(c + 1)>> /\ Length(m) = c + 1
    BY <1>9 DEF Fields, Length
  <2>2. count = m.n
    BY <1>9, CountedCorrect
  <2> HIDE DEF c, count
  <2> QED BY <1>1, <1>2, <2>1, <2>2 DEF Fits, Last, Full, Once, Rest, count
<1>10. CASE m.command = "cfilter"
  <2>1. Length(m) = 3 + c + m.n
    BY <1>10 DEF Length
  <2>2. count = m.n
    BY <1>10, CountedCorrect
  <2>3. CASE Refused(m)
    <3>1. Fields(m) = <<Full(1)>> /\ MayEndEarly(m)
      BY <1>10, <2>3 DEF Fields, MayEndEarly
    <3> HIDE DEF c, count
    <3> QED BY <1>1, <1>2, <2>1, <3>1 DEF Fits, Last, Full
  <2>4. CASE ~Refused(m)
    <3>1. Fields(m) = <<Full(1), Once(3), Full(3 + c), Once(3 + c + count)>>
      BY <1>10, <2>4 DEF Fields
    <3> HIDE DEF c, count
    <3> QED BY <1>1, <1>2, <2>1, <2>2, <3>1 DEF Fits, Last, Full, Once, count
  <2> QED BY <2>3, <2>4
<1>11. CASE m.command = "getheaders"
  <2>1. count = m.n
    BY <1>11, CountedCorrect
  <2>2. /\ Fields(m) = [j \in 1..(count + 3) |->
            IF j = 1 THEN Full(1) ELSE IF j = 2 THEN Full(1 + c)
            ELSE Once(2 * j + c - 3)]
        /\ Length(m) = 3 + c + 2 * m.n
    BY <1>11 DEF Fields, Length
  <2> HIDE DEF c, count
  <2>3. Len(Fields(m)) = count + 3
    BY <1>2, <2>2
  <2>4. ASSUME NEW j \in 1..(count + 3)
        PROVE  Fields(m)[j].end = IF j = 1 THEN 1 ELSE IF j = 2 THEN 1 + c ELSE 2 * j + c - 3
    BY <2>2 DEF Full, Once
  <2>5. Last(m) = Length(m)
    <3>1. Fields(m)[count + 3].end = 2 * (count + 3) + c - 3
      BY <1>2, <2>4
    <3>2. Length(m) = 3 + c + 2 * count
      BY <2>1, <2>2
    <3>3. 2 * (count + 3) + c - 3 = 3 + c + 2 * count /\ count + 3 # 0
      BY <1>2
    <3> QED BY <2>3, <3>1, <3>2, <3>3 DEF Last
  <2>6. ASSUME NEW j \in 1..Len(Fields(m)) PROVE Fields(m)[j].end \in 0..Length(m)
    <3>1. j \in 1..(count + 3)
      BY <2>3
    <3>2. Length(m) = 3 + c + 2 * count
      BY <2>1, <2>2
    <3> QED BY <1>2, <2>4, <3>1, <3>2
  <2>7. Counted(m) = m.n
    BY <2>1 DEF count
  <2> QED BY <1>2, <2>3, <2>5, <2>6, <2>7 DEF Fits
<1>12. CASE m.command = "inv"
  <2>1. /\ Fields(m) = [j \in 1..(2 * count + 1) |->
            IF j % 2 = 1 THEN IF j = 1 THEN Full(1) ELSE Once(1 + 3 * (j \div 2))
            ELSE Full(3 * (j \div 2) - 1)]
        /\ Length(m) = c + 3 * m.n
    BY <1>12 DEF Fields, Length
  <2>2. \/ count = m.n /\ c = 1
        \/ count <= m.n /\ c > 1
    BY <1>1, <1>12, VarIntShape, CountedCorrect
  <2> HIDE DEF c, count
  <2>3. Len(Fields(m)) = 2 * count + 1
    BY <1>2, <2>1
  <2>4. ASSUME NEW j \in 1..Len(Fields(m))
        PROVE  Fields(m)[j].end \in 0..(1 + 3 * count)
    <3>1. j \in 1..(2 * count + 1)
      BY <2>3
    <3>2. CASE j % 2 = 1
      <4>1. j = 2 * (j \div 2) + 1 /\ j \div 2 \in Nat
        BY <3>1, <3>2, <1>2
      <4>2. Fields(m)[j].end = IF j = 1 THEN 1 ELSE 1 + 3 * (j \div 2)
        BY <2>1, <3>1, <3>2 DEF Full, Once
      <4> QED BY <1>2, <3>1, <4>1, <4>2
    <3>3. CASE j % 2 # 1
      <4>1. j = 2 * (j \div 2) /\ j \div 2 \in Nat \ {0}
        BY <3>1, <3>3, <1>2
      <4>2. Fields(m)[j].end = 3 * (j \div 2) - 1
        BY <2>1, <3>1, <3>3 DEF Full
      <4> QED BY <1>2, <3>1, <4>1, <4>2
    <3> QED BY <3>2, <3>3
  <2>5. Last(m) = 1 + 3 * count
    <3>1. Fields(m)[2 * count + 1].end = 1 + 3 * count
      <4>1. /\ (2 * count + 1) % 2 = 1
            /\ (2 * count + 1) \div 2 = count
            /\ 2 * count + 1 \in 1..(2 * count + 1)
        BY <1>2
      <4> QED BY <1>2, <2>1, <4>1 DEF Full, Once
    <3> QED BY <1>2, <2>3, <3>1 DEF Last
  <2>6. Counted(m) = count
    BY DEF count
  <2>7. 1 + 3 * count <= Length(m) /\ Length(m) \in Nat
    BY <1>1, <1>2, <2>1, <2>2
  <2>8. ASSUME NEW j \in 1..Len(Fields(m)) PROVE Fields(m)[j].end \in 0..Length(m)
    BY <2>4, <2>7, <1>2
  <2>9. \/ Last(m) = Length(m) /\ count = m.n
        \/ Last(m) < Length(m)
    BY <1>1, <1>2, <2>1, <2>2, <2>5
  <2> QED BY <1>2, <1>12, <2>3, <2>6, <2>8, <2>9 DEF Fits, MayEndEarly
<1> QED BY <1>1, <1>3, <1>4, <1>5, <1>6, <1>7, <1>8, <1>9, <1>10, <1>11, <1>12 DEF Command

-----------------------------------------------------------------------------
(* The invariant.                                                          *)

(* Messages lie one behind the other.                                      *)
Places ==
  /\ \A i \in 1..Len(sent) :
       sent[i].end = sent[i].start + HeaderLength + Length(sent[i].message)
  /\ \A i, j \in 1..Len(sent) : i < j => sent[i].end <= sent[j].start

(* What was handled lies before the reader, and before what is being read. *)
Behind ==
  /\ \A k \in 1..Len(handled) :
       handled[k].n \in 1..Len(sent) /\ sent[handled[k].n].start < pos
  /\ at \in {"payload", "torn", "answer"} =>
       /\ cur \in 1..Len(sent)
       /\ sent[cur].start < pos
       /\ \A k \in 1..Len(handled) : handled[k].n < cur

(* A handler that was entered at the start of a payload stays aligned.     *)
Aligned ==
  /\ at \in {"payload", "answer"} =>
       /\ HasValidCommand(Current)
       /\ limit = sent[cur].end
       /\ pos <= limit
  /\ at = "payload" =>
       /\ field \in 1..(Len(Fields(Current)) + 1)
       /\ field > Len(Fields(Current)) =>
            pos = limit - Length(Current) + Last(Current)
  /\ at = "answer" => Current.command = "getcfilters" /\ pos = limit
  /\ at = "torn" => pos <= limit

(* A reader in step has handled exactly what it has read.                  *)
Step ==
  spoiled = {} =>
    /\ \A k \in 1..Len(handled) : handled[k] = [n |-> k, intact |-> TRUE]
    /\ at # "torn"
    /\ Len(handled) <= Len(sent)
    /\ at \in {"header", "off"} => pos = NextStart(Len(handled))
    /\ at \in {"payload", "answer"} => cur = Len(handled) + 1

IInv == TypeOK /\ Places /\ Behind /\ Aligned /\ HandledInOrder /\ Step

(* An empty stream satisfies the invariant.                                *)
LEMMA InitInv == Init => IInv
BY WireAssumption DEF WireAssumption, Init, IInv, TypeOK, Places, Behind, Aligned, HandledInOrder, Step,
   NextStart, End, Placed, Handled, Cause

(* The types in the form in which the steps use them.                      *)
LEMMA Basics ==
  ASSUME IInv
  PROVE  /\ pos \in Nat /\ arrived \in Nat /\ End \in Nat /\ pos <= arrived /\ arrived <= End
         /\ Len(sent) \in Nat /\ Len(handled) \in Nat
         /\ \A i \in 1..Len(sent) : /\ sent[i].message \in Message
                                    /\ sent[i].start \in Nat /\ sent[i].end \in Nat
                                    /\ sent[i].start < sent[i].end
         /\ \A k \in 1..Len(handled) : handled[k] \in Handled /\ handled[k].n \in 1..Len(sent)
<1>1. sent \in Seq(Placed) /\ handled \in Seq(Handled)
  BY DEF IInv, TypeOK
<1>2. Len(sent) \in Nat /\ Len(handled) \in Nat
  BY <1>1
<1>3. \A i \in 1..Len(sent) : sent[i] \in Placed
  BY <1>1
<1>4. \A k \in 1..Len(handled) : handled[k] \in Handled /\ handled[k].n \in 1..Len(sent)
  BY <1>1 DEF IInv, Behind
<1>5. End \in Nat
  BY <1>2, <1>3 DEF End, Placed
<1>6. \A i \in 1..Len(sent) : sent[i].start < sent[i].end
  BY <1>3, LengthType DEF IInv, Places, Placed, HeaderLength
<1>7. pos \in Nat /\ arrived \in Nat /\ pos <= arrived /\ arrived <= End
  <2>1. arrived \in 0..End /\ pos \in 0..arrived
    BY DEF IInv, TypeOK
  <2>2. arrived \in Nat /\ arrived <= End
    BY <1>5, <2>1
  <2> QED BY <2>1, <2>2
<1>8. \A i \in 1..Len(sent) :
        sent[i].message \in Message /\ sent[i].start \in Nat /\ sent[i].end \in Nat
  BY <1>3 DEF Placed
<1> QED BY <1>2, <1>4, <1>5, <1>6, <1>7, <1>8

(* What was handled starts before what is being read.                      *)
LEMMA HandledBefore ==
  ASSUME IInv, at \in {"payload", "torn", "answer"}
  PROVE  /\ cur \in 1..Len(sent)
         /\ sent[cur].start \in Nat
         /\ \A k \in 1..Len(handled) : sent[handled[k].n].start < sent[cur].start
<1>1. cur \in 1..Len(sent) /\ \A k \in 1..Len(handled) : handled[k].n < cur
  BY DEF IInv, Behind
<1>2. \A i \in 1..Len(sent) : i < cur => sent[i].start < sent[cur].start
  BY <1>1, Basics DEF IInv, Places
<1> QED BY <1>1, <1>2, Basics

(* What a handler that reads its payload can rely on.                      *)
LEMMA CurrentFits ==
  ASSUME IInv, at \in {"payload", "answer"}
  PROVE  /\ Current \in Message
         /\ HasValidCommand(Current)
         /\ Length(Current) \in Nat
         /\ Fits(Current)
         /\ sent[cur].start \in Nat
         /\ limit = sent[cur].start + HeaderLength + Length(Current)
<1>1. cur \in 1..Len(sent) /\ sent[cur] \in Placed
  BY DEF IInv, Behind, TypeOK
<1>2. Current \in Message /\ HasValidCommand(Current)
  BY <1>1 DEF IInv, Aligned, Current, Placed
<1> QED BY <1>1, <1>2, FieldsFit, LengthType DEF IInv, Places, Aligned, Current, Placed

(* The end of the next field lies behind its start and within the limit.   *)
LEMMA GoalWithin ==
  ASSUME IInv, NEW how, Reading(how)
  PROVE  /\ Goal \in Nat
         /\ Goal <= limit
         /\ Goal >= sent[cur].start + HeaderLength
         /\ field \in 1..Len(Fields(Current))
         /\ field = Len(Fields(Current)) => Goal = limit - Length(Current) + Last(Current)
<1>1. at = "payload" /\ field \in 1..Len(Fields(Current))
  BY DEF Reading, IInv, Aligned, TypeOK
<1>2. Fits(Current) /\ Length(Current) \in Nat /\ sent[cur].start \in Nat
      /\ limit = sent[cur].start + HeaderLength + Length(Current)
  BY <1>1, CurrentFits
<1>3. Fields(Current)[field].end \in 0..Length(Current)
  BY <1>1, <1>2 DEF Fits
<1>4. Goal = limit - Length(Current) + Fields(Current)[field].end
  BY DEF Goal
<1>5. Goal = sent[cur].start + HeaderLength + Fields(Current)[field].end
  BY <1>2, <1>3, <1>4 DEF HeaderLength
<1>6. Goal \in Nat /\ Goal <= limit /\ Goal >= sent[cur].start + HeaderLength
  BY <1>2, <1>3, <1>5 DEF HeaderLength
<1>7. field = Len(Fields(Current)) => Last(Current) = Fields(Current)[field].end
  BY <1>1 DEF Last
<1> QED BY <1>1, <1>4, <1>6, <1>7

(* A message handled is added at the end.                                  *)
LEMMA HandledGrows ==
  ASSUME IInv, NEW e \in Handled, handled' = Append(handled, e)
  PROVE  /\ handled' \in Seq(Handled)
         /\ Len(handled') = Len(handled) + 1
         /\ \A k \in 1..Len(handled) : handled'[k] = handled[k]
         /\ handled'[Len(handled) + 1] = e
BY DEF IInv, TypeOK

(* Where the decoder of a message that fits ends.                          *)
LEMMA FitsLast ==
  ASSUME NEW m, Fits(m)
  PROVE  \/ Last(m) = Length(m) /\ Counted(m) = m.n
         \/ MayEndEarly(m) /\ Last(m) < Length(m)
BY DEF Fits

(* The messages on the stream, in its order.                               *)
LEMMA InOrder ==
  ASSUME IInv, NEW i \in 1..Len(sent), NEW j \in 1..Len(sent)
  PROVE  /\ i < j => sent[i].start < sent[j].start /\ sent[i].end <= sent[j].start
         /\ sent[i].start < sent[j].start => i < j
         /\ sent[i].end <= End
<1>1. \A a, b \in 1..Len(sent) :
        a < b => sent[a].end <= sent[b].start /\ sent[a].start < sent[b].start
  <2> TAKE a, b \in 1..Len(sent)
  <2>1. a < b => sent[a].end <= sent[b].start
    BY DEF IInv, Places
  <2>2. /\ sent[a].start \in Nat /\ sent[a].end \in Nat /\ sent[b].start \in Nat
        /\ sent[a].start < sent[a].end
    BY Basics
  <2> QED BY <2>1, <2>2
<1>2. sent[i].start < sent[j].start => i < j
  <2>1. sent[i].start \in Nat /\ sent[j].start \in Nat
    BY Basics
  <2>2. i < j \/ i = j \/ j < i
    OBVIOUS
  <2> QED BY <1>1, <2>1, <2>2
<1>3. sent[i].end <= End
  <2>1. Len(sent) \in 1..Len(sent) /\ End = sent[Len(sent)].end
    BY Basics DEF End
  <2>2. /\ sent[Len(sent)].start \in Nat /\ sent[i].end \in Nat /\ End \in Nat
        /\ sent[Len(sent)].start < End
    BY <2>1, Basics
  <2>3. CASE i = Len(sent)
    BY <2>1, <2>2, <2>3
  <2>4. CASE i < Len(sent)
    BY <1>1, <2>1, <2>2, <2>4
  <2> QED BY <2>1, <2>3, <2>4
<1> QED BY <1>1, <1>2, <1>3

(* Where the reader may go in a step that leaves the stream alone.         *)
LEMMA TypesKept ==
  ASSUME IInv, UNCHANGED peer,
         pos' \in Nat, pos' <= arrived,
         at' \in {"header", "payload", "torn", "answer", "off"},
         cur' \in 0..Len(sent), field' \in Nat, limit' \in Nat, height' \in 0..Tip,
         handled' \in Seq(Handled), spoiled' \subseteq Cause
  PROVE  TypeOK'
<1>1. sent' = sent /\ open' = open /\ arrived' = arrived /\ End' = End
  BY DEF peer, End
<1>2. arrived \in Nat /\ pos' \in 0..arrived
  BY Basics
<1> QED BY <1>1, <1>2 DEF IInv, TypeOK

(* Reading on within a message, or beyond it.                              *)
LEMMA BehindKept ==
  ASSUME IInv, at \in {"payload", "torn", "answer"},
         UNCHANGED <<sent, cur, handled>>, pos' \in Nat, pos' > sent[cur].start
  PROVE  Behind'
<1>1. /\ cur \in 1..Len(sent) /\ sent[cur].start \in Nat
      /\ \A k \in 1..Len(handled) : handled[k].n < cur
  BY HandledBefore DEF IInv, Behind
<1>2. ASSUME NEW k \in 1..Len(handled)
      PROVE  handled[k].n \in 1..Len(sent) /\ sent[handled[k].n].start < pos'
  <2>1. handled[k].n \in 1..Len(sent)
    BY Basics
  <2>2. sent[handled[k].n].start \in Nat /\ sent[handled[k].n].start < sent[cur].start
    BY <2>1, Basics, HandledBefore
  <2> QED BY <1>1, <2>1, <2>2
<1> QED BY <1>1, <1>2 DEF Behind

(* Reading the next field.                                                 *)
LEMMA AlignedKept ==
  ASSUME IInv, at = "payload", UNCHANGED <<sent, at, cur, limit>>, pos' <= limit,
         field' \in 1..(Len(Fields(Current)) + 1),
         field' > Len(Fields(Current)) => pos' = limit - Length(Current) + Last(Current)
  PROVE  Aligned'
<1>1. Current' = Current
  BY DEF Current
<1> QED BY <1>1 DEF IInv, Aligned

(* A message that was handled is behind the reader.                        *)
LEMMA BehindReturned ==
  ASSUME IInv, at \in {"payload", "torn", "answer"}, at' = "header",
         NEW e \in Handled, e.n = cur, handled' = Append(handled, e),
         UNCHANGED <<sent, pos>>
  PROVE  Behind' /\ HandledInOrder'
<1>1. /\ Len(handled') = Len(handled) + 1
      /\ \A k \in 1..Len(handled) : handled'[k] = handled[k]
      /\ handled'[Len(handled) + 1] = e
  BY HandledGrows
<1>2. cur \in 1..Len(sent) /\ sent[cur].start < pos
  BY DEF IInv, Behind
<1>3. \A k \in 1..Len(handled) :
        handled[k].n \in 1..Len(sent) /\ sent[handled[k].n].start < pos
  BY DEF IInv, Behind
<1>4. ASSUME NEW k \in 1..Len(handled')
      PROVE  handled'[k].n \in 1..Len(sent) /\ sent[handled'[k].n].start < pos
  <2>1. CASE k = Len(handled) + 1
    BY <1>1, <1>2, <2>1
  <2>2. CASE k # Len(handled) + 1
    <3>1. k \in 1..Len(handled)
      BY <1>1, <2>2, Basics
    <3> QED BY <1>1, <1>3, <3>1
  <2> QED BY <2>1, <2>2
<1>5. ASSUME NEW j \in 1..Len(handled'), NEW k \in 1..Len(handled'), j < k
      PROVE  handled'[j].n < handled'[k].n
  <2>1. j \in 1..Len(handled) /\ handled'[j] = handled[j]
    BY <1>1, <1>5, Basics
  <2>2. CASE k = Len(handled) + 1
    BY <1>1, <2>1, <2>2 DEF IInv, Behind
  <2>3. CASE k # Len(handled) + 1
    <3>1. k \in 1..Len(handled) /\ handled'[k] = handled[k]
      BY <1>1, <2>3, Basics
    <3> QED BY <1>5, <2>1, <3>1 DEF IInv, HandledInOrder
  <2> QED BY <2>2, <2>3
<1> QED BY <1>4, <1>5 DEF Behind, HandledInOrder

(* A header is read behind everything that was handled.                    *)
LEMMA BehindEntered ==
  ASSUME IInv, NEW i \in 1..Len(sent), sent[i].start = pos,
         UNCHANGED <<sent, handled>>, cur' = i, pos' \in Nat, pos' > pos
  PROVE  Behind' /\ \A k \in 1..Len(handled) : handled[k].n < i
<1>1. ASSUME NEW k \in 1..Len(handled)
      PROVE  /\ handled[k].n \in 1..Len(sent) /\ sent[handled[k].n].start < pos'
             /\ handled[k].n < i
  <2>1. handled[k].n \in 1..Len(sent) /\ sent[handled[k].n].start < pos
    BY DEF IInv, Behind
  <2>2. sent[handled[k].n].start \in Nat /\ pos \in Nat
    BY <2>1, Basics
  <2>3. handled[k].n < i
    BY <2>1, InOrder
  <2> QED BY <2>1, <2>2, <2>3
<1> QED BY <1>1 DEF Behind

(* io.ReadFull reads a field of a message.                                 *)
LEMMA ReadFullStep == IInv /\ ReadFull => IInv'
<1> SUFFICES ASSUME IInv, ReadFull PROVE IInv'
  OBVIOUS
<1> USE Basics DEF ReadFull, Back, Least, Available, peer
<1>0. /\ Goal \in Nat /\ Goal <= limit /\ Goal >= sent[cur].start + HeaderLength
      /\ field \in 1..Len(Fields(Current))
      /\ field = Len(Fields(Current)) => Goal = limit - Length(Current) + Last(Current)
      /\ at = "payload" /\ Current' = Current
  BY GoalWithin DEF Reading, Current
<1>a. pos' \in Nat /\ limit' \in Nat /\ pos' <= arrived /\ pos' <= limit' /\ pos' > sent[cur].start
  BY <1>0, HandledBefore DEF IInv, TypeOK, Behind, HeaderLength
<1>1. TypeOK'
  BY <1>a, <1>0, TypesKept DEF IInv, TypeOK, Cause
<1>2. Places'
  BY DEF IInv, Places
<1>3. Behind'
  BY <1>a, <1>0, BehindKept
<1>4. Aligned'
  BY <1>0, <1>a, AlignedKept
<1>5. HandledInOrder'
  BY DEF IInv, HandledInOrder
<1>6. Step'
  BY <1>0 DEF IInv, Step, NextStart
<1> QED BY <1>1, <1>2, <1>3, <1>4, <1>5, <1>6 DEF IInv

(* A single Read returns a whole field.                                    *)
LEMMA ReadOnceStep == IInv /\ ReadOnce => IInv'
<1> SUFFICES ASSUME IInv, ReadOnce PROVE IInv'
  OBVIOUS
<1> USE Basics DEF ReadOnce, Back, Least, Available, peer
<1>0. /\ Goal \in Nat /\ Goal <= limit /\ Goal >= sent[cur].start + HeaderLength
      /\ field \in 1..Len(Fields(Current))
      /\ field = Len(Fields(Current)) => Goal = limit - Length(Current) + Last(Current)
      /\ at = "payload" /\ Current' = Current
  BY GoalWithin DEF Reading, Current
<1>a. pos' \in Nat /\ limit' \in Nat /\ pos' <= arrived /\ pos' <= limit' /\ pos' > sent[cur].start
  BY <1>0, HandledBefore DEF IInv, TypeOK, Behind, HeaderLength
<1>1. TypeOK'
  BY <1>a, <1>0, TypesKept DEF IInv, TypeOK, Cause
<1>2. Places'
  BY DEF IInv, Places
<1>3. Behind'
  BY <1>a, <1>0, BehindKept
<1>4. Aligned'
  BY <1>0, <1>a, AlignedKept
<1>5. HandledInOrder'
  BY DEF IInv, HandledInOrder
<1>6. Step'
  BY <1>0 DEF IInv, Step, NextStart
<1> QED BY <1>1, <1>2, <1>3, <1>4, <1>5, <1>6 DEF IInv

(* A single Read returns a part of a field: what follows is misread, and   *)
(* the reader is torn.                                                     *)
LEMMA ReadShortStep == IInv /\ ReadShort => IInv'
<1> SUFFICES ASSUME IInv, ReadShort PROVE IInv'
  OBVIOUS
<1> USE Basics DEF ReadShort, Back, Least, Available, peer
<1>0. /\ Goal \in Nat /\ Goal <= limit /\ Goal >= sent[cur].start + HeaderLength
      /\ field \in 1..Len(Fields(Current))
      /\ field = Len(Fields(Current)) => Goal = limit - Length(Current) + Last(Current)
      /\ at = "payload" /\ Current' = Current
  BY GoalWithin DEF Reading, Current
<1>a. pos' \in Nat /\ limit' \in Nat /\ pos' <= arrived /\ pos' <= limit' /\ pos' > sent[cur].start
  BY <1>0, HandledBefore DEF IInv, TypeOK, Behind, HeaderLength
<1>1. TypeOK'
  BY <1>a, <1>0, TypesKept DEF IInv, TypeOK, Cause
<1>2. Places'
  BY DEF IInv, Places
<1>3. Behind'
  BY <1>a, <1>0, BehindKept
<1>4. Aligned'
  BY <1>0, <1>a DEF IInv, Aligned, TypeOK, Current
<1>5. HandledInOrder'
  BY DEF IInv, HandledInOrder
<1>6. Step'
  <2>1. arrived < limit
    BY <1>0 DEF IInv, TypeOK
  <2> QED BY <2>1 DEF Step
<1> QED BY <1>1, <1>2, <1>3, <1>4, <1>5, <1>6 DEF IInv

(* A decoder without a length reads all there is.                          *)
LEMMA ReadUntilEOFStep == IInv /\ ReadUntilEOF => IInv'
<1> SUFFICES ASSUME IInv, ReadUntilEOF PROVE IInv'
  OBVIOUS
<1> USE Basics DEF ReadUntilEOF, Back, Least, Available, peer
<1>0. /\ Goal \in Nat /\ Goal <= limit /\ Goal >= sent[cur].start + HeaderLength
      /\ field \in 1..Len(Fields(Current))
      /\ field = Len(Fields(Current)) => Goal = limit - Length(Current) + Last(Current)
      /\ at = "payload" /\ Current' = Current
  BY GoalWithin DEF Reading, Current
<1>a. pos' \in Nat /\ limit' \in Nat /\ pos' <= arrived /\ pos' <= limit' /\ pos' > sent[cur].start
  BY <1>0, HandledBefore DEF IInv, TypeOK, Behind, HeaderLength, EOF
<1>1. TypeOK'
  BY <1>a, <1>0, TypesKept DEF IInv, TypeOK, Cause
<1>2. Places'
  BY DEF IInv, Places
<1>3. Behind'
  BY <1>a, <1>0, BehindKept
<1>4. Aligned'
  <2>1. ~MayEndEarly(Current)
    <3> DEFINE count == Counted(Current)
    <3>1. CASE Current.command = "inv"
      <4>1. Fields(Current) = [j \in 1..(2 * count + 1) |->
              IF j % 2 = 1 THEN IF j = 1 THEN Full(1) ELSE Once(1 + 3 * (j \div 2))
              ELSE Full(3 * (j \div 2) - 1)]
        BY <3>1 DEF Fields
      <4>2. count \in Nat
        BY <1>0, CurrentFits, CountedCorrect
      <4> HIDE DEF count
      <4>3. field \in 1..(2 * count + 1)
        BY <1>0, <4>1, <4>2
      <4>4. Fields(Current)[field].how # "rest"
        BY <4>1, <4>3 DEF Full, Once
      <4> QED BY <4>4 DEF Reading
    <3>2. CASE Current.command = "version"
      <4>1. Fields(Current) = <<Full(1), Once(3), Full(4), Once(6), Full(7), Once(7 + count),
                                Full(8 + count)>>
        BY <3>2 DEF Fields
      <4> HIDE DEF count
      <4>2. Fields(Current)[field].how # "rest"
        BY <1>0, <4>1 DEF Full, Once
      <4> QED BY <4>2 DEF Reading
    <3>3. CASE Refused(Current)
      <4>1. Fields(Current) = <<Full(1)>>
        BY <3>3 DEF Fields, Refused
      <4>2. Fields(Current)[field].how # "rest"
        BY <1>0, <4>1 DEF Full
      <4> QED BY <4>2 DEF Reading
    <3> QED BY <3>1, <3>2, <3>3 DEF MayEndEarly
  <2>2. Last(Current) = Length(Current) /\ Length(Current) \in Nat
    BY <1>0, <2>1, CurrentFits DEF Fits
  <2>3. pos' <= limit /\ UNCHANGED <<sent, at, cur, limit>>
    BY <1>a
  <2>4. field' \in 1..(Len(Fields(Current)) + 1) /\ field \in Nat /\ Len(Fields(Current)) \in Nat
    BY <1>0, CurrentFits DEF Fits
  <2>5. field' > Len(Fields(Current)) => pos' = limit
    BY <1>0, <2>4 DEF EOF
  <2> QED BY <1>0, <2>2, <2>3, <2>4, <2>5, AlignedKept DEF IInv, TypeOK
<1>5. HandledInOrder'
  BY DEF IInv, HandledInOrder
<1>6. Step'
  BY <1>0 DEF IInv, Step, NextStart
<1> QED BY <1>1, <1>2, <1>3, <1>4, <1>5, <1>6 DEF IInv

(* A torn reader reads on in what is not its field.                        *)
LEMMA ReadTornStep == IInv /\ ReadTorn => IInv'
<1> SUFFICES ASSUME IInv, ReadTorn PROVE IInv'
  OBVIOUS
<1> USE Basics DEF ReadTorn, Back, Least, Available, peer
<1>a. pos' \in Nat /\ limit' \in Nat /\ pos' <= arrived /\ pos' <= limit' /\ pos' > sent[cur].start
  BY HandledBefore DEF IInv, TypeOK, Behind, HeaderLength
<1>1. TypeOK'
  BY <1>a, TypesKept DEF IInv, TypeOK, Cause
<1>2. Places'
  BY DEF IInv, Places
<1>3. Behind'
  BY <1>a, BehindKept
<1>4. Aligned'
  BY <1>a DEF IInv, Aligned, TypeOK, Current
<1>5. HandledInOrder'
  BY DEF IInv, HandledInOrder
<1>6. Step'
  BY DEF IInv, Step, NextStart
<1> QED BY <1>1, <1>2, <1>3, <1>4, <1>5, <1>6 DEF IInv

(* A decoder that meets the end of the stream.                             *)
LEMMA PayloadErrorStep == IInv /\ PayloadError => IInv'
<1> SUFFICES ASSUME IInv, PayloadError PROVE IInv'
  OBVIOUS
<1> USE Basics DEF PayloadError, Back, Least, Available, peer
<1>1. TypeOK'
  <2>1. End' = End
    BY DEF End
  <2> QED BY <2>1, WireAssumption DEF WireAssumption, IInv, TypeOK, Cause
<1>2. Places'
  BY DEF IInv, Places
<1>3. Behind'
  BY DEF IInv, Behind
<1>4. Aligned'
  BY DEF Aligned
<1>5. HandledInOrder'
  BY DEF IInv, HandledInOrder
<1>6. Step'
  BY DEF Step
<1> QED BY <1>1, <1>2, <1>3, <1>4, <1>5, <1>6 DEF IInv

(* handleBlock leaves without having read its payload.                     *)
LEMMA ChainTipFailsStep == IInv /\ ChainTipFails => IInv'
<1> SUFFICES ASSUME IInv, ChainTipFails PROVE IInv'
  OBVIOUS
<1> USE Basics DEF ChainTipFails, Back, Least, Available, peer
<1>1. TypeOK'
  <2>1. End' = End
    BY DEF End
  <2> QED BY <2>1, WireAssumption DEF WireAssumption, IInv, TypeOK, Cause
<1>2. Places'
  BY DEF IInv, Places
<1>3. Behind'
  BY DEF IInv, Behind
<1>4. Aligned'
  BY DEF Aligned
<1>5. HandledInOrder'
  BY DEF IInv, HandledInOrder
<1>6. Step'
  BY DEF Step
<1> QED BY <1>1, <1>2, <1>3, <1>4, <1>5, <1>6 DEF IInv

(* The decoder of a filter leaves at a type it does not know.              *)
LEMMA RefuseFilterStep == IInv /\ RefuseFilter => IInv'
<1> SUFFICES ASSUME IInv, RefuseFilter PROVE IInv'
  OBVIOUS
<1> USE Basics DEF RefuseFilter, Back, peer
<1>1. TypeOK'
  <2>1. End' = End
    BY DEF End
  <2> QED BY <2>1, WireAssumption DEF WireAssumption, IInv, TypeOK, Cause
<1>2. Places'
  BY DEF IInv, Places
<1>3. Behind'
  BY DEF IInv, Behind
<1>4. Aligned'
  BY DEF Aligned
<1>5. HandledInOrder'
  BY DEF IInv, HandledInOrder
<1>6. Step'
  BY DEF Step
<1> QED BY <1>1, <1>2, <1>3, <1>4, <1>5, <1>6 DEF IInv

(* A handler that has read its payload returns.                            *)
LEMMA ReturnStep == IInv /\ Return => IInv'
<1> SUFFICES ASSUME IInv, Return PROVE IInv'
  OBVIOUS
<1> USE Basics DEF Return, Back, Least, Available, peer
<1>0. /\ Current \in Message /\ Fits(Current) /\ Length(Current) \in Nat
      /\ limit = sent[cur].start + HeaderLength + Length(Current)
  BY CurrentFits DEF Decoded
<1> DEFINE e == [n |-> cur, intact |-> Intact]
<1>a. cur \in 1..Len(sent) /\ e \in Handled /\ at \in {"payload", "answer"}
  BY <1>0, HandledBefore DEF Handled, Decoded, Intact
<1>d. /\ handled' \in Seq(Handled)
      /\ Len(handled') = Len(handled) + 1
      /\ \A k \in 1..Len(handled) : handled'[k] = handled[k]
      /\ handled'[Len(handled) + 1] = e
  BY <1>a, HandledGrows
<1>e. e.n = cur /\ \A k \in 1..Len(handled) : handled[k].n < cur
  BY <1>a DEF IInv, Behind
<1>f. sent[cur].start < pos
  BY <1>a DEF IInv, Behind
<1>g. handled' = Append(handled, e) /\ at' = "header"
  OBVIOUS
<1> HIDE DEF e
<1>1. TypeOK'
  <2>1. End' = End
    BY DEF End
  <2> QED BY <1>d, <2>1, WireAssumption DEF WireAssumption, IInv, TypeOK, Cause, Leaves
<1>2. Places'
  BY DEF IInv, Places
<1>3. Behind'
  BY <1>a, <1>e, <1>g, BehindReturned
<1>4. Aligned'
  BY DEF Aligned
<1>5. HandledInOrder'
  BY <1>a, <1>e, <1>g, BehindReturned
<1>6. Step'
  <2> SUFFICES ASSUME spoiled' = {} PROVE Step'
    BY DEF Step
  <2>1. spoiled = {} /\ cur = Len(handled) + 1 /\ at = "payload"
    BY <1>a DEF IInv, Step, Decoded
  <2>2. pos = limit - Length(Current) + Last(Current) /\ limit = sent[cur].end
    BY <2>1, <1>0 DEF IInv, Aligned, Decoded, Fits
  <2>3. pos = limit /\ Counted(Current) = Current.n
    <3>1. Leaves = {}
      OBVIOUS
    <3>2. ~(pos < limit)
      BY <3>1 DEF Leaves
    <3>3. Last(Current) = Length(Current) \/ Last(Current) < Length(Current)
      BY <1>0, FitsLast
    <3>4. limit \in Nat /\ pos \in Nat /\ Last(Current) \in Nat
      BY <1>0, Basics DEF Fits, Last, IInv, TypeOK
    <3> HIDE DEF Return, Back, Least, Available, peer
    <3>5. ~(Last(Current) < Length(Current))
      BY <1>0, <2>2, <3>2, <3>4
    <3>6. Last(Current) = Length(Current) /\ Counted(Current) = Current.n
      BY <1>0, <3>4, <3>5, FitsLast
    <3>7. pos = limit - Length(Current) + Length(Current)
      BY <2>2, <3>6
    <3> QED BY <1>0, <3>4, <3>6, <3>7
  <2>4. e = [n |-> cur, intact |-> TRUE]
    BY <2>3 DEF e, Intact
  <2>5. /\ Len(handled') = Len(handled) + 1 /\ sent' = sent /\ pos' = pos /\ at' = "header"
        /\ pos = sent[cur].end /\ cur = Len(handled) + 1 /\ cur \in 1..Len(sent)
    BY <1>a, <1>d, <2>1, <2>2, <2>3
  <2>6. \A k \in 1..Len(handled') : handled'[k] = [n |-> k, intact |-> TRUE]
    <3> TAKE k \in 1..Len(handled')
    <3>1. CASE k = Len(handled) + 1
      BY <1>d, <2>1, <2>3, <2>4, <3>1
    <3>2. CASE k # Len(handled) + 1
      <4>1. k \in 1..Len(handled) /\ handled'[k] = handled[k]
        BY <1>d, <3>2, Basics
      <4>2. handled[k] = [n |-> k, intact |-> TRUE]
        BY <2>1, <4>1 DEF IInv, Step
      <4> QED BY <4>1, <4>2
    <3> QED BY <3>1, <3>2
  <2>7. NextStart(Len(handled))' = sent[cur].end
    BY <2>5 DEF NextStart
  <2> QED BY <2>5, <2>6, <2>7 DEF Step
<1> QED BY <1>1, <1>2, <1>3, <1>4, <1>5, <1>6 DEF IInv

(* A handler that read the wrong cells returns.                            *)
LEMMA ReturnTornStep == IInv /\ ReturnTorn => IInv'
<1> SUFFICES ASSUME IInv, ReturnTorn PROVE IInv'
  OBVIOUS
<1> USE Basics DEF ReturnTorn, Back, Least, Available, peer
<1> DEFINE e == [n |-> cur, intact |-> FALSE]
<1>a. cur \in 1..Len(sent) /\ e \in Handled /\ at = "torn"
  BY HandledBefore DEF Handled
<1>b. CASE handled' = handled
  <2>1. TypeOK'
    <3>1. End' = End
      BY DEF End
    <3> QED BY <1>b, <3>1, WireAssumption DEF WireAssumption, IInv, TypeOK, Cause
  <2>2. Places' /\ Behind' /\ Aligned' /\ HandledInOrder'
    BY <1>b DEF IInv, Places, Behind, Aligned, HandledInOrder
  <2>3. Step'
    BY <1>a DEF IInv, Step
  <2> QED BY <2>1, <2>2, <2>3 DEF IInv
<1>c. CASE handled' = Append(handled, e)
  <2>d. /\ handled' \in Seq(Handled)
        /\ Len(handled') = Len(handled) + 1
        /\ \A k \in 1..Len(handled) : handled'[k] = handled[k]
        /\ handled'[Len(handled) + 1] = e
    BY <1>c, <1>a, HandledGrows
  <2>e. e.n = cur /\ \A k \in 1..Len(handled) : handled[k].n < cur
    BY <1>a DEF IInv, Behind
  <2>f. sent[cur].start < pos
    BY <1>a DEF IInv, Behind
  <2>1. TypeOK'
    <3>1. End' = End
      BY DEF End
    <3> QED BY <2>d, <3>1, WireAssumption DEF WireAssumption, IInv, TypeOK, Cause
  <2>2. Places'
    BY DEF IInv, Places
  <2>3. Behind'
    BY <1>a, <1>c, <2>e, BehindReturned
  <2>4. Aligned'
    BY DEF Aligned
  <2>5. HandledInOrder'
    BY <1>a, <1>c, <2>e, BehindReturned
  <2>6. Step'
    BY <1>a DEF IInv, Step
  <2> QED BY <2>1, <2>2, <2>3, <2>4, <2>5, <2>6 DEF IInv
<1> QED BY <1>b, <1>c

(* handleGetCFilters has come to the end of its range.                     *)
LEMMA FinishAnswerStep == IInv /\ FinishAnswer => IInv'
<1> SUFFICES ASSUME IInv, FinishAnswer PROVE IInv'
  OBVIOUS
<1> USE Basics DEF FinishAnswer, Back, Least, Available, peer
<1>0. /\ Current \in Message /\ Fits(Current) /\ Length(Current) \in Nat
      /\ limit = sent[cur].start + HeaderLength + Length(Current)
  BY CurrentFits DEF Decoded
<1> DEFINE e == [n |-> cur, intact |-> Intact]
<1>a. cur \in 1..Len(sent) /\ e \in Handled /\ at \in {"payload", "answer"}
  BY <1>0, HandledBefore DEF Handled, Decoded, Intact
<1>d. /\ handled' \in Seq(Handled)
      /\ Len(handled') = Len(handled) + 1
      /\ \A k \in 1..Len(handled) : handled'[k] = handled[k]
      /\ handled'[Len(handled) + 1] = e
  BY <1>a, HandledGrows
<1>e. e.n = cur /\ \A k \in 1..Len(handled) : handled[k].n < cur
  BY <1>a DEF IInv, Behind
<1>f. sent[cur].start < pos
  BY <1>a DEF IInv, Behind
<1>g. handled' = Append(handled, e) /\ at' = "header"
  OBVIOUS
<1> HIDE DEF e
<1>1. TypeOK'
  <2>1. End' = End
    BY DEF End
  <2> QED BY <1>d, <2>1, WireAssumption DEF WireAssumption, IInv, TypeOK, Cause
<1>2. Places'
  BY DEF IInv, Places
<1>3. Behind'
  BY <1>a, <1>e, <1>g, BehindReturned
<1>4. Aligned'
  BY DEF Aligned
<1>5. HandledInOrder'
  BY <1>a, <1>e, <1>g, BehindReturned
<1>6. Step'
  <2> SUFFICES ASSUME spoiled' = {} PROVE Step'
    BY DEF Step
  <2>1. spoiled = {} /\ cur = Len(handled) + 1
    BY <1>a DEF IInv, Step
  <2>2. pos = limit /\ limit = sent[cur].end /\ Counted(Current) = Current.n
    BY <1>0, CountedCorrect DEF IInv, Aligned
  <2>3. e = [n |-> Len(handled) + 1, intact |-> TRUE]
    BY <2>1, <2>2 DEF e, Intact
  <2>5. /\ Len(handled') = Len(handled) + 1 /\ sent' = sent /\ pos' = pos /\ at' = "header"
        /\ pos = sent[cur].end /\ cur = Len(handled) + 1 /\ cur \in 1..Len(sent)
    BY <1>a, <1>d, <2>1, <2>2, <2>3
  <2>6. \A k \in 1..Len(handled') : handled'[k] = [n |-> k, intact |-> TRUE]
    <3> TAKE k \in 1..Len(handled')
    <3>1. CASE k = Len(handled) + 1
      BY <1>d, <2>1, <2>3, <3>1
    <3>2. CASE k # Len(handled) + 1
      <4>1. k \in 1..Len(handled) /\ handled'[k] = handled[k]
        BY <1>d, <3>2, Basics
      <4>2. handled[k] = [n |-> k, intact |-> TRUE]
        BY <2>1, <4>1 DEF IInv, Step
      <4> QED BY <4>1, <4>2
    <3> QED BY <3>1, <3>2
  <2>7. NextStart(Len(handled))' = sent[cur].end
    BY <2>5 DEF NextStart
  <2> QED BY <2>5, <2>6, <2>7 DEF Step
<1> QED BY <1>1, <1>2, <1>3, <1>4, <1>5, <1>6 DEF IInv

(* handleGetCFilters goes on to the next height.                           *)
LEMMA AnswerStep == IInv /\ Answer => IInv'
<1> SUFFICES ASSUME IInv, Answer PROVE IInv'
  OBVIOUS
<1> USE Basics DEF Answer, Back, Least, Available, peer
<1>0. height \in 1..Tip /\ height' = height - 1
  <2>1. Current.n \in Nat /\ height \in 0..Tip /\ Tip \in Nat /\ Word \in Nat /\ Tip < Word
    BY CurrentFits, WireAssumption DEF WireAssumption, IInv, TypeOK
  <2>2. height \in 1..Tip
    BY <2>1 DEF Above
  <2>3. height # 0
    BY <2>1, <2>2
  <2> QED BY <2>2, <2>3
<1>1. TypeOK'
  <2>1. End' = End
    BY DEF End
  <2> QED BY <1>0, <2>1, WireAssumption DEF WireAssumption, IInv, TypeOK, Cause
<1>2. Places'
  BY DEF IInv, Places
<1>3. Behind'
  BY DEF IInv, Behind
<1>4. Aligned'
  BY DEF IInv, Aligned, Current
<1>5. HandledInOrder'
  BY DEF IInv, HandledInOrder
<1>6. Step'
  BY DEF IInv, Step, NextStart
<1> QED BY <1>1, <1>2, <1>3, <1>4, <1>5, <1>6 DEF IInv

(* What is no header, or has an unknown command, is dropped.               *)
LEMMA DropHeaderStep == IInv /\ DropHeader => IInv'
<1> SUFFICES ASSUME IInv, DropHeader PROVE IInv'
  OBVIOUS
<1> USE Basics DEF DropHeader, Back, Least, Available, peer
<1>1. TypeOK'
  <2>1. End' = End
    BY DEF End
  <2> QED BY <2>1 DEF IInv, TypeOK, Cause, Drops, HeaderLength
<1>2. Places'
  BY DEF IInv, Places
<1>3. Behind'
  <2>1. at' = "header" /\ UNCHANGED <<sent, handled>>
    OBVIOUS
  <2>2. pos \in Nat /\ pos' \in Nat /\ pos' >= pos
    BY DEF HeaderLength
  <2>3. \A k \in 1..Len(handled) :
          handled[k].n \in 1..Len(sent) /\ sent[handled[k].n].start < pos
    BY DEF IInv, Behind
  <2>4. \A i \in 1..Len(sent) : sent[i].start \in Nat
    OBVIOUS
  <2> HIDE Basics DEF DropHeader, Back, Least, Available, peer
  <2> QED BY <2>1, <2>2, <2>3, <2>4 DEF Behind
<1>4. Aligned'
  BY DEF Aligned
<1>5. HandledInOrder'
  BY DEF IInv, HandledInOrder
<1>6. Step'
  BY DEF Step, Drops
<1> QED BY <1>1, <1>2, <1>3, <1>4, <1>5, <1>6 DEF IInv

(* handlePeerMessages meets the end of the stream.                         *)
LEMMA ReadErrorStep == IInv /\ ReadError => IInv'
<1> SUFFICES ASSUME IInv, ReadError PROVE IInv'
  OBVIOUS
<1> USE Basics DEF ReadError, Back, Least, Available, peer
<1>1. TypeOK'
  <2>1. End' = End
    BY DEF End
  <2> QED BY <2>1 DEF IInv, TypeOK, Cause, AfterReadError
<1>2. Places'
  BY DEF IInv, Places
<1>3. Behind'
  BY DEF IInv, Behind, AfterReadError
<1>4. Aligned'
  BY DEF Aligned, AfterReadError
<1>5. HandledInOrder'
  BY DEF IInv, HandledInOrder
<1>6. Step'
  BY DEF IInv, Step, NextStart, AfterReadError
<1> QED BY <1>1, <1>2, <1>3, <1>4, <1>5, <1>6 DEF IInv

(* A part of what was sent arrives.                                        *)
LEMMA ArriveStep == IInv /\ Arrive => IInv'
<1> SUFFICES ASSUME IInv, Arrive PROVE IInv'
  OBVIOUS
<1> USE Basics DEF Arrive, Back, Least, Available, peer
<1>1. TypeOK'
  <2>1. End' = End
    BY DEF End
  <2> QED BY <2>1 DEF IInv, TypeOK
<1>2. Places'
  BY DEF IInv, Places
<1>3. Behind'
  BY DEF IInv, Behind
<1>4. Aligned'
  BY DEF IInv, Aligned, Current
<1>5. HandledInOrder'
  BY DEF IInv, HandledInOrder
<1>6. Step'
  BY DEF IInv, Step, NextStart
<1> QED BY <1>1, <1>2, <1>3, <1>4, <1>5, <1>6 DEF IInv

(* The peer closes the connection.                                         *)
LEMMA CloseStep == IInv /\ Close => IInv'
<1> SUFFICES ASSUME IInv, Close PROVE IInv'
  OBVIOUS
<1> USE Basics DEF Close, Back, Least, Available, peer
<1>1. TypeOK'
  <2>1. End' = End
    BY DEF End
  <2> QED BY <2>1 DEF IInv, TypeOK
<1>2. Places'
  BY DEF IInv, Places
<1>3. Behind'
  BY DEF IInv, Behind
<1>4. Aligned'
  BY DEF IInv, Aligned, Current
<1>5. HandledInOrder'
  BY DEF IInv, HandledInOrder
<1>6. Step'
  BY DEF IInv, Step, NextStart
<1> QED BY <1>1, <1>2, <1>3, <1>4, <1>5, <1>6 DEF IInv

(* The peer sends a message behind what it has sent.                       *)
LEMMA SendStep == ASSUME IInv, NEW m \in Message, Send(m) PROVE IInv'
<1> USE Basics DEF Send
<1> DEFINE new == [message |-> m, start |-> End, end |-> End + HeaderLength + Length(m)]
<1>1. /\ Length(m) \in Nat /\ End \in Nat
      /\ new \in Placed /\ new.start = End /\ new.end = End + HeaderLength + Length(m)
      /\ new.message = m
  BY LengthType DEF Placed, HeaderLength
<1>2. /\ sent' \in Seq(Placed) /\ Len(sent') = Len(sent) + 1
      /\ \A i \in 1..Len(sent) : sent'[i] = sent[i]
      /\ sent'[Len(sent) + 1] = new
  BY <1>1 DEF IInv, TypeOK
<1> HIDE DEF new
<1>3. End' = new.end /\ End' >= End
  BY <1>1, <1>2 DEF End, HeaderLength
<1>4. TypeOK'
  <2>1. End' \in Nat /\ arrived' \in 0..End' /\ pos' \in 0..arrived'
    BY <1>1, <1>3 DEF IInv, TypeOK, HeaderLength
  <2>2. cur' \in 0..Len(sent')
    BY <1>2 DEF IInv, TypeOK
  <2> QED BY <1>2, <2>1, <2>2 DEF IInv, TypeOK
<1>5. Places'
  <2>1. ASSUME NEW i \in 1..Len(sent')
        PROVE  sent'[i].end = sent'[i].start + HeaderLength + Length(sent'[i].message)
    BY <1>1, <1>2 DEF IInv, Places
  <2>2. ASSUME NEW i \in 1..Len(sent'), NEW j \in 1..Len(sent'), i < j
        PROVE  sent'[i].end <= sent'[j].start
    <3>1. i \in 1..Len(sent) /\ sent'[i] = sent[i]
      BY <1>2, <2>2
    <3>2. CASE j = Len(sent) + 1
      BY <1>1, <1>2, <3>1, <3>2, InOrder
    <3>3. CASE j # Len(sent) + 1
      BY <1>2, <2>2, <3>1, <3>3 DEF IInv, Places
    <3> QED BY <3>2, <3>3
  <2> QED BY <2>1, <2>2 DEF Places, HeaderLength
<1>6. Behind'
  BY <1>2 DEF IInv, Behind
<1>7. Aligned'
  <2>1. at \in {"payload", "answer"} => Current' = Current /\ sent'[cur] = sent[cur]
    BY <1>2, HandledBefore DEF Current
  <2> QED BY <2>1 DEF IInv, Aligned
<1>8. HandledInOrder'
  BY DEF IInv, HandledInOrder
<1>9. Step'
  BY <1>2 DEF IInv, Step, NextStart
<1> QED BY <1>4, <1>5, <1>6, <1>7, <1>8, <1>9 DEF IInv

(* handlePeerMessages reads the header of a message that starts here.      *)
LEMMA ReadHeaderStep == ASSUME IInv, NEW i \in 1..Len(sent), ReadHeader(i) PROVE IInv'
<1> USE Basics DEF ReadHeader, StartsHere, Available, peer, HeaderLength
<1>1. /\ sent[i].start = pos /\ sent[i].message \in Message /\ Length(sent[i].message) \in Nat
      /\ Fits(sent[i].message)
      /\ sent[i].end = pos + HeaderLength + Length(sent[i].message)
  BY FieldsFit, LengthType DEF IInv, Places
<1>2. \A k \in 1..Len(handled) : handled[k].n < i
  BY <1>1, BehindEntered
<1>3. TypeOK'
  BY <1>1, TypesKept DEF IInv, TypeOK
<1>4. Places'
  BY DEF IInv, Places
<1>5. Behind'
  BY <1>1, BehindEntered
<1>6. Aligned'
  <2>1. Current' = sent[i].message /\ limit' = sent[i].end /\ at' = "payload" /\ field' = 1
        /\ pos' = pos + HeaderLength /\ pos' <= limit' /\ sent' = sent /\ cur' = i
    BY <1>1 DEF Current
  <2>2. /\ Len(Fields(Current')) \in Nat
        /\ 1 > Len(Fields(Current')) => Last(Current') = 0
    BY <1>1, <2>1 DEF Fits, Last
  <2> QED BY <1>1, <2>1, <2>2 DEF Aligned
<1>7. HandledInOrder'
  BY DEF IInv, HandledInOrder
<1>8. Step'
  <2> SUFFICES ASSUME spoiled = {} PROVE Step'
    BY DEF Step
  <2>1. pos = NextStart(Len(handled)) /\ Len(handled) <= Len(sent)
        /\ \A k \in 1..Len(handled) : handled[k] = [n |-> k, intact |-> TRUE]
    BY DEF IInv, Step
  <2>2. Len(handled) < i
    <3>1. CASE Len(handled) = 0
      BY <3>1
    <3>2. CASE Len(handled) # 0
      <4>1. Len(handled) \in 1..Len(handled)
        BY <3>2
      <4>2. handled[Len(handled)].n < i
        BY <1>2, <4>1
      <4>3. handled[Len(handled)] = [n |-> Len(handled), intact |-> TRUE]
        BY <2>1, <4>1
      <4> QED BY <4>2, <4>3
    <3> QED BY <3>1, <3>2
  <2>3. CASE i > Len(handled) + 1
    <3> DEFINE next == Len(handled) + 1
    <3>1. next \in 1..Len(sent)
      BY <2>1, <2>3
    <3>2. sent[next].start \in Nat /\ sent[next].start < pos
      BY <1>1, <2>3, <3>1, InOrder
    <3>3. CASE Len(handled) = 0
      BY <2>1, <3>2, <3>3 DEF NextStart
    <3>4. CASE Len(handled) # 0
      <4>1. Len(handled) \in 1..Len(sent) /\ Len(handled) < next
        BY <2>1, <3>4
      <4>2. sent[Len(handled)].end <= sent[next].start /\ pos = sent[Len(handled)].end
        BY <2>1, <3>1, <3>4, <4>1, InOrder DEF NextStart
      <4> QED BY <3>2, <4>2
    <3> QED BY <3>3, <3>4
  <2> QED BY <2>1, <2>2, <2>3 DEF Step
<1> QED BY <1>3, <1>4, <1>5, <1>6, <1>7, <1>8 DEF IInv

(* A header that arrived in part passes for a whole one.                   *)
LEMMA ReadCutHeaderStep ==
  ASSUME IInv, NEW i \in 1..Len(sent), ReadCutHeader(i) PROVE IInv'
<1> USE Basics DEF ReadCutHeader, StartsHere, Available, peer, HeaderLength
<1>1. /\ sent[i].start = pos /\ Length(sent[i].message) \in Nat
      /\ pos' \in Nat /\ pos' > pos
  BY LengthType
<1>2. \A k \in 1..Len(handled) : handled[k].n < i
  BY <1>1, BehindEntered
<1>3. TypeOK'
  <2>1. limit' \in Nat /\ spoiled' \subseteq Cause /\ pos' \in Nat /\ pos' <= arrived
    BY <1>1 DEF IInv, TypeOK, Cause
  <2> QED BY <2>1, TypesKept DEF IInv, TypeOK
<1>4. Places' /\ HandledInOrder'
  BY DEF IInv, Places, HandledInOrder
<1>5. Behind'
  BY <1>1, BehindEntered
<1>6. Aligned' /\ Step'
  BY <1>1 DEF Aligned, Step
<1> QED BY <1>3, <1>4, <1>5, <1>6 DEF IInv

(* handleGetCFilters starts on its range.                                  *)
LEMMA StartAnswerStep ==
  ASSUME IInv, NEW stop \in 0..Tip, StartAnswer(stop) PROVE IInv'
<1> USE Basics DEF StartAnswer, Decoded, peer
<1>1. /\ Fits(Current) /\ Length(Current) \in Nat /\ sent[cur].start \in Nat
      /\ limit = sent[cur].start + HeaderLength + Length(Current)
  BY CurrentFits
<1>2. pos = limit
  <2>1. Last(Current) = Length(Current)
    BY <1>1, FitsLast DEF MayEndEarly, Refused
  <2>2. pos = limit - Length(Current) + Last(Current)
    BY DEF IInv, Aligned
  <2> QED BY <1>1, <2>1, <2>2 DEF HeaderLength
<1>3. TypeOK'
  <2>1. End' = End
    BY DEF End
  <2> QED BY <2>1 DEF IInv, TypeOK
<1>4. Places' /\ HandledInOrder' /\ Behind'
  BY DEF IInv, Places, HandledInOrder, Behind
<1>5. Aligned'
  BY <1>1, <1>2 DEF IInv, Aligned, Current
<1>6. Step'
  BY DEF IInv, Step
<1> QED BY <1>3, <1>4, <1>5, <1>6 DEF IInv

(* No step breaks the invariant.                                           *)
LEMMA NextStep == IInv /\ [Next]_vars => IInv'
<1> SUFFICES ASSUME IInv, [Next]_vars PROVE IInv'
  OBVIOUS
<1>1. CASE UNCHANGED vars
  BY <1>1 DEF vars, IInv, TypeOK, Places, Behind, Aligned, HandledInOrder, Step, NextStart, End,
     Current
<1>2. ASSUME NEW m \in Message, Send(m) PROVE IInv'
  BY <1>2, SendStep
<1>3. CASE Arrive \/ Close
  BY <1>3, ArriveStep, CloseStep
<1>4. CASE Reader
  <2>1. ASSUME NEW i \in 1..Len(sent), ReadHeader(i) \/ ReadCutHeader(i) PROVE IInv'
    BY <2>1, ReadHeaderStep, ReadCutHeaderStep
  <2>2. CASE DropHeader \/ ReadError
    BY <2>2, DropHeaderStep, ReadErrorStep
  <2>3. CASE ReadFull \/ ReadOnce \/ ReadShort \/ ReadUntilEOF \/ ReadTorn
    BY <2>3, ReadFullStep, ReadOnceStep, ReadShortStep, ReadUntilEOFStep, ReadTornStep
  <2>4. CASE PayloadError \/ ChainTipFails \/ RefuseFilter
    BY <2>4, PayloadErrorStep, ChainTipFailsStep, RefuseFilterStep
  <2>5. CASE Return \/ ReturnTorn
    BY <2>5, ReturnStep, ReturnTornStep
  <2>6. ASSUME NEW stop \in 0..Tip, StartAnswer(stop) PROVE IInv'
    BY <2>6, StartAnswerStep
  <2>7. CASE Answer \/ FinishAnswer
    BY <2>7, AnswerStep, FinishAnswerStep
  <2> QED BY <1>4, <2>1, <2>2, <2>3, <2>4, <2>5, <2>6, <2>7 DEF Reader
<1> QED BY <1>1, <1>2, <1>3, <1>4 DEF Next

(* The invariant holds in every state of every behaviour.                  *)
THEOREM Invariant == Spec => []IInv
<1>1. Init => IInv
  BY InitInv
<1>2. IInv /\ [Next]_vars => IInv'
  BY NextStep
<1> QED BY <1>1, <1>2, PTL DEF Spec

(* Types: what was read has arrived, what has arrived was sent, and the    *)
(* loop variable of handleGetCFilters stays within the stored chain.       *)
THEOREM Typing == Spec => []TypeOK
<1>1. IInv => TypeOK
  BY DEF IInv
<1> QED BY <1>1, Invariant, PTL

(* The reader stays in step, whatever is sent and however the stream is    *)
(* cut, unless a header or a field was cut, or the message had an unknown  *)
(* command, a count of more than a byte in an inv or a user agent, a       *)
(* filter of another type, a failing database or a lost connection.        *)
THEOREM StaysInStep == Spec => []InStep
<1>1. IInv => InStep
  BY DEF IInv, InStep, Step
<1> QED BY <1>1, Invariant, PTL
==============================================================================
