-------------------------- MODULE AutoDetectProofs --------------------------
(***************************************************************************)
(* Format detection, for every set of byte strings: no index runs past the *)
(* input, the answer is the table's, and which well-formed messages are    *)
(* taken for the other format is known exactly.                            *)
(***************************************************************************)
EXTENDS AutoDetect, SequenceTheorems, TLAPS

-----------------------------------------------------------------------------
(* Where PRI ends, and what comes after it. *)

Opens(g) == /\ g \in 2..Len(input) /\ input[1] = LT /\ input[g] = GT
            /\ \A i \in 2..(g - 1) : input[i] # GT
Rest(g)  == SubSeq(input, g + 1, Len(input))

LEMMA RestIs ==
    ASSUME input \in Seq(0..255), NEW g \in 1..Len(input)
    PROVE  /\ Rest(g) \in Seq(0..255) /\ Len(Rest(g)) = Len(input) - g
           /\ \A i \in 1..(Len(input) - g) : Rest(g)[i] = input[g + i]
<1> DEFINE n == Len(input)
           a == g + 1
<1>0. Len(input) \in Nat /\ \A i \in 1..Len(input) : input[i] \in 0..255
  BY LenProperties, ElementOfSeq
<1>1. a \in Int /\ n \in Int /\ \A i \in a..n : input[i] \in 0..255
  BY <1>0
<1>2. a = g + 1 /\ n = Len(input)
  OBVIOUS
<1> HIDE DEF n, a
<1>3. /\ SubSeq(input, a, n) \in Seq(0..255)
      /\ Len(SubSeq(input, a, n)) = IF a <= n THEN n - a + 1 ELSE 0
      /\ \A i \in 1..(n - a + 1) : SubSeq(input, a, n)[i] = input[a + i - 1]
  BY <1>1, SubSeqProperties
<1>4. Rest(g) = SubSeq(input, a, n)
  BY <1>2 DEF Rest
<1> QED
  BY <1>2, <1>3, <1>4

LEMMA OpensOnce ==
    ASSUME input \in Seq(0..255), NEW g, NEW h, Opens(g), Opens(h)
    PROVE  g = h
  BY DEF Opens

(* The table's three ways to open after PRI. *)
TableStart(s) == Len(s) > 0 /\ s[1] \in Letter \cup {Space, Star, 48}
TableLong(s)  == Len(s) > 3 /\ s[1] \in NonZero /\ \A i \in 1..4 : s[i] \in Digit
TableCount(s) == \E k \in 1..3 : /\ Len(s) > k /\ s[1] \in NonZero /\ s[k + 1] = Colon
                                 /\ \A i \in 1..k : s[i] \in Digit
TableMonth == Len(input) > 3 /\ SubSeq(input, 1, 3) \in Months /\ input[4] = Space
TableYear  == Len(input) > 4 /\ input[5] = Dash /\ \A i \in 1..4 : input[i] \in Digit

Right(f) ==
    /\ AfterPRI(input, Version) => f = "rfc5424"
    /\ AfterPRI(input, Family3164) => (f = "rfc5424" <=> AfterPRI(input, Misread))
    /\ f = "rfc3164" <=> \/ AfterPRI(input, TableStart) \/ AfterPRI(input, TableLong)
                         \/ AfterPRI(input, TableCount) \/ TableMonth \/ TableYear

(* What is said of the first '>' is said of the rest behind it. *)
LEMMA AfterIs ==
    ASSUME input \in Seq(0..255), NEW g, Opens(g)
    PROVE  /\ AfterPRI(input, Version) <=> Version(Rest(g))
           /\ AfterPRI(input, Family3164) <=> Family3164(Rest(g))
           /\ AfterPRI(input, Misread) <=> Misread(Rest(g))
           /\ AfterPRI(input, TableStart) <=> TableStart(Rest(g))
           /\ AfterPRI(input, TableLong) <=> TableLong(Rest(g))
           /\ AfterPRI(input, TableCount) <=> TableCount(Rest(g))
<1>1. \A h : Opens(h) <=> h = g
  BY OpensOnce
<1>2. \A h : Opens(h) <=> /\ h \in 2..Len(input) /\ input[1] = LT /\ input[h] = GT
                          /\ \A i \in 2..(h - 1) : input[i] # GT
  BY Zenon DEF Opens
<1>3. AfterPRI(input, Version) <=> Version(Rest(g))
  BY <1>1, <1>2, Zenon DEF AfterPRI, Rest
<1>4. AfterPRI(input, Family3164) <=> Family3164(Rest(g))
  BY <1>1, <1>2, Zenon DEF AfterPRI, Rest
<1>8. AfterPRI(input, Misread) <=> Misread(Rest(g))
  BY <1>1, <1>2, Zenon DEF AfterPRI, Rest
<1>5. AfterPRI(input, TableStart) <=> TableStart(Rest(g))
  BY <1>1, <1>2, Zenon DEF AfterPRI, Rest
<1>6. AfterPRI(input, TableLong) <=> TableLong(Rest(g))
  BY <1>1, <1>2, Zenon DEF AfterPRI, Rest
<1>7. AfterPRI(input, TableCount) <=> TableCount(Rest(g))
  BY <1>1, <1>2, Zenon DEF AfterPRI, Rest
<1> QED
  BY <1>3, <1>4, <1>5, <1>6, <1>7, <1>8

LEMMA AfterNone ==
    ASSUME \A g : ~Opens(g)
    PROVE  /\ ~AfterPRI(input, Version) /\ ~AfterPRI(input, Family3164)
           /\ ~AfterPRI(input, TableStart) /\ ~AfterPRI(input, TableLong)
           /\ ~AfterPRI(input, TableCount)
<1>1. \A h : ~(/\ h \in 2..Len(input) /\ input[1] = LT /\ input[h] = GT
               /\ \A i \in 2..(h - 1) : input[i] # GT)
  BY Zenon DEF Opens
<1> QED
  BY <1>1, Zenon DEF AfterPRI

(* No month and no digit is a '<'. *)
LEMMA MonthsOpen ==
    ASSUME input \in Seq(0..255), Len(input) > 0, input[1] = LT
    PROVE  ~TableMonth /\ ~TableYear
<1>1. ~TableYear
  BY DEF TableYear, Digit, LT
<1>2. ASSUME TableMonth PROVE FALSE
  <2>1. Len(input) > 3 /\ SubSeq(input, 1, 3) \in Months
    BY <1>2 DEF TableMonth
  <2>2. SubSeq(input, 1, 3)[1] = input[1]
    BY <2>1, SubSeqProperties
  <2>3. \A m \in Months : m[1] # 60
    BY DEF Months
  <2> QED
    BY <2>1, <2>2, <2>3 DEF LT
<1> QED
  BY <1>1, <1>2

(* detectWithoutPRI (detect.go:6-98) where there is no PRI. *)
LEMMA WithoutPRI ==
    ASSUME input \in Seq(0..255), \A g : ~Opens(g)
    PROVE  Right(detectWithoutPRI(input)) /\ detectWithoutPRI(input) \in {"rfc3164", "rfc5424"}
<1>1. detectWithoutPRI(input) = IF TableMonth \/ TableYear THEN "rfc3164" ELSE "rfc5424"
  <2>1. hasRFC3164MonthPrefix(input) <=> TableMonth
    BY DEF hasRFC3164MonthPrefix, TableMonth
  <2>2. (Len(input) >= 5 /\ input[5] = Dash /\ \A i \in 1..4 : input[i] \in Digit) <=> TableYear
    BY DEF TableYear
  <2> QED
    BY <2>1, <2>2, Zenon DEF detectWithoutPRI
<1> QED
  BY <1>1, AfterNone DEF Right

(* First (detect.go) on the byte behind PRI, if it is no VERSION's. *)
LEMMA FirstByte ==
    ASSUME input \in Seq(0..255), NEW g, Opens(g),
           Len(input) = g \/ input[g + 1] \notin NonZero
    PROVE  Right(IF Len(input) > g /\ input[g + 1] \in StampStart THEN "rfc3164" ELSE "rfc5424")
<1> DEFINE s == Rest(g)
           f == IF Len(input) > g /\ input[g + 1] \in StampStart THEN "rfc3164" ELSE "rfc5424"
<1>1. g \in 1..Len(input) /\ Len(input) > 0 /\ input[1] = LT
  BY DEF Opens
<1>2. /\ Len(s) = Len(input) - g
      /\ \A i \in 1..(Len(input) - g) : s[i] = input[g + i]
  BY <1>1, RestIs
<1>3. Len(s) \in Nat /\ (Len(s) > 0 <=> Len(input) > g) /\ (Len(s) > 0 => s[1] = input[g + 1])
  BY <1>1, <1>2
<1> HIDE DEF s
<1>4. Len(s) > 0 => s[1] \notin NonZero
  BY <1>1, <1>3
<1>5. ~Version(s) /\ ~TableLong(s) /\ ~TableCount(s)
  BY <1>3, <1>4 DEF Version, TableLong, TableCount
<1>6. TableStart(s) <=> f = "rfc3164"
  BY <1>3 DEF TableStart, StampStart
<1>7. f \in {"rfc3164", "rfc5424"}
  OBVIOUS
<1> HIDE DEF f
<1>8. Family3164(s) => (f = "rfc5424" <=> Misread(s))
  <2>1. CASE Len(s) = 0
    BY <2>1 DEF Family3164, Stamp, Year, FourDigits, Counter, HostName
  <2>2. CASE TableStart(s)
    <3>1. s[1] # Colon
      <4>1. Colon \notin Letter \cup {Space, Star, 48}
        BY DEF Letter, Space, Star, Colon
      <4> QED
        BY <2>2, <4>1 DEF TableStart
    <3>2. Stamp(s) \/ s[1] = 48
      BY <2>2, Zenon DEF TableStart, Stamp
    <3> QED
      BY <1>6, <2>2, <3>1, <3>2 DEF Misread, NoDigits, OddName
  <2>3. CASE Len(s) > 0 /\ ~TableStart(s)
    <3>1. ~Stamp(s) /\ s[1] # 48 /\ s[1] \notin Digit
      BY <1>4, <2>3 DEF TableStart, Stamp, Digit, NonZero
    <3>2. ~FourDigits(s) /\ ~Year(s)
      BY <3>1 DEF FourDigits, Year
    <3>3. Counter(s) => NoDigits(s)
      BY <1>3, <2>3, <3>1 DEF Counter, NoDigits
    <3> QED
      BY <1>6, <1>7, <2>3, <3>1, <3>2, <3>3 DEF Family3164, Misread, OddName
  <2> QED
    BY <1>3, <2>1, <2>2, <2>3
<1>9. Right(f)
  BY <1>1, <1>5, <1>6, <1>8, AfterIs, MonthsOpen DEF Right, s
<1> QED
  BY <1>9 DEF f

(* DigitsEnd, behind d digits. *)
LEMMA DigitsRight ==
    ASSUME input \in Seq(0..255), NEW g, Opens(g), NEW d \in 1..(Len(input) - g),
           input[g + 1] \in NonZero, \A i \in 1..d : input[g + i] \in Digit,
           g + d = Len(input) \/ input[g + d + 1] \notin Digit
    PROVE  Right(IF d > 3 THEN "rfc3164"
                 ELSE IF g + d < Len(input) /\ input[g + d + 1] = Colon THEN "rfc3164"
                 ELSE "rfc5424")
<1> DEFINE s == Rest(g)
           n == Len(s)
           colon == d < n /\ s[d + 1] = Colon
           f == IF d > 3 THEN "rfc3164"
                ELSE IF g + d < Len(input) /\ input[g + d + 1] = Colon THEN "rfc3164"
                ELSE "rfc5424"
<1>1. g \in 1..Len(input) /\ Len(input) > 0 /\ input[1] = LT /\ Len(input) \in Nat
  BY DEF Opens
<1>2. /\ Len(s) = Len(input) - g
      /\ \A i \in 1..(Len(input) - g) : s[i] = input[g + i]
  BY <1>1, RestIs
<1>3. /\ n \in Nat /\ d \in 1..n /\ s[1] \in NonZero
      /\ \A i \in 1..d : s[i] \in Digit
      /\ d = n \/ s[d + 1] \notin Digit
      /\ colon <=> g + d < Len(input) /\ input[g + d + 1] = Colon
  <2>1. n = Len(input) - g /\ n \in Nat /\ d \in 1..n /\ 1 \in 1..n /\ (d # n => d + 1 \in 1..n)
    BY <1>1, <1>2
  <2>2. s[1] = input[g + 1] /\ \A i \in 1..d : s[i] = input[g + i]
    BY <1>2, <2>1
  <2>3. d # n => s[d + 1] = input[g + (d + 1)] /\ g + (d + 1) = g + d + 1
    BY <1>1, <1>2, <2>1
  <2> HIDE DEF s, n
  <2>4. g + d = Len(input) <=> d = n
    BY <1>1, <2>1
  <2>5. g + d < Len(input) <=> d < n
    BY <1>1, <2>1
  <2> QED
    BY <2>1, <2>2, <2>3, <2>4, <2>5
<1>4. f = "rfc3164" <=> d > 3 \/ colon
  BY <1>3, Zenon
<1>5. f \in {"rfc3164", "rfc5424"}
  OBVIOUS
<1> HIDE DEF s, n, f
<1>6. ~TableStart(s)
  <2>1. NonZero \cap (Letter \cup {Space, Star, 48}) = {}
    BY DEF NonZero, Letter, Space, Star
  <2> QED
    BY <1>3, <2>1 DEF TableStart
<1>7. TableLong(s) <=> d > 3
  <2>1. n = Len(s)
    BY DEF n
  <2> QED
    BY <1>3, <2>1 DEF TableLong
(* Behind the digits and nowhere else is the first byte that is none. *)
<1>8. ASSUME NEW k \in Nat, k >= 1, k < n, s[k + 1] \notin Digit, \A i \in 1..k : s[i] \in Digit
      PROVE  k = d
  BY <1>3, <1>8
<1>9. {Colon, Space, Dash} \cap Digit = {}
  BY DEF Colon, Space, Dash, Digit
<1>10. TableCount(s) <=> d <= 3 /\ colon
  <2>1. ASSUME TableCount(s) PROVE d <= 3 /\ colon
    <3>1. PICK k \in 1..3 : n > k /\ s[k + 1] = Colon /\ \A i \in 1..k : s[i] \in Digit
      BY <2>1 DEF TableCount, n
    <3>2. k = d
      BY <1>8, <1>9, <3>1
    <3> QED
      BY <3>1, <3>2
  <2>2. ASSUME d <= 3, colon PROVE TableCount(s)
    BY <1>3, <2>2 DEF TableCount, n
  <2> QED
    BY <2>1, <2>2
<1>11. Version(s) => f = "rfc5424"
  <2> SUFFICES ASSUME Version(s) PROVE f = "rfc5424"
    OBVIOUS
  <2>1. PICK k \in 1..3 : n > k /\ s[k + 1] = Space /\ \A i \in 1..k : s[i] \in Digit
    BY DEF Version, n
  <2>2. k = d
    BY <1>8, <1>9, <2>1
  <2>3. Space # Colon
    BY DEF Space, Colon
  <2> QED
    BY <1>4, <1>5, <2>1, <2>2, <2>3
<1>12. Family3164(s) => (f = "rfc5424" <=> Misread(s))
  <2>1. ~Stamp(s) /\ ~NoDigits(s) /\ s[1] # 48 /\ s[1] # Colon
    <3>1. NonZero \cap (Letter \cup {Space, Star, 48, Colon}) = {}
      BY DEF NonZero, Letter, Space, Star, Colon
    <3> QED
      BY <1>3, <3>1 DEF Stamp, NoDigits
  <2>2. FourDigits(s) <=> d > 3
    <3>1. n = Len(s)
      BY DEF n
    <3> QED
      BY <1>3, <3>1 DEF FourDigits
  <2>3. Counter(s) <=> colon
    <3>1. ASSUME Counter(s) PROVE colon
      <4>1. PICK k \in 0..(n - 1) : s[k + 1] = Colon /\ \A i \in 1..k : s[i] \in Digit
        BY <3>1 DEF Counter, n
      <4>2. k # 0
        BY <2>1, <4>1
      <4>3. k = d
        BY <1>3, <1>8, <1>9, <4>1, <4>2
      <4> QED
        BY <1>3, <4>1, <4>3
    <3>2. ASSUME colon PROVE Counter(s)
      <4>1. d \in 0..(n - 1) /\ s[d + 1] = Colon /\ \A i \in 1..d : s[i] \in Digit
        BY <1>3, <3>2
      <4>2. n = Len(s)
        BY DEF n
      <4> HIDE DEF n
      <4> QED
        BY <4>1, <4>2 DEF Counter
    <3> QED
      BY <3>1, <3>2
  <2>4. Year(s) => FourDigits(s)
    BY DEF Year
  <2> QED
    BY <1>4, <1>5, <2>1, <2>2, <2>3, <2>4, Zenon DEF Family3164, Misread, OddName
<1>13. Right(f)
  <2>1. ~TableMonth /\ ~TableYear
    BY <1>1, MonthsOpen
  <2>2. /\ AfterPRI(input, Version) <=> Version(s)
        /\ AfterPRI(input, Family3164) <=> Family3164(s)
        /\ AfterPRI(input, Misread) <=> Misread(s)
        /\ AfterPRI(input, TableStart) <=> TableStart(s)
        /\ AfterPRI(input, TableLong) <=> TableLong(s)
        /\ AfterPRI(input, TableCount) <=> TableCount(s)
    BY AfterIs DEF s
  <2>3. f = "rfc3164" <=> TableLong(s) \/ TableCount(s)
    BY <1>4, <1>7, <1>10
  <2> QED
    BY <1>6, <1>11, <1>12, <2>1, <2>2, <2>3, Zenon DEF Right
<1> QED
  BY <1>13 DEF f

-----------------------------------------------------------------------------
(* The loops. *)

(* Where each part of detect stands. *)
Where ==
    /\ dpc # "start" /\ dpc # "done" => Len(input) > 0 /\ input[1] = LT
    /\ dpc \in {"start", "pri", "first"} => digitCount = 0
    /\ dpc \in {"start", "pri"} => \A i \in 1..pos : input[i] # GT
    /\ dpc = "first" => Opens(pos)
    /\ dpc = "digits" =>
          /\ Opens(pos - digitCount) /\ digitCount >= 1
          /\ input[pos - digitCount + 1] \in NonZero
          /\ \A i \in 1..digitCount : input[pos - digitCount + i] \in Digit
    /\ dpc = "done" => Right(format)

Detecting == TypeOK /\ Where

LEMMA DetectingInit == Init => Detecting
  BY InputsAssumption DEF Init, Detecting, TypeOK, Where

(* What is right for an input stays so while the input stays. *)
LEMMA SameInput ==
    ASSUME UNCHANGED input, NEW f, Right(f)
    PROVE  Right(f)'
<1>1. AfterPRI(input, Version)' <=> AfterPRI(input, Version)
  BY DEF AfterPRI, Version
<1>2. AfterPRI(input, Family3164)' <=> AfterPRI(input, Family3164)
  BY DEF AfterPRI, Family3164, Stamp, Year, FourDigits, Counter, HostName
<1>8. AfterPRI(input, Misread)' <=> AfterPRI(input, Misread)
  BY DEF AfterPRI, Misread, NoDigits, OddName, Stamp, FourDigits, Counter, HostName
<1>3. AfterPRI(input, TableStart)' <=> AfterPRI(input, TableStart)
  BY DEF AfterPRI, TableStart
<1>4. AfterPRI(input, TableLong)' <=> AfterPRI(input, TableLong)
  BY DEF AfterPRI, TableLong
<1>5. AfterPRI(input, TableCount)' <=> AfterPRI(input, TableCount)
  BY DEF AfterPRI, TableCount
<1>6. TableMonth' <=> TableMonth
  BY DEF TableMonth
<1>7. TableYear' <=> TableYear
  BY DEF TableYear
<1> QED
  BY <1>1, <1>2, <1>3, <1>4, <1>5, <1>6, <1>7, <1>8, Zenon DEF Right

(* Where nothing is read any more only the answer counts. *)
LEMMA AnswerKeeps ==
    ASSUME Detecting, NEW f \in {"rfc3164", "rfc5424"}, Answer(f), Right(f)
    PROVE  Detecting'
<1>1. TypeOK'
  BY DEF Answer, Detecting, TypeOK
<1>2. UNCHANGED input /\ format' = f /\ dpc' = "done"
  BY DEF Answer
<1>3. Right(f)'
  BY <1>2, SameInput
<1>4. Right(format)'
  BY <1>2, <1>3, Zenon DEF Right
<1> QED
  BY <1>1, <1>2, <1>4 DEF Detecting, Where

LEMMA DetectingStep == Detecting /\ [Next]_vars => Detecting'
<1> SUFFICES ASSUME Detecting, [Next]_vars PROVE Detecting'
  OBVIOUS
<1>t. /\ input \in Seq(0..255) /\ pos \in 0..Len(input) /\ digitCount \in 0..Len(input)
      /\ Len(input) \in Nat
  BY DEF Detecting, TypeOK
<1>1. CASE Start
  <2>1. CASE Len(input) = 0 \/ input[1] # LT
    <3>1. \A g : ~Opens(g)
      BY <1>t, <2>1 DEF Opens
    <3>2. Answer(detectWithoutPRI(input))
      BY <1>1, <2>1 DEF Start
    <3> QED
      BY <1>t, <3>1, <3>2, WithoutPRI, AnswerKeeps
  <2>2. CASE ~(Len(input) = 0 \/ input[1] # LT)
    BY <1>1, <1>t, <2>2 DEF Start, Detecting, TypeOK, Where
  <2> QED
    BY <2>1, <2>2
<1>2. CASE SkipPRI
  <2>1. /\ dpc = "pri" /\ pos < Len(input) /\ input[pos + 1] # GT /\ pos' = pos + 1
        /\ UNCHANGED <<input, digitCount, dpc, format>>
    BY <1>2 DEF SkipPRI, Inside, At
  <2>2. \A i \in 1..pos' : input[i] # GT
    BY <1>t, <2>1 DEF Detecting, Where
  <2> QED
    BY <1>t, <2>1, <2>2 DEF Detecting, TypeOK, Where
<1>3. CASE NoPRIEnd
  <2>1. \A i \in 1..Len(input) : input[i] # GT
    BY <1>3, <1>t DEF NoPRIEnd, Inside, Detecting, Where
  <2>2. \A g : ~Opens(g)
    BY <1>t, <2>1 DEF Opens
  <2>3. Answer(detectWithoutPRI(input))
    BY <1>3 DEF NoPRIEnd
  <2> QED
    BY <1>t, <2>2, <2>3, WithoutPRI, AnswerKeeps
<1>4. CASE PRIEnd
  <2>1. /\ dpc = "pri" /\ pos < Len(input) /\ input[pos + 1] = GT /\ pos' = pos + 1
        /\ dpc' = "first" /\ UNCHANGED <<input, digitCount, format>>
    BY <1>4 DEF PRIEnd, Inside, At
  <2>2. /\ input[1] = LT /\ \A i \in 1..pos : input[i] # GT
        /\ digitCount = 0
    BY <2>1 DEF Detecting, Where
  <2>3. pos # 0
    BY <2>1, <2>2 DEF LT, GT
  <2>4. Opens(pos')
    BY <1>t, <2>1, <2>2, <2>3 DEF Opens
  <2>5. Opens(pos)'
    BY <2>1, <2>4 DEF Opens
  <2> QED
    BY <1>t, <2>1, <2>2, <2>5 DEF Detecting, TypeOK, Where
<1>5. CASE First
  <2>1. dpc = "first" /\ Opens(pos) /\ digitCount = 0
    BY <1>5 DEF First, Detecting, Where
  <2>2. CASE ~Inside \/ At \notin NonZero
    <3> DEFINE f == IF Len(input) > pos /\ input[pos + 1] \in StampStart THEN "rfc3164" ELSE "rfc5424"
    <3>1. Answer(f)
      BY <1>5, <2>2 DEF First, Inside, At
    <3>2. Right(f)
      BY <1>t, <2>1, <2>2, FirstByte DEF Inside, At
    <3>3. f \in {"rfc3164", "rfc5424"}
      OBVIOUS
    <3> HIDE DEF f
    <3> QED
      BY <3>1, <3>2, <3>3, AnswerKeeps
  <2>3. CASE Inside /\ At \in NonZero
    <3>1. At \notin StampStart
      BY <2>3 DEF NonZero, StampStart, Letter, Space, Star
    <3>2. /\ digitCount' = 1 /\ pos' = pos + 1 /\ dpc' = "digits" /\ UNCHANGED <<input, format>>
      BY <1>5, <2>3, <3>1 DEF First
    <3>3. pos < Len(input) /\ input[pos + 1] \in NonZero /\ input[pos + 1] \in Digit
      BY <2>3 DEF Inside, At, NonZero, Digit
    <3>4. pos' - digitCount' = pos
      BY <1>t, <3>2
    <3>5. Opens(pos - digitCount)'
      BY <2>1, <3>2, <3>4 DEF Opens
    <3> QED
      BY <1>t, <2>1, <3>2, <3>3, <3>4, <3>5 DEF Detecting, TypeOK, Where
  <2> QED
    BY <2>2, <2>3
<1>6. CASE MoreDigits
  <2> DEFINE g == pos - digitCount
  <2>1. /\ dpc = "digits" /\ pos < Len(input) /\ input[pos + 1] \in Digit
        /\ digitCount' = digitCount + 1 /\ pos' = pos + 1 /\ UNCHANGED <<input, dpc, format>>
    BY <1>6 DEF MoreDigits, Inside, At
  <2>2. /\ Opens(g) /\ digitCount >= 1 /\ input[g + 1] \in NonZero
        /\ \A i \in 1..digitCount : input[g + i] \in Digit
    BY <2>1 DEF Detecting, Where
  <2>3. pos' - digitCount' = g /\ g \in Nat /\ g >= 1 /\ pos + 1 = g + digitCount'
    BY <1>t, <2>1, <2>2 DEF Opens
  <2> HIDE DEF g
  <2>4. \A i \in 1..digitCount' : input[g + i] \in Digit
    <3>1. \A i \in 1..digitCount' : i \in 1..digitCount \/ i = digitCount'
      BY <1>t, <2>1
    <3> QED
      BY <2>1, <2>2, <2>3, <3>1
  <2>5. Opens(pos - digitCount)'
    BY <2>1, <2>2, <2>3 DEF Opens
  <2>6. TypeOK'
    BY <1>t, <2>1, <2>3 DEF Detecting, TypeOK
  <2>7. digitCount' >= 1
    BY <1>t, <2>1
  <2> QED
    BY <2>1, <2>2, <2>3, <2>4, <2>5, <2>6, <2>7 DEF Detecting, Where
<1>7. CASE DigitsEnd
  <2> DEFINE g == pos - digitCount
             d == digitCount
             f == IF d > 3 THEN "rfc3164"
                  ELSE IF g + d < Len(input) /\ input[g + d + 1] = Colon THEN "rfc3164"
                  ELSE "rfc5424"
  <2>1. dpc = "digits" /\ ~(pos < Len(input) /\ input[pos + 1] \in Digit)
    BY <1>7 DEF DigitsEnd, Inside, At
  <2>2. /\ Opens(g) /\ d >= 1 /\ input[g + 1] \in NonZero
        /\ \A i \in 1..d : input[g + i] \in Digit
    BY <2>1 DEF Detecting, Where
  <2>3. g + d = pos /\ d \in 1..(Len(input) - g)
    BY <1>t, <2>2 DEF Opens
  <2>4. g + d = Len(input) \/ input[g + d + 1] \notin Digit
    BY <1>t, <2>1, <2>3
  <2>5. Right(f)
    BY <1>t, <2>2, <2>3, <2>4, DigitsRight
  <2>6. Answer(f)
    BY <1>7, <2>3 DEF DigitsEnd, Inside, At
  <2>7. f \in {"rfc3164", "rfc5424"}
    OBVIOUS
  <2> HIDE DEF f
  <2> QED
    BY <2>5, <2>6, <2>7, AnswerKeeps
<1>8. CASE UNCHANGED vars
  <2>1. /\ UNCHANGED input /\ UNCHANGED pos /\ UNCHANGED digitCount
        /\ UNCHANGED dpc /\ UNCHANGED format
    BY <1>8 DEF vars
  <2>2. ASSUME NEW f, Right(f) PROVE Right(f)'
    BY <2>1, <2>2, SameInput
  <2>3. Right(format) => Right(format)'
    BY <2>1, <2>2, Zenon DEF Right
  <2> QED
    BY <2>1, <2>3 DEF Detecting, TypeOK, Where, Opens
<1> QED
  BY <1>1, <1>2, <1>3, <1>4, <1>5, <1>6, <1>7, <1>8 DEF Next

LEMMA Invariant == Spec => []Detecting
  BY DetectingInit, DetectingStep, PTL DEF Spec

(* detect (auto/detect.go:6-98) never indexes past its input. *)
THEOREM TypeCorrect == Spec => []TypeOK
  BY Invariant, PTL DEF Detecting

(* What has a VERSION behind PRI goes to RFC 5424, and what begins as the   *)
(* RFC 3164 family may goes to RFC 3164, except for exactly two kinds of    *)
(* well-formed messages (detect.go:28-73): those with a Cisco counter of no *)
(* digits, and those with a Cisco host name that Misread describes.         *)
THEOREM WellFormedDetected == Spec => []DetectsWellFormed
<1>1. Detecting => DetectsWellFormed
  BY DEF Detecting, Where, Right, DetectsWellFormed
<1> QED
  BY <1>1, Invariant, PTL

(* The loops answer what one table over the whole input says.               *)
THEOREM TableAnswered == Spec => []DetectMatchesTable
<1>1. Detecting => DetectMatchesTable
  BY DEF Detecting, Where, Right, DetectMatchesTable, AfterPRI, TableStart, TableLong, TableCount,
         TableMonth, TableYear
<1> QED
  BY <1>1, Invariant, PTL
=============================================================================
