---------------------------- MODULE NamesProofs ----------------------------
(***************************************************************************)
(* Proofs about Names, for whatever is typed, for names and paths of any   *)
(* length and for fields and directories of any size.                      *)
(***************************************************************************)
EXTENDS Names, Extrema, SequenceTheorems

Strings == Seq(Chars)

(* ----- Strings ----- *)

LEMMA StringFacts ==
  ASSUME NEW s \in Strings
  PROVE  Len(s) \in Nat /\ DOMAIN s = 1 .. Len(s) /\ \A i \in 1 .. Len(s) : s[i] \in Chars
  BY DEF Strings

LEMMA SameString ==
  ASSUME NEW s \in Strings, NEW t \in Strings,
         Len(s) = Len(t), \A i \in 1 .. Len(s) : s[i] = t[i]
  PROVE  s = t
  BY SeqEqual DEF Strings

LEMMA MinOfTwo ==
  ASSUME NEW a \in Nat, NEW b \in Nat
  PROVE  Min({a, b}) = IF a <= b THEN a ELSE b
<1>1. {a, b} \subseteq Nat /\ {a, b} # {}
  OBVIOUS
<1>2. Min({a, b}) \in {a, b} /\ \A t \in {a, b} : Min({a, b}) <= t
  BY <1>1, MinIn
<1> QED BY <1>2

(* The first n characters. *)
LEMMA PrefixIs ==
  ASSUME NEW s \in Strings, NEW n \in Nat, n <= Len(s)
  PROVE  /\ SubSeq(s, 1, n) \in Strings /\ Len(SubSeq(s, 1, n)) = n
         /\ \A i \in 1 .. n : SubSeq(s, 1, n)[i] = s[i]
<1>1. \A i \in 1 .. n : s[i] \in Chars
  BY StringFacts
<1>2. /\ SubSeq(s, 1, n) \in Seq(Chars)
      /\ Len(SubSeq(s, 1, n)) = IF 1 <= n THEN n - 1 + 1 ELSE 0
      /\ \A i \in 1 .. (n - 1 + 1) : SubSeq(s, 1, n)[i] = s[1 + i - 1]
  BY <1>1, SubSeqProperties
<1> QED BY <1>2 DEF Strings

LEMMA FirstOfIs ==
  ASSUME NEW s \in Strings, NEW n \in Nat
  PROVE  /\ FirstOf(s, n) \in Strings
         /\ Len(FirstOf(s, n)) = IF n <= Len(s) THEN n ELSE Len(s)
         /\ \A i \in 1 .. Len(FirstOf(s, n)) : FirstOf(s, n)[i] = s[i]
<1> DEFINE k == IF n <= Len(s) THEN n ELSE Len(s)
<1>1. k \in Nat /\ k <= Len(s)
  BY StringFacts
<1>2. FirstOf(s, n) = SubSeq(s, 1, k)
  BY StringFacts, MinOfTwo DEF FirstOf
<1> HIDE DEF k
<1>3. /\ FirstOf(s, n) \in Strings /\ Len(FirstOf(s, n)) = k
      /\ \A i \in 1 .. k : FirstOf(s, n)[i] = s[i]
  BY <1>1, <1>2, PrefixIs
<1> QED BY <1>3 DEF k

LEMMA FromIs ==
  ASSUME NEW s \in Strings, NEW i \in Nat \ {0}
  PROVE  /\ From(s, i) \in Strings
         /\ Len(From(s, i)) = IF i <= Len(s) THEN Len(s) - i + 1 ELSE 0
         /\ \A k \in 1 .. Len(From(s, i)) : From(s, i)[k] = s[i + k - 1]
<1>1. Len(s) \in Nat /\ \A k \in i .. Len(s) : s[k] \in Chars
  BY StringFacts
<1>2. /\ From(s, i) \in Seq(Chars)
      /\ Len(From(s, i)) = IF i <= Len(s) THEN Len(s) - i + 1 ELSE 0
      /\ \A k \in 1 .. (Len(s) - i + 1) : From(s, i)[k] = s[i + k - 1]
  BY <1>1, SubSeqProperties DEF From
<1> QED BY <1>1, <1>2 DEF Strings

(***************************************************************************)
(* Until stops in front of the first character in C, and nothing else is   *)
(* what it returns.                                                        *)
(***************************************************************************)
Stops(s, C, u) ==
  /\ u \in Strings /\ Len(u) <= Len(s)
  /\ \A i \in 1 .. Len(u) : u[i] = s[i] /\ s[i] \notin C
  /\ Len(u) < Len(s) => s[Len(u) + 1] \in C

LEMMA UntilIs ==
  ASSUME NEW s \in Strings, NEW C
  PROVE  Stops(s, C, Until(s, C))
<1> DEFINE I == {i \in 1 .. Len(s) : s[i] \in C}
           m == SelectInSeq(s, LAMBDA c : c \in C)
<1>0. Len(s) \in Nat
  BY StringFacts
<1>1. m = IF I # {} THEN Min(I) ELSE 0
  BY DEF SelectInSeq
<1>u. Until(s, C) = IF m = 0 THEN s ELSE SubSeq(s, 1, m - 1)
  BY DEF Until
<1>2. CASE I = {}
  <2>1. Until(s, C) = s
    BY <1>1, <1>2 DEF Until
  <2> QED BY <1>2, <1>0, <2>1 DEF Stops
<1>3. CASE I # {}
  <2>1. I \subseteq Nat
    BY <1>0
  <2> HIDE DEF I, m
  <2>2. m \in I /\ \A i \in I : m <= i
    BY <1>1, <1>3, <2>1, MinIn
  <2>3. m \in 1 .. Len(s) /\ s[m] \in C /\ \A i \in 1 .. (m - 1) : s[i] \notin C
    BY <1>0, <2>2 DEF I
  <2>4. Until(s, C) = SubSeq(s, 1, m - 1)
    BY <1>0, <1>u, <2>3
  <2>5. m - 1 \in Nat /\ m - 1 <= Len(s) /\ (m - 1) + 1 = m
    BY <1>0, <2>3
  <2>6. /\ Until(s, C) \in Strings /\ Len(Until(s, C)) = m - 1
        /\ \A i \in 1 .. (m - 1) : Until(s, C)[i] = s[i]
    BY <2>4, <2>5, PrefixIs
  <2> QED BY <1>0, <2>3, <2>5, <2>6 DEF Stops
<1> QED BY <1>2, <1>3

LEMMA UntilOnly ==
  ASSUME NEW s \in Strings, NEW C, NEW u, Stops(s, C, u)
  PROVE  Until(s, C) = u
<1> DEFINE v == Until(s, C)
<1>1. Stops(s, C, v)
  BY UntilIs
<1> HIDE DEF v
<1>2. v \in Strings /\ u \in Strings /\ Len(v) \in Nat /\ Len(u) \in Nat /\ Len(s) \in Nat
  BY <1>1, StringFacts DEF Stops
<1>3. ~(Len(v) < Len(u))
  <2> SUFFICES ASSUME Len(v) < Len(u) PROVE FALSE
    OBVIOUS
  <2>1. Len(v) + 1 \in 1 .. Len(u) /\ Len(v) < Len(s)
    BY <1>2 DEF Stops
  <2> QED BY <1>1, <2>1 DEF Stops
<1>4. ~(Len(u) < Len(v))
  <2> SUFFICES ASSUME Len(u) < Len(v) PROVE FALSE
    OBVIOUS
  <2>1. Len(u) + 1 \in 1 .. Len(v) /\ Len(u) < Len(s)
    BY <1>1, <1>2 DEF Stops
  <2> QED BY <1>1, <2>1 DEF Stops
<1>5. Len(u) = Len(v)
  BY <1>2, <1>3, <1>4
<1>6. \A i \in 1 .. Len(u) : u[i] = v[i]
  BY <1>1, <1>5 DEF Stops
<1>7. u = v
  BY <1>2, <1>5, <1>6, SameString
<1> QED BY <1>7 DEF v

(* ----- Upper and lower case ----- *)

LEMMA CharFacts ==
  ASSUME NEW c \in Chars
  PROVE  /\ Upper(c) \in Chars /\ tolower(c) \in Chars
         /\ Upper(Upper(c)) = Upper(c) /\ Upper(c) # "a"
         /\ tolower(Upper(c)) = tolower(c) /\ tolower(tolower(c)) = tolower(c)
         /\ c # Sp => Upper(c) # Sp
         /\ Upper(Dot) = Dot /\ Upper(Sp) = Sp
  BY DEF Chars, Upper, tolower, Sp, Dot, Slash, CR

LEMMA UpperIs ==
  ASSUME NEW s \in Strings
  PROVE  /\ Uppercase(s) \in Strings /\ Len(Uppercase(s)) = Len(s)
         /\ \A i \in 1 .. Len(s) : Uppercase(s)[i] = Upper(s[i])
<1>1. Uppercase(s) = [i \in 1 .. Len(s) |-> Upper(s[i])]
  BY StringFacts DEF Uppercase
<1>2. \A i \in 1 .. Len(s) : Upper(s[i]) \in Chars
  BY StringFacts, CharFacts
<1>3. Uppercase(s) \in [1 .. Len(s) -> Chars] /\ Len(s) \in Nat
  BY <1>1, <1>2, StringFacts
<1> QED BY <1>1, <1>3 DEF Strings

LEMMA LowerIs ==
  ASSUME NEW s \in Strings
  PROVE  /\ Lowercase(s) \in Strings /\ Len(Lowercase(s)) = Len(s)
         /\ \A i \in 1 .. Len(s) : Lowercase(s)[i] = tolower(s[i])
<1>1. Lowercase(s) = [i \in 1 .. Len(s) |-> tolower(s[i])]
  BY StringFacts DEF Lowercase
<1>2. \A i \in 1 .. Len(s) : tolower(s[i]) \in Chars
  BY StringFacts, CharFacts
<1>3. Lowercase(s) \in [1 .. Len(s) -> Chars] /\ Len(s) \in Nat
  BY <1>1, <1>2, StringFacts
<1> QED BY <1>1, <1>3 DEF Strings

(* A string that is in upper case, as every name in the directory is. *)
IsUpper(s) == s \in Strings /\ \A i \in 1 .. Len(s) : s[i] # "a"

LEMMA UppercaseIsUpper ==
  ASSUME NEW s \in Strings
  PROVE  IsUpper(Uppercase(s))
  BY UpperIs, StringFacts, CharFacts DEF IsUpper

(* istrncmp takes a name in upper case for the same as another if that one *)
(* is it in upper case.                                                    *)
LEMMA SameName ==
  ASSUME NEW u, IsUpper(u), NEW s \in Strings
  PROVE  istrncmp(u, s) <=> u = Uppercase(s)
<1>u. u \in Strings /\ Len(u) \in Nat /\ Len(s) \in Nat /\ DOMAIN u = 1 .. Len(u)
  BY StringFacts DEF IsUpper
<1>1. ASSUME istrncmp(u, s) PROVE u = Uppercase(s)
  <2>1. Len(u) = Len(Uppercase(s)) /\ Len(u) = Len(s)
    BY <1>1, UpperIs DEF istrncmp
  <2>2. ASSUME NEW i \in 1 .. Len(u) PROVE u[i] = Uppercase(s)[i]
    <3>1. tolower(u[i]) = tolower(s[i]) /\ u[i] # "a" /\ u[i] \in Chars /\ s[i] \in Chars
      BY <1>1, <1>u, <2>1, StringFacts DEF istrncmp, IsUpper
    <3>2. u[i] = Upper(s[i])
      BY <3>1 DEF Chars, Upper, tolower
    <3> QED BY <2>1, <3>2, UpperIs
  <2> QED BY <1>u, <2>1, <2>2, UpperIs, SameString
<1>2. ASSUME u = Uppercase(s) PROVE istrncmp(u, s)
  <2>1. Len(u) = Len(s) /\ \A i \in 1 .. Len(u) : u[i] = Upper(s[i])
    BY <1>2, UpperIs
  <2>2. \A i \in 1 .. Len(u) : s[i] \in Chars
    BY <2>1, StringFacts
  <2> QED BY <1>u, <2>1, <2>2, CharFacts DEF istrncmp
<1> QED BY <1>1, <1>2

LEMMA UpperOfUpper ==
  ASSUME NEW u, IsUpper(u)
  PROVE  Uppercase(u) = u /\ Uppercase(Lowercase(u)) = u
<1>u. u \in Strings /\ Len(u) \in Nat
  BY StringFacts DEF IsUpper
<1>1. \A i \in 1 .. Len(u) : Upper(u[i]) = u[i] /\ Upper(tolower(u[i])) = u[i]
  BY StringFacts DEF IsUpper, Upper, tolower
<1>2. Uppercase(u) = u
  BY <1>u, <1>1, UpperIs, SameString
<1>3. /\ Lowercase(u) \in Strings /\ Len(Lowercase(u)) = Len(u)
      /\ \A i \in 1 .. Len(u) : Lowercase(u)[i] = tolower(u[i])
  BY <1>u, LowerIs
<1>4. /\ Uppercase(Lowercase(u)) \in Strings /\ Len(Uppercase(Lowercase(u))) = Len(u)
      /\ \A i \in 1 .. Len(u) : Uppercase(Lowercase(u))[i] = Upper(Lowercase(u)[i])
  BY <1>3, UpperIs
<1>5. Uppercase(Lowercase(u)) = u
  BY <1>u, <1>1, <1>3, <1>4, SameString
<1> QED BY <1>2, <1>5

(* ----- The fields of a directory entry ----- *)

LEMMA PadIs ==
  ASSUME NEW s \in Strings, NEW n \in Nat
  PROVE  /\ Pad(s, n) \in Strings /\ Pad(s, n) \in [1 .. n -> Chars] /\ Len(Pad(s, n)) = n
         /\ \A i \in 1 .. n : Pad(s, n)[i] = IF i <= Len(s) THEN s[i] ELSE Sp
<1>1. \A i \in 1 .. n : (IF i <= Len(s) THEN s[i] ELSE Sp) \in Chars
  BY StringFacts DEF Chars
<1>2. Pad(s, n) \in [1 .. n -> Chars]
  BY <1>1 DEF Pad
<1> QED BY <1>2 DEF Pad, Strings

(* What is padded with spaces and read up to the first space is whole.     *)
LEMMA ProperOfPad ==
  ASSUME NEW s \in Strings, NEW n \in Nat, Len(s) <= n,
         \A i \in 1 .. Len(s) : s[i] # Sp
  PROVE  to_proper_string(Pad(s, n)) = s
<1>1. Len(s) \in Nat /\ Pad(s, n) \in Strings /\ Len(Pad(s, n)) = n
      /\ \A i \in 1 .. n : Pad(s, n)[i] = IF i <= Len(s) THEN s[i] ELSE Sp
  BY PadIs, StringFacts
<1>2. Stops(Pad(s, n), {Sp}, s)
  BY <1>1 DEF Stops
<1> QED BY <1>1, <1>2, UntilOnly DEF to_proper_string

(* The entries that fat16_name_to_83 makes are in upper case. *)
UpperEntry(e) == e \in Entries /\ IsUpper(e.filename) /\ IsUpper(e.ext)

LEMMA PadUpper ==
  ASSUME NEW s, IsUpper(s), NEW n \in Nat
  PROVE  IsUpper(Pad(s, n)) /\ Pad(s, n) \in [1 .. n -> Chars]
<1>1. s \in Strings /\ Len(s) \in Nat
  BY StringFacts DEF IsUpper
<1>2. Sp # "a"
  BY DEF Sp
<1>3. /\ Pad(s, n) \in Strings /\ Pad(s, n) \in [1 .. n -> Chars] /\ Len(Pad(s, n)) = n
      /\ \A i \in 1 .. n : Pad(s, n)[i] = IF i <= Len(s) THEN s[i] ELSE Sp
  BY <1>1, PadIs
<1>4. \A i \in 1 .. n : Pad(s, n)[i] # "a"
  BY <1>1, <1>2, <1>3 DEF IsUpper
<1> QED BY <1>3, <1>4 DEF IsUpper

Base83(name) == FirstOf(Until(name, {Dot}), Base)
Tail83(name) == From(name, Len(Base83(name)) + 1)
Ext83(name)  ==
  IF Tail83(name) # <<>> /\ Head(Tail83(name)) = Dot THEN Tail(Tail83(name)) ELSE Tail83(name)

LEMMA NameParts ==
  ASSUME NEW name \in Strings
  PROVE  /\ Base83(name) \in Strings /\ Tail83(name) \in Strings /\ Ext83(name) \in Strings
         /\ name_to_83(name) = [filename |-> Pad(Uppercase(Base83(name)), Base),
                                ext      |-> Pad(Uppercase(FirstOf(Ext83(name), Ext)), Ext)]
<1>1. Until(name, {Dot}) \in Strings
  BY UntilIs DEF Stops
<1>2. Base83(name) \in Strings
  BY <1>1, FirstOfIs, FieldAssumption DEF Base83
<1>3. Len(Base83(name)) + 1 \in Nat \ {0}
  BY <1>2, StringFacts
<1>4. Tail83(name) \in Strings
  BY <1>3, FromIs DEF Tail83
<1>5. Tail83(name) # <<>> => Tail(Tail83(name)) \in Strings
  BY <1>4, HeadTailProperties DEF Strings
<1>6. Ext83(name) \in Strings
  BY <1>4, <1>5 DEF Ext83
<1>7. name_to_83(name) = [filename |-> Pad(Uppercase(Base83(name)), Base),
                          ext      |-> Pad(Uppercase(FirstOf(Ext83(name), Ext)), Ext)]
  BY DEF name_to_83, Base83, Tail83, Ext83
<1> QED BY <1>2, <1>4, <1>6, <1>7

LEMMA NewEntryUpper ==
  ASSUME NEW name \in Strings
  PROVE  UpperEntry(name_to_83(name))
<1>1. IsUpper(Uppercase(Base83(name)))
  BY NameParts, UppercaseIsUpper
<1>2. FirstOf(Ext83(name), Ext) \in Strings
  BY NameParts, FirstOfIs, FieldAssumption
<1>3. IsUpper(Uppercase(FirstOf(Ext83(name), Ext)))
  BY <1>2, UppercaseIsUpper
<1> DEFINE f == Pad(Uppercase(Base83(name)), Base)
           x == Pad(Uppercase(FirstOf(Ext83(name), Ext)), Ext)
<1>4. IsUpper(f) /\ f \in [1 .. Base -> Chars]
  BY <1>1, PadUpper, FieldAssumption
<1>5. IsUpper(x) /\ x \in [1 .. Ext -> Chars]
  BY <1>3, PadUpper, FieldAssumption
<1>6. name_to_83(name) = [filename |-> f, ext |-> x]
  BY NameParts
<1> HIDE DEF f, x
<1> QED BY <1>4, <1>5, <1>6 DEF UpperEntry, Entries

LEMMA UntilUpper ==
  ASSUME NEW s, IsUpper(s), NEW C
  PROVE  IsUpper(Until(s, C))
<1>1. Stops(s, C, Until(s, C)) /\ Len(s) \in Nat
  BY UntilIs, StringFacts DEF IsUpper
<1>2. Len(Until(s, C)) \in Nat
  BY <1>1, StringFacts DEF Stops
<1> QED BY <1>1, <1>2 DEF Stops, IsUpper

LEMMA ConcatIs ==
  ASSUME NEW s \in Strings, NEW t \in Strings
  PROVE  /\ s \o t \in Strings /\ Len(s \o t) = Len(s) + Len(t)
         /\ \A i \in 1 .. Len(s) + Len(t) :
              (s \o t)[i] = IF i <= Len(s) THEN s[i] ELSE t[i - Len(s)]
  BY ConcatProperties DEF Strings

LEMMA OneChar ==
  ASSUME NEW c \in Chars
  PROVE  <<c>> \in Strings /\ Len(<<c>>) = 1 /\ <<c>>[1] = c
  BY DEF Strings

(* ... and so is the name that is read from one. *)
LEMMA FullNameUpper ==
  ASSUME NEW e, UpperEntry(e)
  PROVE  IsUpper(full_relative_filename(e))
<1> DEFINE b == to_proper_string(e.filename)
           x == to_proper_string(e.ext)
           d == <<Dot>> \o x
<1>1. IsUpper(b) /\ IsUpper(x)
  BY UntilUpper DEF UpperEntry, to_proper_string
<1>2. full_relative_filename(e) = b \o (IF e.ext[1] = Sp THEN <<>> ELSE d)
  BY DEF full_relative_filename
<1> HIDE DEF b, x
<1>3. Dot \in Chars /\ Dot # "a"
  BY DEF Chars, Dot
<1>4. b \in Strings /\ x \in Strings /\ Len(b) \in Nat /\ Len(x) \in Nat
  BY <1>1, StringFacts DEF IsUpper
<1>5. IsUpper(d)
  <2>1. d \in Strings /\ Len(d) = 1 + Len(x)
        /\ \A i \in 1 .. 1 + Len(x) : d[i] = IF i <= 1 THEN <<Dot>>[i] ELSE x[i - 1]
    BY <1>3, <1>4, ConcatIs, OneChar
  <2> HIDE DEF d
  <2>2. \A i \in 1 .. Len(d) : d[i] # "a"
    BY <1>1, <1>3, <1>4, <2>1 DEF IsUpper
  <2> QED BY <2>1, <2>2 DEF IsUpper
<1>6. IsUpper(<<>>)
  BY DEF IsUpper, Strings
<1> DEFINE r == IF e.ext[1] = Sp THEN <<>> ELSE d
<1>7. IsUpper(r)
  BY <1>5, <1>6
<1> HIDE DEF r, d
<1>8. r \in Strings /\ Len(r) \in Nat
  BY <1>7, StringFacts DEF IsUpper
<1>9. IsUpper(b \o r)
  <2>1. b \o r \in Strings /\ Len(b \o r) = Len(b) + Len(r)
        /\ \A i \in 1 .. Len(b) + Len(r) :
             (b \o r)[i] = IF i <= Len(b) THEN b[i] ELSE r[i - Len(b)]
    BY <1>4, <1>8, ConcatIs
  <2>2. \A i \in 1 .. Len(b) + Len(r) : (b \o r)[i] # "a"
    <3> SUFFICES ASSUME NEW i \in 1 .. Len(b) + Len(r) PROVE (b \o r)[i] # "a"
      OBVIOUS
    <3>1. i <= Len(b) => i \in 1 .. Len(b)
      BY <1>4, <1>8
    <3>2. ~(i <= Len(b)) => i - Len(b) \in 1 .. Len(r)
      BY <1>4, <1>8
    <3> QED BY <1>1, <1>7, <2>1, <3>1, <3>2 DEF IsUpper
  <2> QED BY <2>1, <2>2 DEF IsUpper
<1> QED BY <1>2, <1>9 DEF r

(***************************************************************************)
(* A name that fits is read back as it was written, in upper case:         *)
(* fat16_get_full_relative_filename undoes fat16_name_to_83.               *)
(***************************************************************************)
LEMMA ReadBack ==
  ASSUME NEW x \in Strings, Fits(x)
  PROVE  full_relative_filename(name_to_83(x)) = Uppercase(x)
<1> DEFINE b == Until(x, {Dot})
           e == name_to_83(x)
           p == FirstOf(Ext83(x), Ext)
<1>b. Stops(x, {Dot}, b) /\ Len(b) <= Base /\ Len(b) \in Nat /\ b \in Strings /\ Len(x) \in Nat
  <2>1. Stops(x, {Dot}, b) /\ Len(b) <= Base
    BY UntilIs DEF Fits
  <2> HIDE DEF b
  <2> QED BY <2>1, StringFacts DEF Stops
<1>n. \A i \in 1 .. Len(x) : x[i] # Sp
  BY StringFacts DEF Fits, Range
<1>f. x = b \/ Len(x) - Len(b) \in 2 .. Ext + 1
  BY DEF Fits
<1> HIDE DEF b
<1>1. Base83(x) = b
  <2>1. /\ FirstOf(b, Base) \in Strings /\ Len(FirstOf(b, Base)) = Len(b)
        /\ \A i \in 1 .. Len(b) : FirstOf(b, Base)[i] = b[i]
    BY <1>b, FirstOfIs, FieldAssumption
  <2>2. FirstOf(b, Base) = b
    BY <1>b, <2>1, SameString
  <2> QED BY <2>2 DEF Base83, b
<1>2. p \in Strings /\ Len(p) \in Nat
  BY NameParts, FirstOfIs, FieldAssumption, StringFacts
<1>3. e.filename = Pad(Uppercase(b), Base) /\ e.ext = Pad(Uppercase(p), Ext)
  BY <1>1, NameParts
<1> HIDE DEF e, p
<1>4. to_proper_string(e.filename) = Uppercase(b)
  <2>1. /\ Uppercase(b) \in Strings /\ Len(Uppercase(b)) = Len(b)
        /\ \A i \in 1 .. Len(b) : Uppercase(b)[i] = Upper(b[i])
    BY <1>b, UpperIs
  <2>2. \A i \in 1 .. Len(b) : b[i] \in Chars /\ b[i] # Sp
    BY <1>b, <1>n, StringFacts DEF Stops
  <2>3. \A i \in 1 .. Len(b) : Uppercase(b)[i] # Sp
    BY <2>1, <2>2, CharFacts
  <2> QED BY <1>3, <1>b, <2>1, <2>3, ProperOfPad, FieldAssumption
<1>t. /\ Tail83(x) \in Strings
      /\ Len(Tail83(x)) = IF Len(b) + 1 <= Len(x) THEN Len(x) - (Len(b) + 1) + 1 ELSE 0
      /\ \A k \in 1 .. Len(Tail83(x)) : Tail83(x)[k] = x[(Len(b) + 1) + k - 1]
  BY <1>1, <1>b, FromIs DEF Tail83
<1>5. CASE x = b
  <2>1. Len(Tail83(x)) = 0
    BY <1>5, <1>b, <1>t
  <2>2. Tail83(x) = <<>>
    BY <1>t, <2>1 DEF Strings
  <2>3. Ext83(x) = <<>>
    BY <2>2 DEF Ext83
  <2>4. Len(p) = 0
    BY <2>3, FirstOfIs, FieldAssumption, NameParts DEF p
  <2>5. /\ Uppercase(p) \in Strings /\ Len(Uppercase(p)) = 0
    BY <1>2, <2>4, UpperIs
  <2>6. 1 \in 1 .. Ext /\ Ext \in Nat
    BY FieldAssumption
  <2>7. e.ext[1] = Sp
    <3>1. \A i \in 1 .. Ext : Pad(Uppercase(p), Ext)[i]
                              = IF i <= Len(Uppercase(p)) THEN Uppercase(p)[i] ELSE Sp
      BY <2>5, <2>6, PadIs
    <3> QED BY <1>3, <2>5, <2>6, <3>1
  <2>8. full_relative_filename(e) = Uppercase(b) \o <<>>
    BY <1>4, <2>7 DEF full_relative_filename
  <2>9. Uppercase(b) \in Strings
    BY <1>b, UpperIs
  <2> QED BY <1>5, <2>8, <2>9, ConcatEmptySeq DEF Strings, e
<1>6. CASE Len(x) - Len(b) \in 2 .. Ext + 1
  <2>1. Len(b) < Len(x) /\ Len(Tail83(x)) = Len(x) - Len(b) /\ Ext \in Nat
    BY <1>6, <1>b, <1>t, FieldAssumption
  <2>2. x[Len(b) + 1] = Dot
    BY <1>b, <2>1 DEF Stops
  <2>3. Tail83(x) # <<>> /\ Head(Tail83(x)) = Dot
    BY <1>6, <1>b, <1>t, <2>1, <2>2 DEF Strings
  <2>4. Ext83(x) = Tail(Tail83(x))
    BY <2>3 DEF Ext83
  <2>5. /\ Ext83(x) \in Strings /\ Len(Ext83(x)) = Len(x) - Len(b) - 1
        /\ \A i \in 1 .. Len(x) - Len(b) - 1 : Ext83(x)[i] = Tail83(x)[i + 1]
    BY <1>t, <2>1, <2>3, <2>4, HeadTailProperties DEF Strings
  <2>6. \A i \in 1 .. Len(x) - Len(b) - 1 : Ext83(x)[i] = x[Len(b) + 1 + i]
    <3> SUFFICES ASSUME NEW i \in 1 .. Len(x) - Len(b) - 1 PROVE Ext83(x)[i] = x[Len(b) + 1 + i]
      OBVIOUS
    <3>1. i + 1 \in 1 .. Len(Tail83(x)) /\ (Len(b) + 1) + (i + 1) - 1 = Len(b) + 1 + i
      BY <1>b, <2>1
    <3> QED BY <1>t, <2>5, <3>1
  <2>7. /\ Len(p) = Len(x) - Len(b) - 1 /\ Len(p) \in 1 .. Ext
        /\ \A i \in 1 .. Len(p) : p[i] = x[Len(b) + 1 + i]
    <3>1. Len(x) - Len(b) - 1 \in 1 .. Ext
      BY <1>6, <1>b, <2>1
    <3>2. Len(Ext83(x)) <= Ext /\ Len(Ext83(x)) \in Nat
      BY <2>1, <2>5, <3>1
    <3>3. Len(p) = Len(Ext83(x)) /\ \A i \in 1 .. Len(p) : p[i] = Ext83(x)[i]
      <4> DEFINE q == FirstOf(Ext83(x), Ext)
      <4>1. /\ Len(q) = IF Ext <= Len(Ext83(x)) THEN Ext ELSE Len(Ext83(x))
            /\ \A i \in 1 .. Len(q) : q[i] = Ext83(x)[i]
        BY <2>1, <2>5, FirstOfIs
      <4>2. p = q
        BY DEF p
      <4> HIDE DEF q
      <4> QED BY <2>1, <3>2, <4>1, <4>2
    <3> QED BY <2>5, <2>6, <3>1, <3>3
  <2>8. /\ Uppercase(p) \in Strings /\ Len(Uppercase(p)) = Len(p)
        /\ \A i \in 1 .. Len(p) : Uppercase(p)[i] = Upper(p[i])
    BY <1>2, UpperIs
  <2>9. \A i \in 1 .. Len(p) : p[i] \in Chars /\ p[i] # Sp
    <3> SUFFICES ASSUME NEW i \in 1 .. Len(p) PROVE p[i] \in Chars /\ p[i] # Sp
      OBVIOUS
    <3>1. Len(b) + 1 + i \in 1 .. Len(x)
      BY <1>b, <2>7
    <3> QED BY <1>n, <2>7, <3>1, StringFacts
  <2>10. \A i \in 1 .. Len(p) : Uppercase(p)[i] # Sp
    BY <2>8, <2>9, CharFacts
  <2>11. to_proper_string(e.ext) = Uppercase(p)
    BY <1>2, <1>3, <2>1, <2>7, <2>8, <2>10, ProperOfPad
  <2>12. e.ext[1] # Sp
    <3>1. 1 \in 1 .. Ext /\ 1 \in 1 .. Len(p) /\ 1 <= Len(p)
      BY <1>2, <2>1, <2>7
    <3>2. e.ext[1] = Uppercase(p)[1]
      BY <1>3, <2>1, <2>8, <3>1, PadIs
    <3> QED BY <2>10, <3>1, <3>2
  <2> DEFINE d == <<Dot>> \o Uppercase(p)
             w == Uppercase(b) \o d
  <2>13. full_relative_filename(e) = w
    BY <1>4, <2>11, <2>12 DEF full_relative_filename
  <2>14. Dot \in Chars /\ Upper(Dot) = Dot
    BY DEF Chars, Dot, Upper
  <2>15. /\ d \in Strings /\ Len(d) = 1 + Len(p)
         /\ \A i \in 1 .. 1 + Len(p) : d[i] = IF i <= 1 THEN <<Dot>>[i] ELSE Uppercase(p)[i - 1]
    BY <1>2, <2>8, <2>14, ConcatIs, OneChar
  <2> HIDE DEF d
  <2>16. /\ Uppercase(b) \in Strings /\ Len(Uppercase(b)) = Len(b)
         /\ \A i \in 1 .. Len(b) : Uppercase(b)[i] = Upper(b[i])
    BY <1>b, UpperIs
  <2>17. /\ w \in Strings /\ Len(w) = Len(b) + Len(d)
         /\ \A i \in 1 .. Len(b) + Len(d) : w[i] = IF i <= Len(b) THEN Uppercase(b)[i] ELSE d[i - Len(b)]
    <3>1. /\ w \in Strings /\ Len(w) = Len(Uppercase(b)) + Len(d)
          /\ \A i \in 1 .. Len(Uppercase(b)) + Len(d) :
               w[i] = IF i <= Len(Uppercase(b)) THEN Uppercase(b)[i] ELSE d[i - Len(Uppercase(b))]
      BY <2>15, <2>16, ConcatIs
    <3> HIDE DEF w
    <3> QED BY <2>16, <3>1
  <2> HIDE DEF w
  <2>18. Len(w) = Len(x)
    BY <1>b, <1>2, <2>7, <2>15, <2>17
  <2>19. ASSUME NEW i \in 1 .. Len(x) PROVE w[i] = Upper(x[i])
    <3>1. CASE i <= Len(b)
      BY <1>b, <2>16, <2>17, <2>18, <3>1 DEF Stops
    <3>2. CASE i = Len(b) + 1
      <4>1. w[i] = d[1] /\ d[1] = Dot
        BY <1>b, <1>2, <2>15, <2>17, <2>18, <3>2
      <4> QED BY <2>2, <2>14, <3>2, <4>1
    <3>3. CASE i > Len(b) + 1
      <4>1. i - Len(b) \in 1 .. 1 + Len(p) /\ ~(i - Len(b) <= 1) /\ ~(i <= Len(b))
            /\ i - Len(b) - 1 \in 1 .. Len(p) /\ Len(b) + 1 + (i - Len(b) - 1) = i
        BY <1>b, <1>2, <2>7, <3>3
      <4>2. w[i] = Uppercase(p)[i - Len(b) - 1]
        BY <2>15, <2>17, <2>18, <4>1
      <4>3. Uppercase(p)[i - Len(b) - 1] = Upper(p[i - Len(b) - 1])
        BY <2>8, <4>1
      <4>4. p[i - Len(b) - 1] = x[Len(b) + 1 + (i - Len(b) - 1)]
        BY <2>7, <4>1
      <4>5. p[i - Len(b) - 1] = x[i]
        BY <4>1, <4>4
      <4> QED BY <4>2, <4>3, <4>5
    <3> QED BY <1>b, <3>1, <3>2, <3>3
  <2>20. w = Uppercase(x)
    BY <2>17, <2>18, <2>19, UpperIs, SameString
  <2> QED BY <2>13, <2>20 DEF e
<1> QED BY <1>5, <1>6, <1>f

-----------------------------------------------------------------------------
(* ----- Types ----- *)

LEMMA EntryNotFree ==
  ASSUME NEW e \in Entries
  PROVE  e # Free
<1>1. DOMAIN e = {"filename", "ext"}
  BY DEF Entries
<1>2. DOMAIN Free = {"free"}
  BY DEF Free
<1> QED BY <1>1, <1>2

LEMMA DriveFacts ==
  /\ Drive \in Strings /\ Len(Drive) = 3
  /\ Drive[1] = "0" /\ Drive[2] = ":" /\ Drive[3] = Slash
  BY DEF Drive, Strings, Chars

LEMMA PathTyped ==
  /\ \A x \in Args : build_path(x) \in Strings
  /\ \A p \in RawPaths : p \in Strings
<1>1. ASSUME NEW x \in Args PROVE build_path(x) \in Strings
  <2>1. x \in Strings
    BY TypedAssumption DEF Strings
  <2>2. Until(x, {CR}) \in Strings
    BY <2>1, UntilIs DEF Stops
  <2> QED BY <2>2, DriveFacts, ConcatIs DEF build_path
<1> QED BY <1>1, TypedAssumption DEF Strings

LEMMA CopyTyped ==
  ASSUME NEW p \in Strings
  PROVE  strncpy(p) \in Strings /\ Len(strncpy(p)) < MaxPath
<1>1. MaxPath - 1 \in Nat /\ MaxPath \in Nat
  BY RoomAssumption, DriveFacts, FieldAssumption
<1> DEFINE k == IF Len(p) <= MaxPath - 1 THEN Len(p) ELSE MaxPath - 1
<1>2. k \in Nat /\ k <= Len(p) /\ k < MaxPath
  BY <1>1, StringFacts
<1>3. strncpy(p) = SubSeq(p, 1, k)
  BY <1>1, StringFacts, MinOfTwo DEF strncpy
<1> HIDE DEF k
<1> QED BY <1>2, <1>3, PrefixIs

LEMMA TypeInit == Init => TypeOK
<1> SUFFICES ASSUME Init PROVE TypeOK
  OBVIOUS
<1>1. <<>> \in Seq(Chars) /\ <<>> \in Seq(Seq(Chars)) /\ Len(<<>>) < MaxPath
  BY RoomAssumption, DriveFacts, FieldAssumption
<1> QED BY <1>1 DEF Init, TypeOK

(* The directory after an entry is made or given up. *)
LEMMA RootTyped ==
  ASSUME TypeOK, NEW s \in Slots, NEW e \in {Free} \cup Entries
  PROVE  [root EXCEPT ![s] = e] \in [Slots -> {Free} \cup Entries]
  BY DEF TypeOK

LEMMA ReturnTyped ==
  ASSUME TypeOK, NEW r \in {"ok", "fail"}, Return(r), root' \in [Slots -> {Free} \cup Entries]
  PROVE  TypeOK'
<1>1. <<>> \in Seq(Chars) /\ <<>> \in Seq(Seq(Chars)) /\ Len(<<>>) < MaxPath
  BY RoomAssumption, DriveFacts, FieldAssumption
<1> QED BY <1>1 DEF Return, TypeOK

(* The name that fopen and fdelete look for. *)
LEMMA HeadTyped ==
  ASSUME TypeOK, ~Refused
  PROVE  Head(parts) \in Strings /\ parts # <<>>
<1>1. parts \in Seq(Strings) /\ parts # <<>>
  BY DEF TypeOK, Refused, Strings
<1> QED BY <1>1

LEMMA NamedFacts ==
  ASSUME NEW name, Named(name) # {}
  PROVE  /\ Min(Named(name)) \in Slots /\ Min(Named(name)) \in Named(name)
<1>1. Named(name) \subseteq Nat /\ Named(name) \subseteq Slots
  BY SlotAssumption DEF Named, Slots
<1> QED BY <1>1, MinIn

FreeSlots == {s \in Slots : root[s] = Free}

LEMMA FreeSlotFacts ==
  ASSUME FreeSlots # {}
  PROVE  Min(FreeSlots) \in Slots /\ root[Min(FreeSlots)] = Free
<1>1. FreeSlots \subseteq Nat
  BY SlotAssumption DEF FreeSlots, Slots
<1>2. Min(FreeSlots) \in FreeSlots
  BY <1>1, MinIn
<1> QED BY <1>2 DEF FreeSlots

(* What open_write does, with its LET expanded. *)
LEMMA OpenWriteIs ==
  ASSUME open_write
  PROVE  LET name == Head(parts)
         IN  \/ /\ Named(name) # {}
                /\ Return("ok") /\ Tell(name) /\ UNCHANGED root
             \/ /\ Named(name) = {} /\ FreeSlots # {}
                /\ root' = [root EXCEPT ![Min(FreeSlots)] = name_to_83(name)]
                /\ Return("ok") /\ Tell(name)
             \/ /\ Named(name) = {} /\ FreeSlots = {}
                /\ Return("fail") /\ UNCHANGED <<root, made, cut>>
  BY DEF open_write, FreeSlots

LEMMA TypeNext == TypeOK /\ [Next]_vars => TypeOK'
<1> SUFFICES ASSUME TypeOK, [Next]_vars PROVE TypeOK'
  OBVIOUS
<1>r. root \in [Slots -> {Free} \cup Entries] /\ path \in Strings /\ rest \in Strings
      /\ parts \in Seq(Strings)
  BY DEF TypeOK, Strings
<1>1. ASSUME NEW p \in Strings, call(p) PROVE TypeOK'
  <2>1. <<>> \in Seq(Seq(Chars))
    OBVIOUS
  <2> QED BY <1>1, <2>1, CopyTyped DEF call, TypeOK, Strings
<1>2. CASE shell_call \/ raw_call
  BY <1>1, <1>2, PathTyped DEF shell_call, raw_call
<1>3. CASE get_drive
  <2>1. CASE valid_format(path)
    <3>1. From(path, 4) \in Strings
      BY <1>r, FromIs
    <3> QED BY <1>3, <2>1, <3>1 DEF get_drive, TypeOK, Strings
  <2>2. CASE ~valid_format(path)
    BY <1>3, <1>r, <2>2, ReturnTyped DEF get_drive
  <2> QED BY <2>1, <2>2
<1>4. CASE parse_path_part
  <2> DEFINE part == Until(rest, {Slash})
  <2>1. part \in Strings
    BY <1>r, UntilIs DEF Stops
  <2>2. behind(part) \in Strings
    <3>1. Len(part) + 2 \in Nat \ {0}
      BY <2>1, StringFacts
    <3> HIDE DEF part
    <3> QED BY <1>r, <3>1, FromIs DEF behind
  <2>3. Append(parts, part) \in Seq(Strings)
    BY <1>r, <2>1
  <2>4. /\ rest' = behind(part) /\ UNCHANGED <<path, res, root>>
        /\ pc' \in {pc, "act"} /\ parts' \in {parts, Append(parts, part)}
    BY <1>4 DEF parse_path_part
  <2> HIDE DEF part
  <2> QED BY <1>r, <2>2, <2>3, <2>4 DEF TypeOK, Strings
<1>5. CASE refuse
  BY <1>5, <1>r, ReturnTyped DEF refuse
<1>6. CASE open_read
  <2> DEFINE r == IF get_directory_entry(parts) THEN "ok" ELSE "fail"
  <2>1. r \in {"ok", "fail"} /\ Return(r) /\ root' = root
    BY <1>6 DEF open_read
  <2> HIDE DEF r
  <2> QED BY <1>r, <2>1, ReturnTyped
<1>7. CASE open_write
  <2>1. name_to_83(Head(parts)) \in Entries
    BY <1>7, HeadTyped, NewEntryUpper DEF open_write, UpperEntry
  <2>2. FreeSlots # {} => [root EXCEPT ![Min(FreeSlots)] = name_to_83(Head(parts))]
                             \in [Slots -> {Free} \cup Entries]
    BY <2>1, FreeSlotFacts, RootTyped
  <2>3. (Return("ok") \/ Return("fail")) /\ root' \in [Slots -> {Free} \cup Entries]
    BY <1>7, <1>r, <2>2, OpenWriteIs
  <2> QED BY <2>3, ReturnTyped
<1>8. CASE delete
  <2> DEFINE name == Head(parts)
  <2>1. Named(name) # {} => [root EXCEPT ![Min(Named(name))] = Free]
                              \in [Slots -> {Free} \cup Entries]
    BY NamedFacts, RootTyped
  <2>2. (Return("ok") \/ Return("fail")) /\ root' \in [Slots -> {Free} \cup Entries]
    BY <1>8, <1>r, <2>1 DEF delete
  <2> QED BY <2>2, ReturnTyped
<1>9. CASE UNCHANGED vars
  BY <1>9 DEF vars, TypeOK
<1> QED BY <1>2, <1>3, <1>4, <1>5, <1>6, <1>7, <1>8, <1>9 DEF Next

-----------------------------------------------------------------------------
(* ----- A file is found under its name ----- *)

NameAt(s) == full_relative_filename(root[s])
Used(s)   == root[s] # Free

(***************************************************************************)
(* Every name in the directory is in upper case; a name that was made has  *)
(* a slot; a slot has a name that was made or cut; and two slots have the  *)
(* same name only if it was cut.  The last is what deleting a name needs:  *)
(* fdelete gives up one slot, and there is no other with that name.        *)
(***************************************************************************)
UpperInv  == \A s \in Slots : Used(s) => UpperEntry(root[s])
MadeInv   == \A x \in made : \E s \in Slots : Used(s) /\ NameAt(s) = x
KnownInv  == \A s \in Slots : Used(s) => NameAt(s) \in made \cup cut
SingleInv ==
  \A s, t \in Slots : s # t /\ Used(s) /\ Used(t) /\ NameAt(s) = NameAt(t) => NameAt(s) \in cut

DirInv == UpperInv /\ MadeInv /\ KnownInv /\ SingleInv

LEMMA DirInit == Init => DirInv
  BY DEF Init, DirInv, UpperInv, MadeInv, KnownInv, SingleInv, Used

(* The slots that istrncmp takes for the name are those that have it in    *)
(* upper case.                                                             *)
LEMMA NamedIs ==
  ASSUME UpperInv, NEW name \in Strings
  PROVE  Named(name) = {s \in Slots : Used(s) /\ NameAt(s) = Uppercase(name)}
<1>1. ASSUME NEW s \in Slots, Used(s)
      PROVE  istrncmp(NameAt(s), name) <=> NameAt(s) = Uppercase(name)
  <2>1. IsUpper(NameAt(s))
    BY <1>1, FullNameUpper DEF UpperInv, NameAt
  <2> QED BY <2>1, SameName
<1> QED BY <1>1 DEF Named, NameAt, Used

(* Truncating an entry that is there: only what is told changes. *)
LEMMA KeepDir ==
  ASSUME DirInv, NEW name \in Strings, Named(name) # {}, Tell(name), root' = root
  PROVE  DirInv'
<1>1. PICK m \in Slots : Used(m) /\ NameAt(m) = Uppercase(name)
  BY NamedIs DEF DirInv
<1>2. \A s \in Slots : (Used(s)' <=> Used(s)) /\ NameAt(s)' = NameAt(s)
  BY DEF Used, NameAt
<1>3. made \subseteq made' /\ cut \subseteq cut' /\ made' \subseteq made \cup {Uppercase(name)}
  BY DEF Tell
<1>4. UpperInv'
  BY <1>2 DEF DirInv, UpperInv, Used
<1>5. MadeInv'
  <2> SUFFICES ASSUME NEW x \in made' PROVE \E s \in Slots : Used(s) /\ NameAt(s) = x
    BY <1>2 DEF MadeInv
  <2>1. x \in made \/ x = Uppercase(name)
    BY <1>3
  <2> QED BY <1>1, <2>1 DEF DirInv, MadeInv
<1>6. KnownInv'
  BY <1>2, <1>3 DEF DirInv, KnownInv
<1>7. SingleInv'
  BY <1>2, <1>3 DEF DirInv, SingleInv
<1> QED BY <1>4, <1>5, <1>6, <1>7 DEF DirInv

(* A new entry in a free slot. *)
LEMMA NewDir ==
  ASSUME TypeOK, DirInv, NEW name \in Strings, Named(name) = {}, NEW m \in Slots, root[m] = Free,
         root' = [root EXCEPT ![m] = name_to_83(name)], Tell(name)
  PROVE  DirInv'
<1> DEFINE w == full_relative_filename(name_to_83(name))
<1>1. UpperEntry(name_to_83(name)) /\ name_to_83(name) # Free
  BY NewEntryUpper, EntryNotFree DEF UpperEntry
<1>2. /\ root'[m] = name_to_83(name)
      /\ \A s \in Slots : s # m => root'[s] = root[s]
  BY DEF TypeOK
<1>3. /\ Used(m)' /\ ~Used(m) /\ NameAt(m)' = w
      /\ \A s \in Slots : s # m => (Used(s)' <=> Used(s)) /\ NameAt(s)' = NameAt(s)
  BY <1>1, <1>2 DEF Used, NameAt
<1>4. Fits(name) => w = Uppercase(name) /\ made' = made \cup {w} /\ cut' = cut
  BY ReadBack DEF Tell
<1>5. ~Fits(name) => made' = made /\ cut' = cut \cup {w}
  BY DEF Tell
<1> HIDE DEF w
<1>6. UpperInv'
  BY <1>1, <1>2, <1>3 DEF DirInv, UpperInv
<1>7. MadeInv'
  <2> SUFFICES ASSUME NEW x \in made' PROVE \E s \in Slots : Used(s)' /\ NameAt(s)' = x
    BY DEF MadeInv
  <2>1. CASE x = w
    BY <1>3, <2>1
  <2>2. CASE x \in made
    <3>1. PICK s \in Slots : Used(s) /\ NameAt(s) = x
      BY <2>2 DEF DirInv, MadeInv
    <3> QED BY <1>3, <3>1
  <2> QED BY <1>4, <1>5, <2>1, <2>2
<1>8. made \subseteq made' /\ cut \subseteq cut' /\ w \in made' \cup cut'
  BY <1>4, <1>5
<1>9. KnownInv'
  BY <1>3, <1>8 DEF DirInv, KnownInv
<1>10. SingleInv'
  <2>1. ASSUME NEW t \in Slots, t # m, Used(t), NameAt(t) = w PROVE w \in cut'
    <3>1. CASE Fits(name)
      <4>1. t \in Named(name)
        BY <1>4, <2>1, <3>1, NamedIs DEF DirInv
      <4> QED BY <4>1
    <3>2. CASE ~Fits(name)
      BY <1>5, <3>2
    <3> QED BY <3>1, <3>2
  <2> SUFFICES ASSUME NEW s \in Slots, NEW t \in Slots, s # t, Used(s)', Used(t)',
                      NameAt(s)' = NameAt(t)'
               PROVE  NameAt(s)' \in cut'
    BY DEF SingleInv
  <2>2. CASE s = m
    BY <1>3, <2>1, <2>2
  <2>3. CASE t = m
    BY <1>3, <2>1, <2>3
  <2>4. CASE s # m /\ t # m
    BY <1>3, <1>8, <2>4 DEF DirInv, SingleInv
  <2> QED BY <2>2, <2>3, <2>4
<1> QED BY <1>6, <1>7, <1>9, <1>10 DEF DirInv

(* A slot that is given up, with its name. *)
LEMMA DeleteDir ==
  ASSUME TypeOK, DirInv, NEW name \in Strings, NEW m \in Named(name),
         root' = [root EXCEPT ![m] = Free], made' = made \ {Uppercase(name)}, cut' = cut
  PROVE  DirInv'
<1>1. m \in Slots /\ Used(m) /\ NameAt(m) = Uppercase(name)
  BY NamedIs DEF DirInv
<1>2. /\ root'[m] = Free
      /\ \A s \in Slots : s # m => root'[s] = root[s]
  BY <1>1 DEF TypeOK
<1>3. /\ ~Used(m)'
      /\ \A s \in Slots : s # m => (Used(s)' <=> Used(s)) /\ NameAt(s)' = NameAt(s)
  BY <1>2 DEF Used, NameAt
<1>4. UpperInv'
  BY <1>2, <1>3 DEF DirInv, UpperInv
<1>5. MadeInv'
  <2> SUFFICES ASSUME NEW x \in made' PROVE \E s \in Slots : Used(s)' /\ NameAt(s)' = x
    BY DEF MadeInv
  <2>1. PICK s \in Slots : Used(s) /\ NameAt(s) = x
    BY DEF DirInv, MadeInv
  <2>2. s # m
    BY <1>1, <2>1
  <2> QED BY <1>3, <2>1, <2>2
<1>6. KnownInv'
  <2> SUFFICES ASSUME NEW s \in Slots, Used(s)' PROVE NameAt(s)' \in made' \cup cut'
    BY DEF KnownInv
  <2>1. s # m /\ Used(s) /\ NameAt(s)' = NameAt(s)
    BY <1>3
  <2>2. CASE NameAt(s) = Uppercase(name)
    BY <1>1, <2>1, <2>2 DEF DirInv, SingleInv
  <2>3. CASE NameAt(s) # Uppercase(name)
    BY <2>1, <2>3 DEF DirInv, KnownInv
  <2> QED BY <2>2, <2>3
<1>7. SingleInv'
  BY <1>3 DEF DirInv, SingleInv
<1> QED BY <1>4, <1>5, <1>6, <1>7 DEF DirInv

LEMMA DirNext == TypeOK /\ DirInv /\ [Next]_vars => DirInv'
<1> SUFFICES ASSUME TypeOK, DirInv, [Next]_vars PROVE DirInv'
  OBVIOUS
<1>1. ASSUME UNCHANGED <<root, made, cut>> PROVE DirInv'
  BY <1>1 DEF DirInv, UpperInv, MadeInv, KnownInv, SingleInv, Used, NameAt
<1>2. CASE shell_call \/ raw_call \/ get_drive \/ parse_path_part \/ refuse \/ open_read
  BY <1>1, <1>2 DEF shell_call, raw_call, call, get_drive, parse_path_part, refuse, open_read
<1>3. CASE open_write
  <2>1. Head(parts) \in Strings
    BY <1>3, HeadTyped DEF open_write
  <2> QED BY <1>1, <1>3, <2>1, OpenWriteIs, KeepDir, NewDir, FreeSlotFacts
<1>4. CASE delete
  <2>1. Head(parts) \in Strings
    BY <1>4, HeadTyped DEF delete
  <2> QED BY <1>1, <1>4, <2>1, DeleteDir, NamedFacts DEF delete
<1>5. CASE UNCHANGED vars
  BY <1>1, <1>5 DEF vars
<1> QED BY <1>2, <1>3, <1>4, <1>5 DEF Next

LEMMA DirFinds ==
  ASSUME DirInv
  PROVE  FoundAgain
<1>1. ASSUME NEW x \in made
      PROVE  get_directory_entry(<<x>>) /\ get_directory_entry(<<Lowercase(x)>>)
  <2>1. PICK s \in Slots : Used(s) /\ NameAt(s) = x
    BY DEF DirInv, MadeInv
  <2>2. IsUpper(x)
    BY <2>1, FullNameUpper DEF DirInv, UpperInv, NameAt
  <2>3. x \in Strings /\ Lowercase(x) \in Strings
    BY <2>2, LowerIs DEF IsUpper
  <2>4. s \in Named(x) /\ s \in Named(Lowercase(x))
    BY <2>1, <2>2, <2>3, NamedIs, UpperOfUpper DEF DirInv
  <2>5. \A y : Head(<<y>>) = y /\ Len(<<y>>) = 1
    OBVIOUS
  <2> QED BY <2>4, <2>5 DEF get_directory_entry
<1> QED BY <1>1 DEF FoundAgain, DirInv, KnownInv, NameAt, Used

-----------------------------------------------------------------------------
(* ----- The parts of a path, put together again ----- *)

(***************************************************************************)
(* FlattenSeq, by its recursion: f has what the first strings of s make.   *)
(***************************************************************************)
Flattens(f, s, n) ==
  /\ f \in [1 .. n -> Strings] /\ f[1] = s[1]
  /\ \A i \in 2 .. n : f[i] = f[i - 1] \o s[i]

LEMMA FlattenExists ==
  ASSUME NEW s \in Seq(Strings), s # <<>>
  PROVE  \E f : Flattens(f, s, Len(s))
<1> DEFINE B == {k \in Nat : k \in 1 .. Len(s) /\ ~ \E f : Flattens(f, s, k)}
<1>s. Len(s) \in Nat \ {0} /\ \A i \in 1 .. Len(s) : s[i] \in Strings
  OBVIOUS
<1>1. SUFFICES ASSUME B # {} PROVE FALSE
  BY <1>s
<1>2. B \subseteq Nat
  OBVIOUS
<1> HIDE DEF B
<1>3. PICK k \in B : \A m \in B : k <= m
  BY <1>1, <1>2, MinIn
<1>4. k \in Nat /\ k \in 1 .. Len(s) /\ ~ \E f : Flattens(f, s, k)
  BY <1>3 DEF B
<1>5. CASE k = 1
  <2> DEFINE g == [m \in 1 .. 1 |-> s[1]]
  <2>1. Flattens(g, s, 1)
    BY <1>s DEF Flattens
  <2> QED BY <1>4, <1>5, <2>1
<1>6. CASE k # 1
  <2>1. k - 1 \in Nat /\ k - 1 \in 1 .. Len(s) /\ ~(k <= k - 1) /\ k - 1 >= 1
    BY <1>4, <1>6, <1>s
  <2>2. k - 1 \notin B
    BY <1>3, <2>1
  <2>3. PICK f : Flattens(f, s, k - 1)
    BY <2>1, <2>2 DEF B
  <2>4. /\ f \in [1 .. (k - 1) -> Strings] /\ f[1] = s[1]
        /\ \A i \in 2 .. (k - 1) : f[i] = f[i - 1] \o s[i]
    BY <2>3 DEF Flattens
  <2> DEFINE last == f[k - 1] \o s[k]
             g    == [m \in 1 .. k |-> IF m = k THEN last ELSE f[m]]
  <2>5. last \in Strings
    <3>1. f[k - 1] \in Strings /\ s[k] \in Strings
      BY <1>4, <1>s, <2>1, <2>4
    <3> QED BY <3>1, ConcatIs
  <2> HIDE DEF last
  <2>6. /\ g \in [1 .. k -> Strings] /\ g[1] = s[1] /\ g[k] = last
        /\ \A m \in 1 .. (k - 1) : g[m] = f[m]
    BY <1>4, <1>6, <2>1, <2>4, <2>5
  <2> HIDE DEF g
  <2>7. ASSUME NEW m \in 2 .. k PROVE g[m] = g[m - 1] \o s[m]
    <3>1. CASE m = k
      <4>1. g[m - 1] = f[k - 1]
        BY <2>1, <2>6, <3>1
      <4> QED BY <2>6, <3>1, <4>1 DEF last
    <3>2. CASE m # k
      <4>1. m \in 2 .. (k - 1) /\ m \in 1 .. (k - 1) /\ m - 1 \in 1 .. (k - 1)
        BY <1>4, <3>2
      <4>2. g[m] = f[m] /\ g[m - 1] = f[m - 1]
        BY <2>6, <4>1
      <4> QED BY <2>4, <4>1, <4>2
    <3> QED BY <3>1, <3>2
  <2>8. Flattens(g, s, k)
    BY <2>6, <2>7 DEF Flattens
  <2> QED BY <1>4, <2>8
<1> QED BY <1>5, <1>6

(* There is one such f only. *)
Recurs(f, s, n) == \A i \in 1 .. n : f[i] = IF i = 1 THEN s[i] ELSE f[i - 1] \o s[i]

LEMMA FlattenOnly ==
  ASSUME NEW s, NEW n \in Nat \ {0}, NEW f, NEW g, Recurs(f, s, n), Recurs(g, s, n)
  PROVE  \A i \in 1 .. n : f[i] = g[i]
<1> DEFINE B == {i \in Nat : i \in 1 .. n /\ f[i] # g[i]}
<1>1. SUFFICES ASSUME B # {} PROVE FALSE
  OBVIOUS
<1>2. B \subseteq Nat
  OBVIOUS
<1> HIDE DEF B
<1>3. PICK i \in B : \A m \in B : i <= m
  BY <1>1, <1>2, MinIn
<1>4. i \in 1 .. n /\ f[i] # g[i]
  BY <1>3 DEF B
<1>5. i # 1
  BY <1>4 DEF Recurs
<1>6. i - 1 \in Nat /\ i - 1 \in 1 .. n /\ ~(i <= i - 1)
  BY <1>4, <1>5
<1>7. f[i - 1] = g[i - 1]
  BY <1>3, <1>6 DEF B
<1> QED BY <1>4, <1>5, <1>7 DEF Recurs

LEMMA FlattenIs ==
  ASSUME NEW s \in Seq(Strings), s # <<>>
  PROVE  \E f : Flattens(f, s, Len(s)) /\ FlattenSeq(s) = f[Len(s)]
<1> DEFINE F(g) == [i \in 1 .. Len(s) |-> IF i = 1 THEN s[i] ELSE g[i - 1] \o s[i]]
           h == CHOOSE g : g = F(g)
<1>s. Len(s) \in Nat \ {0}
  OBVIOUS
<1>1. PICK f : Flattens(f, s, Len(s))
  BY FlattenExists
<1>2. f \in [1 .. Len(s) -> Strings]
      /\ \A i \in 1 .. Len(s) : f[i] = IF i = 1 THEN s[i] ELSE f[i - 1] \o s[i]
  <2>1. \A i \in 1 .. Len(s) : i = 1 \/ i \in 2 .. Len(s)
    BY <1>s
  <2> QED BY <1>1, <2>1 DEF Flattens
<1>3. f = F(f)
  BY <1>2
<1>4. h = F(h)
  <2> HIDE DEF F
  <2> QED BY <1>3
<1>5. FlattenSeq(s) = h[Len(s)]
  BY <1>s DEF FlattenSeq
<1> HIDE DEF h
<1>6. Recurs(h, s, Len(s)) /\ Recurs(f, s, Len(s))
  BY <1>2, <1>4 DEF Recurs
<1>7. \A i \in 1 .. Len(s) : h[i] = f[i]
  BY <1>s, <1>6, FlattenOnly
<1>8. FlattenSeq(s) = f[Len(s)]
  BY <1>s, <1>5, <1>7
<1> QED BY <1>1, <1>8

LEMMA FlattenTyped ==
  ASSUME NEW s \in Seq(Strings)
  PROVE  FlattenSeq(s) \in Strings /\ (s = <<>> => FlattenSeq(s) = <<>>)
<1>1. CASE s = <<>>
  <2>1. <<>> \in Strings
    BY DEF Strings
  <2> QED BY <1>1, <2>1 DEF FlattenSeq
<1>2. CASE s # <<>>
  <2>1. Len(s) \in 1 .. Len(s)
    BY <1>2
  <2> QED BY <1>2, <2>1, FlattenIs DEF Flattens
<1> QED BY <1>1, <1>2

LEMMA FlattenAppend ==
  ASSUME NEW s \in Seq(Strings), NEW x \in Strings
  PROVE  FlattenSeq(Append(s, x)) = IF s = <<>> THEN x ELSE FlattenSeq(s) \o x
<1> DEFINE t == Append(s, x)
           n == Len(s)
<1>1. /\ t \in Seq(Strings) /\ t # <<>> /\ Len(t) = n + 1 /\ n \in Nat
      /\ (\A i \in 1 .. n : t[i] = s[i]) /\ t[n + 1] = x
  BY AppendProperties
<1> HIDE DEF t
<1>2. PICK g : Flattens(g, t, Len(t)) /\ FlattenSeq(t) = g[Len(t)]
  BY <1>1, FlattenIs
<1>3. /\ g[1] = t[1] /\ FlattenSeq(t) = g[n + 1]
      /\ \A i \in 2 .. n + 1 : g[i] = g[i - 1] \o t[i]
  BY <1>1, <1>2 DEF Flattens
<1>4. CASE s = <<>>
  <2>1. n = 0
    BY <1>4
  <2> QED BY <1>1, <1>3, <1>4, <2>1 DEF t
<1>5. CASE s # <<>>
  <2>1. n \in Nat \ {0}
    BY <1>1, <1>5
  <2>2. PICK f : Flattens(f, s, n) /\ FlattenSeq(s) = f[n]
    BY <1>5, FlattenIs
  <2> HIDE DEF n
  <2>3. \A i \in 1 .. n : i = 1 \/ (i \in 2 .. n /\ i \in 2 .. n + 1)
    BY <2>1
  <2>4. Recurs(f, s, n)
    BY <2>2, <2>3 DEF Flattens, Recurs
  <2>5. Recurs(g, s, n)
    BY <1>1, <1>3, <2>1, <2>3 DEF Recurs
  <2>6. f[n] = g[n]
    BY <2>1, <2>4, <2>5, FlattenOnly
  <2>7. n + 1 \in 2 .. n + 1 /\ (n + 1) - 1 = n
    BY <2>1
  <2>8. g[n + 1] = g[n] \o x
    BY <1>1, <1>3, <2>7
  <2> QED BY <1>3, <1>5, <2>2, <2>6, <2>8 DEF t
<1> QED BY <1>4, <1>5

LEMMA JoinedTyped ==
  ASSUME NEW p \in Seq(Strings)
  PROVE  Joined(p) \in Seq(Strings) /\ (p = <<>> <=> Joined(p) = <<>>)
<1>1. Len(p) \in Nat /\ DOMAIN p = 1 .. Len(p) /\ \A i \in 1 .. Len(p) : p[i] \in Strings
  OBVIOUS
<1>2. Slash \in Chars
  BY DEF Chars
<1>3. \A i \in 1 .. Len(p) : (IF i = 1 THEN p[i] ELSE <<Slash>> \o p[i]) \in Strings
  BY <1>1, <1>2, OneChar, ConcatIs
<1>4. Joined(p) = [i \in 1 .. Len(p) |-> IF i = 1 THEN p[i] ELSE <<Slash>> \o p[i]]
  BY <1>1 DEF Joined
<1>5. Joined(p) \in [1 .. Len(p) -> Strings]
  BY <1>3, <1>4
<1>6. Joined(p) \in Seq(Strings) /\ Len(Joined(p)) = Len(p)
  BY <1>1, <1>5
<1> QED BY <1>1, <1>6

LEMMA JoinedAppend ==
  ASSUME NEW p \in Seq(Strings), NEW x \in Strings
  PROVE  Joined(Append(p, x)) = Append(Joined(p), IF p = <<>> THEN x ELSE <<Slash>> \o x)
<1> DEFINE y == IF p = <<>> THEN x ELSE <<Slash>> \o x
           q == Append(p, x)
           n == Len(p)
<1>1. n \in Nat /\ (p = <<>> <=> n = 0) /\ DOMAIN p = 1 .. n
  OBVIOUS
<1>2. /\ q \in Seq(Strings) /\ Len(q) = n + 1 /\ DOMAIN q = 1 .. n + 1
      /\ (\A i \in 1 .. n : q[i] = p[i]) /\ q[n + 1] = x
  BY AppendProperties, LenProperties
<1>3. Joined(p) = [i \in 1 .. n |-> IF i = 1 THEN p[i] ELSE <<Slash>> \o p[i]]
  BY <1>1 DEF Joined
<1>4. Joined(q) = [i \in 1 .. n + 1 |-> IF i = 1 THEN q[i] ELSE <<Slash>> \o q[i]]
  BY <1>2 DEF Joined
<1>5. y \in Strings
  <2>1. Slash \in Chars
    BY DEF Chars
  <2> QED BY <2>1, OneChar, ConcatIs
<1>6. /\ Append(Joined(p), y) \in Seq(Strings) /\ Len(Append(Joined(p), y)) = Len(Joined(p)) + 1
      /\ \A i \in 1 .. Len(Joined(p)) : Append(Joined(p), y)[i] = Joined(p)[i]
      /\ Append(Joined(p), y)[Len(Joined(p)) + 1] = y
  BY <1>5, JoinedTyped, AppendProperties
<1>7. Len(Joined(p)) = n
  BY <1>1, <1>3, JoinedTyped
<1>8. Joined(q) \in Seq(Strings) /\ Len(Joined(q)) = n + 1
  <2>1. Joined(q) \in Seq(Strings)
    BY <1>2, JoinedTyped
  <2> QED BY <1>1, <1>4, <2>1
<1>y. y = IF n + 1 = 1 THEN x ELSE <<Slash>> \o x
  BY <1>1
<1> HIDE DEF y, q, n
<1>9. ASSUME NEW i \in 1 .. n + 1 PROVE Joined(q)[i] = Append(Joined(p), y)[i]
  <2>1. CASE i = n + 1
    <3>1. Joined(q)[i] = y
      BY <1>2, <1>4, <1>y, <2>1
    <3> QED BY <1>6, <1>7, <2>1, <3>1
  <2>2. CASE i # n + 1
    <3>1. i \in 1 .. n
      BY <1>1, <2>2
    <3>2. Joined(q)[i] = Joined(p)[i]
      BY <1>2, <1>3, <1>4, <3>1
    <3> QED BY <1>6, <1>7, <3>1, <3>2
  <2> QED BY <2>1, <2>2
<1>10. Joined(q) = Append(Joined(p), y)
  BY <1>6, <1>7, <1>8, <1>9, SeqEqual
<1> QED BY <1>10 DEF y, q

(***************************************************************************)
(* How far the parser is: j is what the parts found so far make, name the  *)
(* path behind its drive, r what is left to parse.  A part and the slash   *)
(* behind it go together, so between j and r there is one slash, or j is   *)
(* all there is.                                                           *)
(***************************************************************************)
Reached(j, name, r, none) ==
  /\ j \in Strings /\ name \in Strings /\ r \in Strings
  /\ Len(j) <= Len(name) /\ \A i \in 1 .. Len(j) : j[i] = name[i]
  /\ none => j = <<>> /\ r = name
  /\ ~none => \/ Len(j) = Len(name) /\ r = <<>>
              \/ /\ Len(j) < Len(name) /\ name[Len(j) + 1] = Slash
                 /\ r = From(name, Len(j) + 2)

(* The next part, the first or another. *)
LEMMA FirstPart ==
  ASSUME NEW name \in Strings, NEW u, Stops(name, {Slash}, u)
  PROVE  Reached(u, name, From(name, Len(u) + 2), FALSE)
<1>1. u \in Strings /\ Len(u) \in Nat /\ Len(name) \in Nat /\ Len(u) <= Len(name)
  BY StringFacts DEF Stops
<1>2. From(name, Len(u) + 2) \in Strings
      /\ (Len(u) = Len(name) => Len(From(name, Len(u) + 2)) = 0)
  BY <1>1, FromIs
<1>3. Len(u) = Len(name) => From(name, Len(u) + 2) = <<>>
  BY <1>2 DEF Strings
<1>4. Len(u) < Len(name) => name[Len(u) + 1] = Slash
  BY DEF Stops
<1>5. \A i \in 1 .. Len(u) : u[i] = name[i]
  BY DEF Stops
<1> QED BY <1>1, <1>2, <1>3, <1>4, <1>5 DEF Reached

LEMMA NextPart ==
  ASSUME NEW j, NEW name, NEW r, Reached(j, name, r, FALSE), NEW u, Stops(r, {Slash}, u), u # <<>>
  PROVE  Reached(j \o (<<Slash>> \o u), name, From(r, Len(u) + 2), FALSE)
<1> DEFINE d == <<Slash>> \o u
           w == j \o d
           q == From(r, Len(u) + 2)
           L == Len(j)
           M == Len(u)
<1>1. /\ j \in Strings /\ name \in Strings /\ r \in Strings /\ u \in Strings
      /\ L \in Nat /\ M \in Nat /\ Len(name) \in Nat /\ Len(r) \in Nat /\ M <= Len(r)
  BY StringFacts DEF Reached, Stops
<1>2. M # 0
  BY <1>1 DEF Strings
<1>3. r # <<>>
  BY <1>1, <1>2
<1>4. L < Len(name) /\ name[L + 1] = Slash /\ r = From(name, L + 2)
  BY <1>3 DEF Reached
<1>5. Len(r) = IF L + 2 <= Len(name) THEN Len(name) - (L + 2) + 1 ELSE 0
  BY <1>1, <1>4, FromIs
<1>6. Len(r) = Len(name) - L - 1 /\ L + 1 + M <= Len(name)
  BY <1>1, <1>2, <1>4, <1>5
<1>7. \A i \in 1 .. Len(r) : r[i] = name[L + 1 + i]
  <2>1. \A i \in 1 .. Len(r) : r[i] = name[(L + 2) + i - 1]
    BY <1>1, <1>4, FromIs
  <2>2. \A i \in 1 .. Len(r) : (L + 2) + i - 1 = L + 1 + i
    BY <1>1
  <2> QED BY <2>1, <2>2
<1>8. /\ d \in Strings /\ Len(d) = 1 + M
      /\ \A i \in 1 .. 1 + M : d[i] = IF i <= 1 THEN <<Slash>>[i] ELSE u[i - 1]
  <2>1. Slash \in Chars
    BY DEF Chars
  <2> QED BY <1>1, <2>1, OneChar, ConcatIs
<1> HIDE DEF d
<1>9. /\ w \in Strings /\ Len(w) = L + Len(d)
      /\ \A i \in 1 .. L + Len(d) : w[i] = IF i <= L THEN j[i] ELSE d[i - L]
  BY <1>1, <1>8, ConcatIs
<1>10. /\ q \in Strings /\ Len(q) = IF M + 2 <= Len(r) THEN Len(r) - (M + 2) + 1 ELSE 0
       /\ \A i \in 1 .. Len(q) : q[i] = r[(M + 2) + i - 1]
  BY <1>1, FromIs
<1> HIDE DEF w, q, L, M
<1>11. Len(w) = L + 1 + M /\ Len(w) <= Len(name)
  BY <1>1, <1>6, <1>8, <1>9
<1>12. ASSUME NEW i \in 1 .. Len(w) PROVE w[i] = name[i]
  <2>1. CASE i <= L
    <3>1. i \in 1 .. L /\ i \in 1 .. L + Len(d)
      BY <1>1, <1>8, <1>11, <2>1
    <3>2. \A n \in 1 .. L : j[n] = name[n]
      BY DEF Reached, L
    <3> QED BY <1>9, <2>1, <3>1, <3>2
  <2>2. CASE i = L + 1
    <3>1. w[i] = d[1] /\ d[1] = Slash
      BY <1>1, <1>8, <1>9, <1>11, <2>2
    <3> QED BY <1>4, <2>2, <3>1
  <2>3. CASE i > L + 1
    <3>1. i - L \in 1 .. 1 + M /\ ~(i - L <= 1) /\ ~(i <= L) /\ i - L - 1 \in 1 .. M
          /\ i - L - 1 \in 1 .. Len(r) /\ L + 1 + (i - L - 1) = i
      BY <1>1, <1>11, <2>3
    <3>2. w[i] = u[i - L - 1]
      BY <1>8, <1>9, <1>11, <3>1
    <3>3. u[i - L - 1] = r[i - L - 1]
      BY <3>1 DEF Stops, M
    <3>4. r[i - L - 1] = name[L + 1 + (i - L - 1)]
      BY <1>7, <3>1
    <3> QED BY <3>1, <3>2, <3>3, <3>4
  <2> QED BY <1>1, <2>1, <2>2, <2>3
<1>13. CASE M = Len(r)
  <2>1. Len(q) = 0 /\ Len(w) = Len(name)
    BY <1>1, <1>6, <1>10, <1>11, <1>13
  <2>2. q = <<>>
    BY <1>10, <2>1 DEF Strings
  <2>3. Reached(w, name, q, FALSE)
    BY <1>1, <1>9, <1>10, <1>12, <1>11, <2>1, <2>2 DEF Reached
  <2> QED BY <2>3 DEF w, d, q, M
<1>14. CASE M < Len(r)
  <2>1. r[M + 1] = Slash /\ M + 1 \in 1 .. Len(r)
    BY <1>1, <1>14 DEF Stops, M
  <2>2. L + 1 + (M + 1) = Len(w) + 1 /\ Len(w) < Len(name)
    BY <1>1, <1>6, <1>11, <1>14
  <2>3. name[Len(w) + 1] = Slash
    BY <1>7, <2>1, <2>2
  <2> DEFINE v == From(name, Len(w) + 2)
  <2>4. /\ v \in Strings
        /\ Len(v) = IF Len(w) + 2 <= Len(name) THEN Len(name) - (Len(w) + 2) + 1 ELSE 0
        /\ \A i \in 1 .. Len(v) : v[i] = name[(Len(w) + 2) + i - 1]
    <3>1. Len(w) + 2 \in Nat \ {0}
      BY <1>1, <1>11
    <3> QED BY <1>1, <3>1, FromIs
  <2> HIDE DEF v
  <2>5. Len(v) = Len(q)
    BY <1>1, <1>6, <1>10, <1>11, <1>14, <2>4
  <2>6. ASSUME NEW i \in 1 .. Len(q) PROVE q[i] = v[i]
    <3>1. (M + 2) + i - 1 \in 1 .. Len(r) /\ L + 1 + ((M + 2) + i - 1) = (Len(w) + 2) + i - 1
      BY <1>1, <1>10, <1>11, <1>14
    <3>2. r[(M + 2) + i - 1] = name[L + 1 + ((M + 2) + i - 1)]
      BY <1>7, <3>1
    <3> QED BY <1>10, <2>4, <2>5, <3>1, <3>2
  <2>7. q = v
    BY <1>10, <2>4, <2>5, <2>6, SameString
  <2>8. Reached(w, name, q, FALSE)
    BY <1>1, <1>9, <1>10, <1>12, <1>11, <2>2, <2>3, <2>7 DEF Reached, v
  <2> QED BY <2>8 DEF w, d, q, M
<1>15. M = Len(r) \/ M < Len(r)
  BY <1>1
<1> QED BY <1>13, <1>14, <1>15, Zenon

(***************************************************************************)
(* The end of the path, where the next part is empty.                      *)
(***************************************************************************)
Ends(j, name, none) ==
  LET left == From(name, Len(j) + 1)
  IN  /\ IsPrefix(j, name)
      /\ \/ left \in {<<>>, <<Slash>>}
         \/ none /\ Head(left) = Slash
         \/ IsPrefix(<<Slash, Slash>>, left)

LEMMA LastPart ==
  ASSUME NEW j, NEW name, NEW r, NEW none \in BOOLEAN, Reached(j, name, r, none),
         Stops(r, {Slash}, <<>>)
  PROVE  Ends(j, name, none)
<1> DEFINE left == From(name, Len(j) + 1)
           L    == Len(j)
<1>1. /\ j \in Strings /\ name \in Strings /\ r \in Strings
      /\ L \in Nat /\ Len(name) \in Nat /\ Len(r) \in Nat /\ L <= Len(name)
  BY StringFacts DEF Reached
<1>2. Len(<<>>) = 0
  OBVIOUS
<1>3. Len(r) = 0 \/ (0 < Len(r) /\ r[1] = Slash)
  BY <1>1, <1>2 DEF Stops
<1>4. IsPrefix(j, name)
  <2>1. /\ SubSeq(j, 1, L) \in Strings /\ Len(SubSeq(j, 1, L)) = L
        /\ \A i \in 1 .. L : SubSeq(j, 1, L)[i] = j[i]
    BY <1>1, PrefixIs
  <2>2. /\ SubSeq(name, 1, L) \in Strings /\ Len(SubSeq(name, 1, L)) = L
        /\ \A i \in 1 .. L : SubSeq(name, 1, L)[i] = name[i]
    BY <1>1, PrefixIs
  <2>3. \A i \in 1 .. L : j[i] = name[i]
    BY DEF Reached
  <2>4. SubSeq(j, 1, L) = SubSeq(name, 1, L)
    BY <2>1, <2>2, <2>3, SameString
  <2> QED BY <1>1, <2>4 DEF IsPrefix
<1>5. /\ left \in Strings /\ Len(left) = IF L + 1 <= Len(name) THEN Len(name) - (L + 1) + 1 ELSE 0
      /\ \A i \in 1 .. Len(left) : left[i] = name[(L + 1) + i - 1]
  BY <1>1, FromIs
<1>l. Len(left) = Len(name) - L
  BY <1>1, <1>5
<1> HIDE DEF left
<1>6. Len(left) = 0 => left = <<>>
  BY <1>5 DEF Strings
<1>7. CASE none
  <2>1. L = 0 /\ r = name
    BY <1>7, <1>2 DEF Reached
  <2>2. Len(left) = Len(r)
    BY <1>1, <1>l, <2>1
  <2>3. Len(r) # 0 => Head(left) = Slash
    <3> SUFFICES ASSUME Len(r) # 0 PROVE Head(left) = Slash
      OBVIOUS
    <3>1. 1 \in 1 .. Len(left) /\ (L + 1) + 1 - 1 = 1
      BY <1>1, <2>1, <2>2
    <3>2. left[1] = name[1] /\ r[1] = Slash
      BY <1>3, <1>5, <3>1
    <3>3. left[1] = Slash
      BY <2>1, <3>2
    <3> QED BY <1>5, <3>1, <3>3 DEF Strings
  <2>4. left = <<>> \/ Head(left) = Slash
    BY <1>6, <2>2, <2>3
  <2> QED BY <1>4, <1>7, <2>4 DEF Ends, left
<1>8. CASE ~none /\ L = Len(name)
  <2>1. left = <<>>
    BY <1>1, <1>6, <1>8, <1>l
  <2> QED BY <1>4, <2>1 DEF Ends, left
<1>9. CASE ~none /\ L # Len(name)
  <2>1. L < Len(name) /\ name[L + 1] = Slash /\ r = From(name, L + 2)
    BY <1>9 DEF Reached
  <2>2. 1 \in 1 .. Len(left) /\ (L + 1) + 1 - 1 = L + 1
    BY <1>1, <1>l, <2>1
  <2>3. left[1] = Slash
    BY <1>5, <2>1, <2>2
  <2>4. /\ Len(r) = IF L + 2 <= Len(name) THEN Len(name) - (L + 2) + 1 ELSE 0
        /\ \A i \in 1 .. Len(r) : r[i] = name[(L + 2) + i - 1]
    BY <1>1, <2>1, FromIs
  <2>5. CASE Len(r) = 0
    <3>1. Len(left) = 1
      BY <1>1, <1>l, <2>1, <2>4, <2>5
    <3>2. left = <<Slash>>
      BY <1>5, <2>3, <3>1 DEF Strings
    <3> QED BY <1>4, <3>2 DEF Ends, left
  <2>6. CASE Len(r) # 0
    <3>1. 1 \in 1 .. Len(r) /\ (L + 2) + 1 - 1 = L + 2 /\ 2 \in 1 .. Len(left)
          /\ (L + 1) + 2 - 1 = L + 2 /\ 2 <= Len(left) /\ Len(left) \in Nat
      BY <1>1, <1>l, <2>1, <2>4, <2>6
    <3>2. r[1] = Slash
      BY <1>1, <1>3, <2>6
    <3>3. r[1] = name[L + 2]
      BY <2>4, <3>1
    <3>4. left[2] = name[L + 2]
      BY <1>5, <3>1
    <3>5. left[2] = Slash
      BY <3>2, <3>3, <3>4
    <3>6. /\ SubSeq(left, 1, 2) \in Strings /\ Len(SubSeq(left, 1, 2)) = 2
          /\ \A i \in 1 .. 2 : SubSeq(left, 1, 2)[i] = left[i]
      BY <1>5, <3>1, PrefixIs
    <3> DEFINE two == <<Slash, Slash>>
    <3>7. two \in Strings /\ Len(two) = 2 /\ two[1] = Slash /\ two[2] = Slash
      BY DEF Strings, Chars
    <3>8. SubSeq(two, 1, 2) = two
      BY <3>7, SubSeqFull DEF Strings
    <3> HIDE DEF two
    <3>9. SubSeq(left, 1, 2) = two
      <4>1. \A i \in 1 .. 2 : i = 1 \/ i = 2
        OBVIOUS
      <4>2. \A i \in 1 .. 2 : SubSeq(left, 1, 2)[i] = two[i]
        BY <2>3, <3>5, <3>6, <3>7, <4>1
      <4> QED BY <3>6, <3>7, <4>2, SameString
    <3>10. IsPrefix(two, left)
      BY <3>1, <3>7, <3>8, <3>9 DEF IsPrefix
    <3> QED BY <1>4, <3>10 DEF Ends, left, two
  <2> QED BY <2>5, <2>6
<1> QED BY <1>7, <1>8, <1>9

(* ----- The parser ----- *)

Found      == FlattenSeq(Joined(parts))
PathName   == From(path, 4)
WholeParts == \A i \in DOMAIN parts : parts[i] # <<>> /\ Slash \notin Range(parts[i])

(***************************************************************************)
(* The invariant of the loop over the parts.                               *)
(***************************************************************************)
ParseInv ==
  /\ pc = "drive" => parts = <<>>
  /\ pc \in {"part", "act"} => valid_format(path) /\ WholeParts
  /\ pc = "part" => IF parts = <<>> THEN Reached(Found, PathName, rest, TRUE)
                                    ELSE Reached(Found, PathName, rest, FALSE)
  /\ ParsedRight

LEMMA ParseInit == Init => ParseInv
  BY DEF Init, ParseInv, ParsedRight

LEMMA FoundFacts ==
  ASSUME TypeOK
  PROVE  Found \in Strings /\ (parts = <<>> => Found = <<>>)
<1>1. parts \in Seq(Strings)
  BY DEF TypeOK, Strings
<1> QED BY <1>1, JoinedTyped, FlattenTyped DEF Found

(* What a valid path begins with. *)
LEMMA DriveBegins ==
  ASSUME TypeOK, valid_format(path)
  PROVE  IsPrefix(Drive, path) \/ IsPrefix(<<"1", ":", Slash>>, path)
<1> DEFINE other == <<"1", ":", Slash>>
<1>1. path \in Strings /\ Len(path) \in Nat /\ 3 <= Len(path)
      /\ path[1] \in {"0", "1"} /\ path[2] = ":" /\ path[3] = Slash
  BY StringFacts DEF TypeOK, Strings, valid_format
<1>2. /\ SubSeq(path, 1, 3) \in Strings /\ Len(SubSeq(path, 1, 3)) = 3
      /\ \A i \in 1 .. 3 : SubSeq(path, 1, 3)[i] = path[i]
  BY <1>1, PrefixIs
<1>3. /\ other \in Strings /\ Len(other) = 3
      /\ other[1] = "1" /\ other[2] = ":" /\ other[3] = Slash
  BY DEF Strings, Chars
<1>4. SubSeq(other, 1, 3) = other /\ SubSeq(Drive, 1, 3) = Drive
  BY <1>3, DriveFacts, SubSeqFull DEF Strings
<1> HIDE DEF other
<1>5. \A i \in 1 .. 3 : i = 1 \/ i = 2 \/ i = 3
  OBVIOUS
<1>6. CASE path[1] = "0"
  <2>1. \A i \in 1 .. 3 : Drive[i] = SubSeq(path, 1, 3)[i]
    BY <1>1, <1>2, <1>5, <1>6, DriveFacts
  <2>2. Drive = SubSeq(path, 1, 3)
    BY <1>2, <2>1, DriveFacts, SameString
  <2> QED BY <1>1, <1>4, <2>2, DriveFacts DEF IsPrefix
<1>7. CASE path[1] = "1"
  <2>1. \A i \in 1 .. 3 : other[i] = SubSeq(path, 1, 3)[i]
    BY <1>1, <1>2, <1>3, <1>5, <1>7
  <2>2. other = SubSeq(path, 1, 3)
    BY <1>2, <1>3, <2>1, SameString
  <2>3. IsPrefix(other, path)
    BY <1>1, <1>3, <1>4, <2>2 DEF IsPrefix
  <2> QED BY <2>3 DEF other
<1> QED BY <1>1, <1>6, <1>7

LEMMA DriveStep ==
  ASSUME TypeOK, ParseInv, get_drive
  PROVE  ParseInv'
<1>1. pc = "drive" /\ parts = <<>>
  BY DEF get_drive, ParseInv
<1>2. CASE ~valid_format(path)
  <2>1. pc' = "idle"
    BY <1>2 DEF get_drive, Return
  <2> QED BY <2>1 DEF ParseInv, ParsedRight
<1>3. CASE valid_format(path)
  <2>1. pc' = "part" /\ rest' = From(path, 4) /\ path' = path /\ parts' = <<>>
    BY <1>1, <1>3 DEF get_drive
  <2>2. valid_format(path)' /\ PathName' = From(path, 4) /\ Found' = Found
    BY <1>1, <1>3, <2>1 DEF valid_format, PathName, Found
  <2>3. WholeParts'
    BY <2>1 DEF WholeParts
  <2>4. From(path, 4) \in Strings /\ Len(From(path, 4)) \in Nat
    BY FromIs, StringFacts DEF TypeOK, Strings
  <2>5. Found = <<>> /\ Found \in Strings /\ Len(<<>>) = 0
    BY <1>1, FoundFacts
  <2>6. Reached(Found, From(path, 4), From(path, 4), TRUE)
    BY <2>4, <2>5 DEF Reached
  <2> QED BY <2>1, <2>2, <2>3, <2>6 DEF ParseInv, ParsedRight
<1> QED BY <1>2, <1>3

LEMMA PartStep ==
  ASSUME TypeOK, ParseInv, parse_path_part
  PROVE  ParseInv'
<1> DEFINE u == Until(rest, {Slash})
<1>1. /\ pc = "part" /\ rest' = behind(u) /\ path' = path
      /\ u = <<>> => pc' = "act" /\ parts' = parts
      /\ u # <<>> => pc' = "part" /\ parts' = Append(parts, u)
  BY DEF parse_path_part
<1>2. Stops(rest, {Slash}, u) /\ rest \in Strings /\ parts \in Seq(Strings)
  BY UntilIs DEF TypeOK, Strings
<1>3. /\ valid_format(path) /\ WholeParts /\ behind(u) = From(rest, Len(u) + 2)
      /\ parts = <<>> => Reached(Found, PathName, rest, TRUE)
      /\ parts # <<>> => Reached(Found, PathName, rest, FALSE)
  BY <1>1 DEF ParseInv, behind
<1>4. u \in Strings
  BY <1>2 DEF Stops
<1> HIDE DEF u
<1>5. valid_format(path)' /\ PathName' = PathName
  BY <1>1, <1>3 DEF valid_format, PathName
<1>6. CASE u = <<>>
  <2>1. WholeParts' /\ pc' = "act" /\ parts' = parts /\ Found' = Found
    BY <1>1, <1>3, <1>6 DEF WholeParts, Found
  <2>2. /\ parts = <<>> => Ends(Found, PathName, TRUE)
        /\ parts # <<>> => Ends(Found, PathName, FALSE)
    BY <1>2, <1>3, <1>6, LastPart
  <2>3. IsPrefix(Drive, path) \/ IsPrefix(<<"1", ":", Slash>>, path)
    BY <1>3, DriveBegins
  <2> DEFINE left == From(PathName, Len(Found) + 1)
  <2>4. /\ IsPrefix(Found, PathName)
        /\ \/ left \in {<<>>, <<Slash>>}
           \/ parts = <<>> /\ Head(left) = Slash
           \/ IsPrefix(<<Slash, Slash>>, left)
    BY <2>2 DEF Ends
  <2>5. ParsedRight'
    BY <1>1, <1>3, <2>1, <2>3, <2>4 DEF ParsedRight, WholeParts, Found, PathName
  <2> QED BY <1>5, <2>1, <2>5 DEF ParseInv
<1>7. CASE u # <<>>
  <2>1. pc' = "part" /\ parts' = Append(parts, u) /\ rest' = From(rest, Len(u) + 2)
    BY <1>1, <1>3, <1>7
  <2>2. /\ Len(parts) \in Nat /\ DOMAIN parts = 1 .. Len(parts)
        /\ DOMAIN parts' = 1 .. Len(parts) + 1
        /\ (\A i \in 1 .. Len(parts) : parts'[i] = parts[i]) /\ parts'[Len(parts) + 1] = u
        /\ parts' # <<>>
    BY <1>2, <1>4, <2>1, AppendProperties, LenProperties
  <2>3. Slash \notin Range(u)
    <3>1. DOMAIN u = 1 .. Len(u)
      BY <1>4, StringFacts
    <3>2. \A i \in 1 .. Len(u) : u[i] # Slash
      BY <1>2 DEF Stops
    <3> QED BY <3>1, <3>2 DEF Range
  <2>4. WholeParts'
    <3> SUFFICES ASSUME NEW i \in 1 .. Len(parts) + 1
                 PROVE  parts'[i] # <<>> /\ Slash \notin Range(parts'[i])
      BY <2>2 DEF WholeParts
    <3>1. CASE i = Len(parts) + 1
      BY <1>7, <2>2, <2>3, <3>1
    <3>2. CASE i # Len(parts) + 1
      <4>1. i \in 1 .. Len(parts)
        BY <2>2, <3>2
      <4> QED BY <1>3, <2>2, <4>1 DEF WholeParts
    <3> QED BY <3>1, <3>2
  <2>5. CASE parts = <<>>
    <3>1. rest = PathName /\ PathName \in Strings
      BY <1>3, <2>5 DEF Reached
    <3>2. Joined(Append(parts, u)) = Append(Joined(parts), u)
      BY <1>2, <1>4, <2>5, JoinedAppend
    <3>3. Joined(parts) \in Seq(Strings) /\ Joined(parts) = <<>>
      BY <1>2, <2>5, JoinedTyped
    <3>4. Found' = u
      BY <1>4, <2>1, <3>2, <3>3, FlattenAppend DEF Found
    <3>5. Reached(u, PathName, From(PathName, Len(u) + 2), FALSE)
      BY <1>2, <3>1, FirstPart
    <3>6. Reached(Found', PathName', rest', FALSE)
      BY <1>5, <2>1, <3>1, <3>4, <3>5
    <3> QED BY <1>5, <2>1, <2>2, <2>4, <3>6 DEF ParseInv, ParsedRight
  <2>6. CASE parts # <<>>
    <3> DEFINE y == <<Slash>> \o u
    <3>1. Joined(Append(parts, u)) = Append(Joined(parts), y)
      BY <1>2, <1>4, <2>6, JoinedAppend
    <3>2. Joined(parts) \in Seq(Strings) /\ Joined(parts) # <<>>
      BY <1>2, <2>6, JoinedTyped
    <3>3. y \in Strings
      <4>1. Slash \in Chars
        BY DEF Chars
      <4> QED BY <1>4, <4>1, OneChar, ConcatIs
    <3> HIDE DEF y
    <3>4. Found' = Found \o y
      BY <2>1, <3>1, <3>2, <3>3, FlattenAppend DEF Found
    <3>5. Reached(Found \o y, PathName, From(rest, Len(u) + 2), FALSE)
      BY <1>2, <1>3, <1>7, <2>6, NextPart DEF y
    <3>6. Reached(Found', PathName', rest', FALSE)
      BY <1>5, <2>1, <3>4, <3>5
    <3> QED BY <1>5, <2>1, <2>2, <2>4, <3>6 DEF ParseInv, ParsedRight
  <2> QED BY <2>5, <2>6
<1> QED BY <1>6, <1>7

LEMMA ParseNext == TypeOK /\ ParseInv /\ [Next]_vars => ParseInv'
<1> SUFFICES ASSUME TypeOK, ParseInv, [Next]_vars PROVE ParseInv'
  OBVIOUS
<1>1. CASE shell_call \/ raw_call
  <2>1. pc' = "drive" /\ parts' = <<>>
    BY <1>1 DEF shell_call, raw_call, call
  <2> QED BY <2>1 DEF ParseInv, ParsedRight
<1>2. CASE refuse \/ open_read \/ open_write \/ delete
  <2>1. pc' = "idle"
    BY <1>2 DEF refuse, open_read, open_write, delete, Return
  <2> QED BY <2>1 DEF ParseInv, ParsedRight
<1>3. CASE UNCHANGED vars
  BY <1>3 DEF vars, ParseInv, ParsedRight, WholeParts, valid_format, Found, PathName
<1> QED BY <1>1, <1>2, <1>3, DriveStep, PartStep DEF Next

-----------------------------------------------------------------------------
(***************************************************************************)
(* Paths never outgrow PEACHOS_MAX_PATH, and entries have their fields,    *)
(* whatever is typed.                                                      *)
(***************************************************************************)
THEOREM NamesTyped == Spec => []TypeOK
  BY TypeInit, TypeNext, PTL DEF Spec

(***************************************************************************)
(* pathparser_parse returns the parts of the path, all of them and in      *)
(* their order, up to the first that is empty, for paths of any length.    *)
(***************************************************************************)
THEOREM NamesParsedRight == Spec => []ParsedRight
<1>1. ParseInv => ParsedRight
  BY DEF ParseInv
<1> QED BY <1>1, TypeInit, TypeNext, ParseInit, ParseNext, PTL DEF Spec

(***************************************************************************)
(* Through fat16_name_to_83 and back, and through any sequence of opens    *)
(* and deletes, a name of the 8.3 form is found as long as it was written  *)
(* and not deleted, in whatever case it is typed.                          *)
(***************************************************************************)
THEOREM NamesFoundAgain == Spec => []FoundAgain
<1>1. DirInv => FoundAgain
  BY DirFinds
<1> QED BY <1>1, TypeInit, TypeNext, DirInit, DirNext, PTL DEF Spec
=============================================================================
