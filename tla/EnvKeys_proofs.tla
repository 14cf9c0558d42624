---------------------------- MODULE EnvKeys_proofs ----------------------------
(* For any namespaces with named entries: what the environment can set of    *)
(* them, in either style (EnvKeys).                                          *)
EXTENDS Requests_proofs

(* A letter is any character; that "_" is one is said for the provers.       *)
Letter == STRING \cup {Env!Under}
Text == Seq(Letter)
Rest(text, p) == SubSeq(text, p + 1, Len(text))

LEMMA PieceIs ==
  ASSUME NEW text \in Text, NEW a \in Nat, NEW b \in Nat, a \in 1..(b + 1), b <= Len(text)
  PROVE  /\ SubSeq(text, a, b) \in Text /\ Len(SubSeq(text, a, b)) = b - a + 1
         /\ \A i \in 1..(b - a + 1) : SubSeq(text, a, b)[i] = text[a + i - 1]
BY DEF Text

LEMMA SameText ==
  ASSUME NEW a \in Text, NEW b \in Text, Len(a) = Len(b), \A i \in 1..Len(a) : a[i] = b[i]
  PROVE  a = b
<1>1. IsKey(a) /\ IsKey(b) BY SeqIsKey DEF Text
<1>. QED BY <1>1, SameKey

LEMMA JoinedIs ==
  ASSUME NEW a \in Text, NEW b \in Text
  PROVE  /\ a \o b \in Text /\ Len(a \o b) = Len(a) + Len(b)
         /\ \A i \in 1..Len(a) : (a \o b)[i] = a[i]
         /\ \A i \in 1..Len(b) : (a \o b)[Len(a) + i] = b[i]
BY DEF Text

Joins(a, b, n, m) ==
  /\ a \o b \in Text /\ Len(a \o b) = n + m
  /\ \A i \in 1..n : (a \o b)[i] = a[i]
  /\ \A i \in 1..m : (a \o b)[n + i] = b[i]
LEMMA JoinedAt ==
  ASSUME NEW a \in Text, NEW b \in Text, NEW n, NEW m, n = Len(a), m = Len(b)
  PROVE  Joins(a, b, n, m)
BY JoinedIs DEF Joins

LEMMA OneIs ==
  ASSUME NEW T, NEW c \in T
  PROVE  <<c>> \in Seq(T) /\ Len(<<c>>) = 1 /\ <<c>>[1] = c
OBVIOUS

LEMMA TwoAre ==
  ASSUME NEW T, NEW c \in T
  PROVE  <<c, c>> \in Seq(T) /\ Len(<<c, c>>) = 2 /\ <<c, c>>[1] = c /\ <<c, c>>[2] = c
OBVIOUS

LEMMA CharIs ==
  ASSUME NEW c \in Letter
  PROVE  /\ <<c>> \in Text /\ Len(<<c>>) = 1 /\ <<c>>[1] = c
         /\ <<c, c>> \in Text /\ Len(<<c, c>>) = 2 /\ <<c, c>>[1] = c /\ <<c, c>>[2] = c
BY OneIs, TwoAre DEF Text

(* What follows once a piece is read.                                        *)
LEMMA RestIs ==
  ASSUME NEW text \in Text, NEW p \in 0..Len(text)
  PROVE  /\ Rest(text, p) \in Text /\ Len(Rest(text, p)) = Len(text) - p
         /\ \A i \in 1..(Len(text) - p) : Rest(text, p)[i] = text[p + i]
<1>1. Len(text) \in Nat BY DEF Text
<1>2. p + 1 \in Nat /\ p + 1 \in 1..(Len(text) + 1) BY <1>1
<1>3. /\ Rest(text, p) \in Text /\ Len(Rest(text, p)) = Len(text) - (p + 1) + 1
      /\ \A i \in 1..(Len(text) - (p + 1) + 1) : Rest(text, p)[i] = text[(p + 1) + i - 1]
  BY <1>1, <1>2, PieceIs DEF Rest
<1>4. Len(text) - (p + 1) + 1 = Len(text) - p BY <1>1
<1>5. \A i \in 1..(Len(text) - p) : (p + 1) + i - 1 = p + i BY <1>1
<1>. QED BY <1>3, <1>4, <1>5

LEMMA RestFollows ==
  ASSUME NEW text \in Text, NEW p \in 0..Len(text), NEW a \in Text, NEW b \in Text,
         Rest(text, p) = a \o b
  PROVE  /\ p + Len(a) \in 0..Len(text) /\ Rest(text, p + Len(a)) = b
         /\ \A i \in 1..Len(a) : text[p + i] = a[i]
<1> DEFINE n == Len(a)
           m == Len(b)
           r == Rest(text, p)
           s == Rest(text, p + n)
<1>1. n \in Nat /\ m \in Nat /\ Len(text) \in Nat BY DEF Text
<1>2. /\ Len(r) = Len(text) - p /\ \A i \in 1..(Len(text) - p) : r[i] = text[p + i]
  BY RestIs
<1>3. /\ Len(r) = n + m /\ (\A i \in 1..n : r[i] = a[i]) /\ \A i \in 1..m : r[n + i] = b[i]
  BY JoinedIs
<1>. HIDE DEF n, m, r
<1>4. p + n \in 0..Len(text) /\ Len(text) - p = n + m /\ Len(text) - (p + n) = m
  <2> DEFINE last == Len(text)
  <2>1. last \in Nat /\ p \in 0..last /\ last - p = n + m BY <1>1, <1>2, <1>3
  <2>. HIDE DEF last
  <2>2. p + n \in 0..last /\ last - (p + n) = m BY <1>1, <2>1
  <2>. QED BY <2>1, <2>2 DEF last
<1>5. s \in Text /\ Len(s) = m /\ \A i \in 1..m : s[i] = text[(p + n) + i] BY <1>4, RestIs
<1>. HIDE DEF s
<1>6. \A i \in 1..m : n + i \in 1..(n + m) /\ p + (n + i) = (p + n) + i BY <1>1
<1>7. \A i \in 1..m : s[i] = b[i] BY <1>2, <1>3, <1>4, <1>5, <1>6
<1>8. s = b BY <1>5, <1>7, SameText DEF m
<1>9. \A i \in 1..n : i \in 1..(n + m) BY <1>1
<1>. QED BY <1>2, <1>3, <1>4, <1>8, <1>9 DEF n, s

LEMMA JoinAgain ==
  ASSUME NEW a \in Text, NEW b \in Text, NEW c \in Text
  PROVE  (a \o b) \o c = a \o (b \o c)
BY DEF Text

IsLeft(text, p, rest) == p \in 0..Len(text) /\ Rest(text, p) = rest
LEMMA LeftAfter ==
  ASSUME NEW text \in Text, NEW p, NEW a \in Text, NEW b \in Text, IsLeft(text, p, a \o b),
         NEW q, q = p + Len(a)
  PROVE  IsLeft(text, q, b)
<1>1. p \in 0..Len(text) /\ Rest(text, p) = a \o b BY DEF IsLeft
<1>2. ASSUME NEW k \in 0..Len(text), Rest(text, k) = a \o b PROVE IsLeft(text, k + Len(a), b)
  <2>1. Rest(text, k) = a \o b BY <1>2
  <2>2. k + Len(a) \in 0..Len(text) /\ Rest(text, k + Len(a)) = b BY <2>1, RestFollows
  <2>. QED BY <2>2 DEF IsLeft
<1>. QED BY <1>1, <1>2

LEMMA AllIsLeft == ASSUME NEW text \in Text PROVE IsLeft(text, 0, text)
<1> DEFINE all == Rest(text, 0)
<1>1. Len(text) \in Nat /\ 0 \in 0..Len(text) /\ Len(text) - 0 = Len(text) BY DEF Text
<1>2. all \in Text /\ Len(all) = Len(text) - 0 /\ \A i \in 1..(Len(text) - 0) : all[i] = text[0 + i]
  BY <1>1, RestIs
<1>3. \A i \in 1..Len(text) : 0 + i = i BY <1>1
<1>. HIDE DEF all
<1>4. Len(all) = Len(text) /\ \A i \in 1..Len(all) : all[i] = text[i] BY <1>1, <1>2, <1>3
<1>5. all = text BY <1>2, <1>4, SameText
<1>. QED BY <1>1, <1>5 DEF IsLeft, all

-----------------------------------------------------------------------------
(* What is written.                                                          *)
Twice(char) == IF char = Env!Under THEN <<char, char>> ELSE <<char>>

LEMMA TwiceIs ==
  ASSUME NEW char \in Letter
  PROVE  Twice(char) \in Text /\ Len(Twice(char)) > 0 /\ Twice(char)[1] = char
<1>1. CASE char = Env!Under
  <2>1. Twice(char) = <<char, char>> BY <1>1 DEF Twice
  <2>2. 2 > 0 OBVIOUS
  <2>. QED BY <2>1, <2>2, CharIs, Zenon
<1>2. CASE char # Env!Under
  <2>1. Twice(char) = <<char>> BY <1>2 DEF Twice
  <2>2. 1 > 0 OBVIOUS
  <2>. QED BY <2>1, <2>2, CharIs, Zenon
<1>. QED BY <1>1, <1>2

IsDoubling(d, name) ==
  /\ d[0] = <<>>
  /\ \A n \in 1..Len(name) : d[n] = Twice(name[Len(name) - n + 1]) \o d[n - 1]

LEMMA DoubledIs ==
  ASSUME NEW name \in Text
  PROVE  \E d \in [0..Len(name) -> Text] :
           IsDoubling(d, name) /\ Env!Doubled(name) = d[Len(name)]
<1> DEFINE last == Len(name)
           step == [x \in (1..last) \X Text |-> Twice(name[last - x[1] + 1]) \o x[2]]
           Is(f) == f = [n \in 0..last |->
                          IF n = 0 THEN <<>> ELSE Twice(name[last - n + 1]) \o f[n - 1]]
           doubled == CHOOSE f : Is(f)
<1>1. last \in Nat /\ <<>> \in Text BY DEF Text
<1>2. \A n \in 1..last : Twice(name[last - n + 1]) \in Text
  <2>1. \A n \in 1..last : last - n + 1 \in 1..last BY <1>1
  <2>2. \A i \in 1..last : name[i] \in Letter BY DEF Text
  <2>. QED BY <2>1, <2>2, TwiceIs
<1>3. Env!Doubled(name) = doubled[last] BY DEF Env!Doubled, Twice
<1>. HIDE DEF last
<1>4. step \in [(1..last) \X Text -> Text] BY <1>2, JoinedIs
<1>5. PICK f \in [0..last -> Text] : Follows(f, last, <<>>, step) BY <1>1, <1>4, Recursion
<1>6. \A n \in 1..last : f[n] = Twice(name[last - n + 1]) \o f[n - 1]
  <2>. TAKE n \in 1..last
  <2>1. n - 1 \in 0..last BY <1>1
  <2>2. <<n, f[n - 1]>> \in (1..last) \X Text BY <1>5, <2>1
  <2>. QED BY <1>5, <2>2 DEF Follows
<1>7. Is(f)
  <2>1. \A n \in 0..last : n = 0 \/ n \in 1..last BY <1>1
  <2>2. f[0] = <<>> BY <1>5 DEF Follows
  <2>3. \A n \in 0..last :
          f[n] = IF n = 0 THEN <<>> ELSE Twice(name[last - n + 1]) \o f[n - 1]
    BY <1>6, <2>1, <2>2
  <2>4. f = [n \in 0..last |-> f[n]] BY <1>5
  <2>. QED BY <2>3, <2>4
<1>8. Is(doubled)
  <2>. HIDE DEF Is
  <2>. QED BY <1>7
<1>. HIDE DEF doubled
<1>9. \A n \in 0..last :
        doubled[n] = IF n = 0 THEN <<>> ELSE Twice(name[last - n + 1]) \o doubled[n - 1]
  BY <1>8
<1>10. /\ doubled[0] = <<>>
       /\ \A n \in 1..last : doubled[n] = Twice(name[last - n + 1]) \o doubled[n - 1]
  <2>1. 0 \in 0..last /\ \A n \in 1..last : n \in 0..last /\ n # 0 BY <1>1
  <2>. QED BY <1>9, <2>1
<1>11. \A n \in 0..last : doubled[n] \in Text
  <2> DEFINE Good == {n \in 0..last : doubled[n] \in Text}
  <2>1. 0 \in Good BY <1>1, <1>10
  <2>2. ASSUME NEW n \in 0..last, n > 0, n - 1 \in Good PROVE n \in Good
    <3>1. n \in 1..last BY <1>1, <2>2
    <3>2. Twice(name[last - n + 1]) \in Text /\ doubled[n - 1] \in Text BY <1>2, <2>2, <3>1
    <3>3. doubled[n] \in Text BY <1>10, <3>1, <3>2, JoinedIs
    <3>. QED BY <3>3
  <2>3. \A n \in 0..last : n \in Good
    <3>. HIDE DEF Good
    <3>1. \A n \in 0..last : n > 0 /\ n - 1 \in Good => n \in Good BY <2>2
    <3>. QED BY <1>1, <2>1, <3>1, Upwards
  <2>. QED BY <2>3 DEF Good
<1>12. doubled \in [0..last -> Text]
  <2>1. doubled = [n \in 0..last |-> doubled[n]] BY <1>8
  <2>. QED BY <1>11, <2>1
<1>. QED BY <1>3, <1>10, <1>12 DEF IsDoubling, last

Joined(name, n, text) == IF n = 1 THEN name ELSE name \o <<Env!Under>> \o text
IsWriting(w, key) ==
  /\ w[0] = <<>>
  /\ \A n \in 1..Len(key) : w[n] = Joined(key[Len(key) - n + 1], n, w[n - 1])

LEMMA UnderIsText ==
  <<Env!Under>> \in Text /\ Len(<<Env!Under>>) = 1 /\ <<Env!Under>>[1] = Env!Under
<1>1. Env!Under \in Letter BY DEF Letter
<1>. QED BY <1>1, CharIs

LEMMA JoinedIsText ==
  ASSUME NEW name \in Text, NEW n, NEW text \in Text
  PROVE  Joined(name, n, text) \in Text
<1>1. name \o <<Env!Under>> \in Text BY UnderIsText, JoinedIs
<1>2. name \o <<Env!Under>> \o text \in Text BY <1>1, JoinedIs
<1>. QED BY <1>2 DEF Joined

LEMMA WrittenIs ==
  ASSUME NEW key \in Seq(Text)
  PROVE  \E w \in [0..Len(key) -> Text] :
           IsWriting(w, key) /\ Env!Written(key) = w[Len(key)]
<1> DEFINE last == Len(key)
           step == [x \in (1..last) \X Text |-> Joined(key[last - x[1] + 1], x[1], x[2])]
           Body(f, n) == IF n = 0 THEN <<>> ELSE Joined(key[last - n + 1], n, f[n - 1])
           Is(f) == f = [n \in 0..last |-> Body(f, n)]
           written == CHOOSE f : Is(f)
<1>1. last \in Nat /\ <<>> \in Text BY DEF Text
<1>2. \A n \in 1..last : key[last - n + 1] \in Text
  <2>1. \A n \in 1..last : last - n + 1 \in 1..last BY <1>1
  <2>2. \A i \in 1..last : key[i] \in Text OBVIOUS
  <2>. QED BY <2>1, <2>2
<1>3. Env!Written(key) = written[last]
  <2>1. \A f, n : Body(f, n) = IF n = 0 THEN <<>>
                               ELSE IF n = 1 THEN key[last - n + 1]
                               ELSE key[last - n + 1] \o <<Env!Under>> \o f[n - 1]
    BY DEF Joined
  <2>. QED BY DEF Env!Written, Joined
<1>. HIDE DEF last
<1>4. step \in [(1..last) \X Text -> Text] BY <1>2, JoinedIsText
<1>5. PICK f \in [0..last -> Text] : Follows(f, last, <<>>, step) BY <1>1, <1>4, Recursion
<1>6. \A n \in 1..last : f[n] = Joined(key[last - n + 1], n, f[n - 1])
  <2>. TAKE n \in 1..last
  <2>1. n - 1 \in 0..last BY <1>1
  <2>2. <<n, f[n - 1]>> \in (1..last) \X Text BY <1>5, <2>1
  <2>. QED BY <1>5, <2>2 DEF Follows
<1>7. Is(f)
  <2>1. \A n \in 0..last : n = 0 \/ n \in 1..last BY <1>1
  <2>2. f[0] = <<>> BY <1>5 DEF Follows
  <2>3. \A n \in 0..last : f[n] = Body(f, n) BY <1>6, <2>1, <2>2
  <2>4. f = [n \in 0..last |-> f[n]] BY <1>5
  <2>. QED BY <2>3, <2>4
<1>8. Is(written)
  <2>. HIDE DEF Is
  <2>. QED BY <1>7
<1>. HIDE DEF written
<1>9. \A n \in 0..last : written[n] = Body(written, n) BY <1>8
<1>10. /\ written[0] = <<>>
       /\ \A n \in 1..last : written[n] = Joined(key[last - n + 1], n, written[n - 1])
  <2>1. 0 \in 0..last /\ \A n \in 1..last : n \in 0..last /\ n # 0 BY <1>1
  <2>. QED BY <1>9, <2>1
<1>11. \A n \in 0..last : written[n] \in Text
  <2> DEFINE Good == {n \in 0..last : written[n] \in Text}
  <2>1. 0 \in Good BY <1>1, <1>10
  <2>2. ASSUME NEW n \in 0..last, n > 0, n - 1 \in Good PROVE n \in Good
    <3>1. n \in 1..last BY <1>1, <2>2
    <3>2. key[last - n + 1] \in Text /\ written[n - 1] \in Text BY <1>2, <2>2, <3>1
    <3>3. written[n] \in Text BY <1>10, <3>1, <3>2, JoinedIsText
    <3>. QED BY <3>3
  <2>3. \A n \in 0..last : n \in Good
    <3>. HIDE DEF Good
    <3>1. \A n \in 0..last : n > 0 /\ n - 1 \in Good => n \in Good BY <2>2
    <3>. QED BY <1>1, <2>1, <3>1, Upwards
  <2>. QED BY <2>3 DEF Good
<1>12. written \in [0..last -> Text]
  <2>1. written = [n \in 0..last |-> written[n]] BY <1>8
  <2>. QED BY <1>11, <2>1
<1>. QED BY <1>3, <1>10, <1>12 DEF IsWriting, last

(* Two keys that end alike are written alike from there.                     *)
EndAlike(a, b, last) ==
  /\ last <= Len(a) /\ last <= Len(b)
  /\ \A n \in 1..last : a[Len(a) - n + 1] = b[Len(b) - n + 1]
LEMMA WrittenAlike ==
  ASSUME NEW a \in Seq(Text), NEW b \in Seq(Text), NEW v, NEW w, IsWriting(v, a), IsWriting(w, b),
         NEW last \in Nat, EndAlike(a, b, last)
  PROVE  \A n \in 0..last : v[n] = w[n]
<1> DEFINE Good == {n \in 0..last : v[n] = w[n]}
<1>1. 0 \in Good BY DEF IsWriting
<1>2. ASSUME NEW n \in 0..last, n > 0, n - 1 \in Good PROVE n \in Good
  <2>1. n \in 1..last /\ n \in 1..Len(a) /\ n \in 1..Len(b) BY <1>2 DEF EndAlike
  <2>2. v[n - 1] = w[n - 1] BY <1>2
  <2>. QED BY <2>1, <2>2 DEF IsWriting, EndAlike
<1>3. \A n \in 0..last : n \in Good
  <2>. HIDE DEF Good
  <2>1. \A n \in 0..last : n > 0 /\ n - 1 \in Good => n \in Good BY <1>2
  <2>. QED BY <1>1, <2>1, Upwards
<1>. QED BY <1>3

(* What is written of a key, from its first name.                            *)
LEMMA WrittenStep ==
  ASSUME NEW key \in Seq(Text), Len(key) > 0
  PROVE  /\ Env!Written(key) \in Text /\ Env!Written(Tail(key)) \in Text
         /\ Tail(key) \in Seq(Text) /\ Len(Tail(key)) = Len(key) - 1
         /\ Env!Written(key) = Joined(key[1], Len(key), Env!Written(Tail(key)))
<1> DEFINE last == Len(key)
           rest == Tail(key)
<1>1. /\ rest \in Seq(Text) /\ last \in Nat /\ last > 0 /\ Len(rest) = last - 1
      /\ \A i \in 1..(last - 1) : rest[i] = key[i + 1]
  <2>1. key # <<>> OBVIOUS
  <2>. QED BY <2>1
<1>2. PICK w \in [0..Len(key) -> Text] : IsWriting(w, key) /\ Env!Written(key) = w[Len(key)]
  BY WrittenIs
<1>3. PICK v \in [0..Len(rest) -> Text] : IsWriting(v, rest) /\ Env!Written(rest) = v[Len(rest)]
  BY <1>1, WrittenIs
<1>4. \A n \in 1..(last - 1) : key[last - n + 1] = rest[Len(rest) - n + 1]
  <2>1. \A n \in 1..(last - 1) : /\ Len(rest) - n + 1 = last - n /\ last - n \in 1..(last - 1)
    BY <1>1
  <2>. QED BY <1>1, <2>1
<1>5. last - 1 \in Nat /\ last - 1 <= Len(key) /\ last - 1 <= Len(rest) BY <1>1
<1>6. \A n \in 0..(last - 1) : w[n] = v[n]
  <2> DEFINE most == last - 1
  <2>1. \A n \in 1..most : key[Len(key) - n + 1] = rest[Len(rest) - n + 1] BY <1>4
  <2>2. most \in Nat /\ EndAlike(key, rest, most) BY <1>5, <2>1 DEF EndAlike
  <2>. HIDE DEF rest, most, last
  <2>3. \A n \in 0..most : w[n] = v[n]
    BY <1>1, <1>2, <1>3, <2>2, WrittenAlike
  <2>. QED BY <2>3 DEF most
<1>7. w[last - 1] = Env!Written(rest) BY <1>1, <1>3, <1>5, <1>6
<1>8. w[last] = Joined(key[1], last, w[last - 1])
  <2>1. last \in 1..last /\ last - last + 1 = 1 BY <1>1
  <2>. QED BY <1>2, <2>1 DEF IsWriting
<1>9. w[last] \in Text /\ v[Len(rest)] \in Text
  <2>1. last \in 0..Len(key) /\ Len(rest) \in 0..Len(rest) BY <1>1
  <2>. QED BY <1>2, <1>3, <2>1
<1>. QED BY <1>1, <1>2, <1>3, <1>7, <1>8, <1>9

HasNames(key) == key \in Seq(Text) /\ \A i \in 1..Len(key) : key[i] # <<>>

LEMMA JoinedFrom ==
  ASSUME NEW name \in Text, name # <<>>, NEW n, NEW rest \in Text
  PROVE  /\ Joined(name, n, rest) \in Text /\ Len(Joined(name, n, rest)) > 0
         /\ Joined(name, n, rest)[1] = name[1]
         /\ n # 1 => Joined(name, n, rest) = name \o (<<Env!Under>> \o rest)
         /\ n = 1 => Joined(name, n, rest) = name
<1>1. Len(name) \in Nat /\ Len(name) > 0 /\ 1 \in 1..Len(name) BY DEF Text
<1>2. Joined(name, n, rest) \in Text BY JoinedIsText
<1>3. CASE n = 1 BY <1>1, <1>2, <1>3 DEF Joined
<1>4. CASE n # 1
  <2> DEFINE more == <<Env!Under>> \o rest
  <2>1. more \in Text BY UnderIsText, JoinedIs
  <2>2. Joined(name, n, rest) = name \o more BY <1>4, UnderIsText, JoinAgain DEF Joined
  <2>. HIDE DEF more
  <2>3. Len(more) \in Nat BY <2>1 DEF Text
  <2>4. Len(name \o more) = Len(name) + Len(more) /\ (name \o more)[1] = name[1]
    BY <1>1, <2>1, JoinedIs
  <2>. QED BY <1>1, <1>2, <1>4, <2>2, <2>3, <2>4 DEF more
<1>. QED BY <1>3, <1>4

LEMMA WrittenFrom ==
  ASSUME NEW key, HasNames(key), Len(key) > 0
  PROVE  Env!Written(key) \in Text /\ Len(Env!Written(key)) > 0 /\ Env!Written(key)[1] = key[1][1]
<1>1. key \in Seq(Text) /\ key[1] \in Text /\ key[1] # <<>> BY DEF HasNames
<1>2. /\ Env!Written(Tail(key)) \in Text
      /\ Env!Written(key) = Joined(key[1], Len(key), Env!Written(Tail(key)))
  BY <1>1, WrittenStep
<1>. QED BY <1>1, <1>2, JoinedFrom

-----------------------------------------------------------------------------
(* What is read, in nested style.                                            *)
Seen(key) == [key |-> key, paired |-> FALSE]
Paired(key) == [key |-> key, paired |-> TRUE]
IsReading(read, text, depth) ==
  /\ read[0] = Seen(<<<<>>>>)
  /\ \A i \in 1..Len(text) : read[i] = Env!ReadNext(text, i, read[i - 1], depth)

LEMMA ReadIs ==
  ASSUME NEW text \in Text, NEW depth
  PROVE  \E read : IsReading(read, text, depth)
                   /\ Env!ReadSuffix(text, depth) = read[Len(text)].key
<1> DEFINE last == Len(text)
           Body(f, i) == IF i = 0 THEN Seen(<<<<>>>>)
                         ELSE Env!ReadNext(text, i, f[i - 1], depth)
           Is(f, m) == f = [i \in 0..m |-> Body(f, i)]
           Reached == {m \in 0..last : \E f : Is(f, m)}
           read == CHOOSE f : Is(f, last)
<1>1. Env!ReadSuffix(text, depth) = read[last].key BY DEF Env!ReadSuffix, Seen
<1>2. last \in Nat BY DEF Text
<1>. HIDE DEF last
<1>3. \A f, g, i : i = 0 \/ f[i - 1] = g[i - 1] => Body(f, i) = Body(g, i) OBVIOUS
<1>4. \A f, i : Body(f, i) = IF i = 0 THEN Seen(<<<<>>>>)
                             ELSE Env!ReadNext(text, i, f[i - 1], depth)
  OBVIOUS
<1>. HIDE DEF Body
<1>5. 0 \in Reached
  <2> DEFINE f == [i \in 0..0 |-> Body(<<>>, i)]
  <2>1. \A i \in 0..0 : Body(<<>>, i) = Body(f, i) BY <1>3
  <2>2. Is(f, 0) BY <2>1
  <2>. HIDE DEF f, Is
  <2>. QED BY <1>2, <2>2
<1>6. ASSUME NEW m \in 0..last, m > 0, m - 1 \in Reached PROVE m \in Reached
  <2>1. PICK f : Is(f, m - 1) BY <1>6
  <2> DEFINE g == [i \in 0..m |-> IF i = m THEN Body(f, m) ELSE f[i]]
  <2>2. \A i \in 0..m : i = 0 \/ (i - 1 \in 0..m /\ i - 1 # m /\ (i # m => i \in 0..(m - 1)))
    BY <1>2
  <2>3. \A i \in 0..m : i = 0 \/ f[i - 1] = g[i - 1] BY <2>2
  <2>4. 0 \in 0..(m - 1) BY <1>2, <1>6
  <2>5. \A i \in 0..m : g[i] = Body(f, i) BY <2>1, <2>2, <2>4
  <2>6. g = [i \in 0..m |-> g[i]] OBVIOUS
  <2>. HIDE DEF g
  <2>7. \A i \in 0..m : g[i] = Body(g, i) BY <1>3, <2>3, <2>5
  <2>8. g = [i \in 0..m |-> Body(g, i)] BY <2>6, <2>7
  <2>9. \E h : Is(h, m) BY <2>8
  <2>. HIDE DEF Is
  <2>. QED BY <1>6, <2>9
<1>7. Is(read, last)
  <2>1. \A m \in 0..last : m > 0 /\ m - 1 \in Reached => m \in Reached BY <1>6
  <2>2. \A m \in 0..last : m \in Reached
    <3>. HIDE DEF Reached
    <3>. QED BY <1>2, <1>5, <2>1, Upwards
  <2>3. last \in 0..last BY <1>2
  <2>4. \E f : Is(f, last) BY <2>2, <2>3
  <2>. HIDE DEF Is
  <2>. QED BY <2>4
<1>. HIDE DEF read
<1>8. \A i \in 0..last : read[i] = Body(read, i) BY <1>7
<1>9. read[0] = Seen(<<<<>>>>)
      /\ \A i \in 1..last : read[i] = Env!ReadNext(text, i, read[i - 1], depth)
  <2>1. 0 \in 0..last /\ \A i \in 1..last : i \in 0..last /\ i # 0 BY <1>2
  <2>. QED BY <1>4, <1>8, <2>1
<1>10. IsReading(read, text, depth) BY <1>9 DEF IsReading, last
<1>. QED BY <1>1, <1>10 DEF last

Extended(key, char) == [key EXCEPT ![Len(key)] = Append(@, char)]
LEMMA ExtendedIs ==
  ASSUME NEW front \in Seq(Text), NEW part \in Text, NEW char \in Letter
  PROVE  Extended(Append(front, part), char) = Append(front, Append(part, char))
<1> DEFINE key == Append(front, part)
           longer == Append(front, Append(part, char))
           n == Len(front)
<1>1. Append(part, char) \in Text BY DEF Text
<1>2. /\ n \in Nat /\ key \in Seq(Text) /\ Len(key) = n + 1 /\ key[n + 1] = part
      /\ \A i \in 1..n : key[i] = front[i]
  OBVIOUS
<1>3. /\ longer \in Seq(Text) /\ Len(longer) = n + 1 /\ longer[n + 1] = Append(part, char)
      /\ \A i \in 1..n : longer[i] = front[i]
  BY <1>1
<1>. HIDE DEF key, longer, n
<1>4. key = [i \in 1..(n + 1) |-> key[i]] /\ longer = [i \in 1..(n + 1) |-> longer[i]]
  BY <1>2, <1>3
<1>5. \A i \in 1..(n + 1) : i = n + 1 \/ i \in 1..n BY <1>2
<1>6. Extended(key, char) =
        [i \in 1..(n + 1) |-> IF i = n + 1 THEN Append(key[i], char) ELSE key[i]]
  BY <1>2, <1>4 DEF Extended
<1>7. \A i \in 1..(n + 1) : (IF i = n + 1 THEN Append(key[i], char) ELSE key[i]) = longer[i]
  BY <1>2, <1>3, <1>5
<1>. QED BY <1>4, <1>6, <1>7 DEF key, longer

LEMMA ReadsOne ==
  ASSUME NEW text, NEW i, NEW key, NEW depth
  PROVE  /\ text[i] # Env!Under =>
              Env!ReadNext(text, i, Seen(key), depth) = Seen(Extended(key, text[i]))
         /\ text[i] = Env!Under /\ i < Len(text) /\ text[i + 1] = Env!Under =>
              Env!ReadNext(text, i, Seen(key), depth) = Paired(Extended(key, text[i]))
         /\ text[i] = Env!Under /\ text[i + 1] # Env!Under /\ Len(key) < depth =>
              Env!ReadNext(text, i, Seen(key), depth) = Seen(Append(key, <<>>))
         /\ Env!ReadNext(text, i, Paired(key), depth) = Seen(key)
BY DEF Env!ReadNext, Seen, Paired, Extended

(* So much is read, so much is left.                                         *)
Stands(read, text, p, key, rest) ==
  p \in 0..Len(text) /\ read[p] = Seen(key) /\ Rest(text, p) = rest

(* One letter of a name, which is two where it is an underscore.             *)
LEMMA ReadsLetter ==
  ASSUME NEW text \in Text, NEW depth, NEW read, IsReading(read, text, depth),
         NEW front \in Seq(Text), NEW part \in Text, NEW char \in Letter, NEW tail \in Text,
         NEW p, Stands(read, text, p, Append(front, part), Twice(char) \o tail)
  PROVE  \E q : Stands(read, text, q, Append(front, Append(part, char)), tail)
<1> DEFINE a == Twice(char)
           key == Append(front, part)
           longer == Append(front, Append(part, char))
           last == Len(text)
<1>. USE DEF Stands
<1>1. a \in Text /\ last \in Nat BY TwiceIs DEF Text
<1>2. /\ p + Len(a) \in 0..last /\ Rest(text, p + Len(a)) = tail
      /\ \A i \in 1..Len(a) : text[p + i] = a[i]
  <2>. HIDE DEF a
  <2>. QED BY <1>1, RestFollows DEF a
<1>3. Extended(key, char) = longer BY ExtendedIs
<1>4. read[p] = Seen(key) OBVIOUS
<1>5. \A i \in 1..last : read[i] = Env!ReadNext(text, i, read[i - 1], depth) BY DEF IsReading
<1>6. p \in 0..last OBVIOUS
<1>7. CASE char # Env!Under
  <2>1. a = <<char>> BY <1>7 DEF Twice
  <2>2. Len(a) = 1 /\ a[1] = char BY <2>1, CharIs
  <2>. HIDE DEF a, key, longer, last
  <2>3. p + 1 \in 1..last /\ (p + 1) - 1 = p /\ 1 \in 1..Len(a) /\ p + 1 \in 0..last
    BY <1>1, <1>2, <1>6, <2>2
  <2>4. text[p + 1] = char BY <1>2, <2>2, <2>3
  <2>5. read[p + 1] = Env!ReadNext(text, p + 1, Seen(key), depth) BY <1>4, <1>5, <2>3
  <2>6. read[p + 1] = Seen(longer) BY <1>3, <1>7, <2>4, <2>5, ReadsOne
  <2>7. Rest(text, p + 1) = tail BY <1>2, <2>2
  <2>. QED BY <2>3, <2>6, <2>7 DEF longer, last
<1>8. CASE char = Env!Under
  <2>1. a = <<char, char>> BY <1>8 DEF Twice
  <2>2. Len(a) = 2 /\ a[1] = char /\ a[2] = char BY <2>1, CharIs
  <2>. HIDE DEF a, key, longer
  <2>3. /\ p + 1 \in 1..last /\ (p + 1) - 1 = p /\ p + 2 \in 1..last /\ (p + 2) - 1 = p + 1
        /\ (p + 1) + 1 = p + 2 /\ p + 1 < last /\ 1 \in 1..Len(a) /\ 2 \in 1..Len(a)
        /\ p + 2 \in 0..last
    <3>. HIDE DEF last
    <3>. QED BY <1>1, <1>2, <1>6, <2>2
  <2>4. text[p + 1] = char /\ text[p + 2] = char BY <1>2, <2>2, <2>3
  <2>5. read[p + 1] = Env!ReadNext(text, p + 1, Seen(key), depth) BY <1>4, <1>5, <2>3
  <2>6. text[(p + 1) + 1] = Env!Under BY <1>8, <2>3, <2>4
  <2>7. read[p + 1] = Paired(longer)
    <3> DEFINE i == p + 1
    <3>1. text[i] = Env!Under /\ i < Len(text) /\ text[i + 1] = Env!Under /\ text[i] = char
      BY <1>8, <2>3, <2>4, <2>6
    <3>. HIDE DEF i
    <3>2. Env!ReadNext(text, i, Seen(key), depth) = Paired(Extended(key, text[i]))
      BY <3>1, ReadsOne
    <3>. QED BY <1>3, <2>5, <3>1, <3>2 DEF i
  <2>8. read[p + 2] = Env!ReadNext(text, p + 2, Paired(longer), depth) BY <1>5, <2>3, <2>7
  <2>9. read[p + 2] = Seen(longer) BY <2>8, ReadsOne
  <2>10. Rest(text, p + 2) = tail BY <1>2, <2>2
  <2>. QED BY <2>3, <2>9, <2>10 DEF longer
<1>. QED BY <1>7, <1>8

LEMMA ReadsName ==
  ASSUME NEW text \in Text, NEW depth, NEW read, IsReading(read, text, depth),
         NEW front \in Seq(Text), NEW name \in Text, NEW tail \in Text,
         NEW p, Stands(read, text, p, Append(front, <<>>), Env!Doubled(name) \o tail)
  PROVE  \E q : Stands(read, text, q, Append(front, name), tail)
<1> DEFINE last == Len(name)
           HasRead(n, d, q) ==
             Stands(read, text, q, Append(front, SubSeq(name, 1, n)), d[last - n] \o tail)
<1>1. PICK d \in [0..Len(name) -> Text] :
        IsDoubling(d, name) /\ Env!Doubled(name) = d[Len(name)]
  BY DoubledIs
<1> DEFINE Good == {n \in 0..last : \E q : HasRead(n, d, q)}
<1>2. last \in Nat /\ IsKey(name) /\ \A n \in 1..last : name[n] \in Letter BY SeqIsKey DEF Text
<1>3. 0 \in Good
  <2>1. 0 \in 0..last /\ last - 0 = last BY <1>2
  <2>2. SubSeq(name, 1, 0) = <<>> BY <1>2, <2>1, FirstIs
  <2>3. HasRead(0, d, p) BY <1>1, <2>1, <2>2
  <2>. HIDE DEF HasRead
  <2>. QED BY <2>1, <2>3
<1>4. ASSUME NEW n \in 0..last, n > 0, n - 1 \in Good PROVE n \in Good
  <2> DEFINE part == SubSeq(name, 1, n - 1)
             more == d[last - n]
  <2>1. n \in 1..last /\ n - 1 \in 0..last BY <1>2, <1>4
  <2>2. PICK q : HasRead(n - 1, d, q) BY <1>4
  <2>3. last - (n - 1) \in 1..last /\ last - (last - (n - 1)) + 1 = n
        /\ (last - (n - 1)) - 1 = last - n /\ last - n \in 0..last
    BY <1>2, <2>1
  <2>4. d[last - (n - 1)] = Twice(name[n]) \o more BY <1>1, <2>3 DEF IsDoubling
  <2>5. more \in Text /\ name[n] \in Letter BY <1>1, <1>2, <2>1, <2>3
  <2>6. Twice(name[n]) \in Text BY <2>5, TwiceIs
  <2>7. (Twice(name[n]) \o more) \o tail = Twice(name[n]) \o (more \o tail)
    <3>. HIDE DEF more
    <3>. QED BY <2>5, <2>6, JoinAgain
  <2>8. more \o tail \in Text BY <2>5, JoinedIs
  <2>9. part \in Text BY <2>1 DEF Text
  <2> DEFINE char == name[n]
             rest == more \o tail
  <2>10. Stands(read, text, q, Append(front, part), Twice(char) \o rest) BY <2>2, <2>4, <2>7
  <2>11. PICK s : Stands(read, text, s, Append(front, Append(part, char)), rest)
    <3>1. char \in Letter /\ rest \in Text BY <2>5, <2>8
    <3>. HIDE DEF char, rest, part
    <3>. QED BY <2>9, <2>10, <3>1, ReadsLetter
  <2>12. Append(part, name[n]) = SubSeq(name, 1, n) BY <1>2, <2>1, FirstGrows
  <2>13. HasRead(n, d, s) BY <2>11, <2>12
  <2>. HIDE DEF HasRead
  <2>. QED BY <2>13
<1>5. last \in Good
  <2>. HIDE DEF Good
  <2>1. \A n \in 0..last : n > 0 /\ n - 1 \in Good => n \in Good BY <1>4
  <2>2. last \in 0..last BY <1>2
  <2>. QED BY <1>2, <1>3, <2>1, <2>2, Upwards
<1>6. PICK q : HasRead(last, d, q) BY <1>5
<1>7. SubSeq(name, 1, last) = name
  <2>1. last \in 0..last BY <1>2
  <2>. QED BY <1>2, <2>1, FirstIs, SameKey
<1>8. d[last - last] \o tail = tail
  <2>1. last - last = 0 BY <1>2
  <2>2. d[0] = <<>> BY <1>1 DEF IsDoubling
  <2>. QED BY <2>1, <2>2 DEF Text
<1>. QED BY <1>6, <1>7, <1>8

LEMMA ReadsSeparator ==
  ASSUME NEW text \in Text, NEW depth, NEW read, IsReading(read, text, depth),
         NEW key, NEW rest \in Text, rest # <<>>, rest[1] # Env!Under, Len(key) < depth,
         NEW p, Stands(read, text, p, key, <<Env!Under>> \o rest)
  PROVE  \E q : Stands(read, text, q, Append(key, <<>>), rest)
<1> DEFINE i == p + 1
           last == Len(text)
           one == <<Env!Under>>
<1>1. p \in 0..last /\ read[p] = Seen(key) /\ Rest(text, p) = one \o rest BY DEF Stands
<1>2. last \in Nat /\ Len(rest) \in Nat /\ Len(rest) > 0 /\ 1 \in 1..Len(rest) BY DEF Text
<1>3. one \in Text /\ Len(one) = 1 /\ one[1] = Env!Under BY UnderIsText
<1>. HIDE DEF one
<1>4. /\ p + Len(one) \in 0..last /\ Rest(text, p + Len(one)) = rest
      /\ \A j \in 1..Len(one) : text[p + j] = one[j]
  BY <1>1, <1>3, RestFollows
<1>5. p + Len(one) = i /\ 1 \in 1..Len(one) BY <1>3
<1>6. i \in 0..last /\ Rest(text, i) = rest /\ text[i] = Env!Under BY <1>3, <1>4, <1>5
<1>7. Len(Rest(text, i)) = last - i /\ \A j \in 1..(last - i) : Rest(text, i)[j] = text[i + j]
  BY <1>6, RestIs
<1>8. text[i + 1] # Env!Under BY <1>2, <1>6, <1>7
<1>9. i \in 1..last /\ i - 1 = p BY <1>1, <1>2, <1>6
<1>10. read[i] = Env!ReadNext(text, i, Seen(key), depth) BY <1>1, <1>9 DEF IsReading
<1>. HIDE DEF i
<1>11. read[i] = Seen(Append(key, <<>>)) BY <1>6, <1>8, <1>10, ReadsOne
<1>12. Stands(read, text, i, Append(key, <<>>), rest) BY <1>6, <1>11 DEF Stands
<1>. QED BY <1>12

LEMMA DoubledFrom ==
  ASSUME NEW name \in Text, name # <<>>
  PROVE  Env!Doubled(name) \in Text /\ Env!Doubled(name) # <<>> /\ Env!Doubled(name)[1] = name[1]
<1> DEFINE last == Len(name)
<1>1. PICK d \in [0..Len(name) -> Text] :
        IsDoubling(d, name) /\ Env!Doubled(name) = d[Len(name)]
  BY DoubledIs
<1>2. last \in Nat /\ last \in 1..last /\ last - last + 1 = 1 /\ last - 1 \in 0..last BY DEF Text
<1>3. d[last] = Twice(name[1]) \o d[last - 1] BY <1>1, <1>2 DEF IsDoubling
<1> DEFINE a == Twice(name[1])
           b == d[last - 1]
<1>4. name[1] \in Letter BY <1>2 DEF Text
<1>5. a \in Text /\ Len(a) > 0 /\ a[1] = name[1] BY <1>4, TwiceIs
<1>6. b \in Text BY <1>1, <1>2
<1>7. Env!Doubled(name) = a \o b BY <1>1, <1>3
<1>. HIDE DEF a, b
<1>8. Len(a) \in Nat /\ Len(b) \in Nat /\ 1 \in 1..Len(a) BY <1>5, <1>6 DEF Text
<1>9. a \o b \in Text /\ Len(a \o b) = Len(a) + Len(b) /\ (a \o b)[1] = a[1]
  BY <1>5, <1>6, <1>8, JoinedIs
<1>10. Len(a \o b) > 0 BY <1>5, <1>8, <1>9
<1>. QED BY <1>5, <1>7, <1>9, <1>10

(* Names with their underscores doubled are read as they were.               *)
InFull(key) == [i \in DOMAIN key |-> Env!Doubled(key[i])]

LEMMA InFullIs ==
  ASSUME NEW key, HasNames(key)
  PROVE  /\ HasNames(InFull(key)) /\ Len(InFull(key)) = Len(key)
         /\ \A i \in 1..Len(key) : /\ InFull(key)[i] = Env!Doubled(key[i])
                                   /\ Env!Doubled(key[i]) \in Text
                                   /\ InFull(key)[i][1] = key[i][1]
<1>1. key \in Seq(Text) /\ Len(key) \in Nat /\ DOMAIN key = 1..Len(key) BY DEF HasNames
<1>2. \A i \in 1..Len(key) : key[i] \in Text /\ key[i] # <<>> BY DEF HasNames
<1>3. \A i \in 1..Len(key) : /\ Env!Doubled(key[i]) \in Text /\ Env!Doubled(key[i]) # <<>>
                             /\ Env!Doubled(key[i])[1] = key[i][1]
  BY <1>2, DoubledFrom
<1>4. InFull(key) = [i \in 1..Len(key) |-> Env!Doubled(key[i])] BY <1>1 DEF InFull
<1>5. InFull(key) \in [1..Len(key) -> Text] BY <1>3, <1>4
<1>6. InFull(key) \in Seq(Text) /\ Len(InFull(key)) = Len(key) BY <1>1, <1>5
<1>7. \A i \in 1..Len(key) : InFull(key)[i] = Env!Doubled(key[i]) BY <1>4
<1>. QED BY <1>3, <1>6, <1>7 DEF HasNames

LEMMA ReadsKey ==
  ASSUME NEW key, HasNames(key), NEW depth \in Nat, Len(key) \in 1..depth,
         \A i \in 1..Len(key) : key[i][1] # Env!Under
  PROVE  Env!ReadSuffix(Env!Written(InFull(key)), depth) = key
<1> DEFINE last == Len(key)
           full == InFull(key)
           text == Env!Written(full)
           First(n) == SubSeq(key, 1, n)
<1>1. /\ key \in Seq(Text) /\ last \in Nat /\ last > 0 /\ last <= depth /\ IsKey(key)
      /\ \A i \in 1..last : key[i] \in Text
  BY SeqIsKey DEF HasNames
<1>2. /\ HasNames(full) /\ Len(full) = last
      /\ \A i \in 1..last : /\ full[i] = Env!Doubled(key[i]) /\ Env!Doubled(key[i]) \in Text
                            /\ full[i][1] = key[i][1]
  BY InFullIs
<1>. HIDE DEF full
<1>3. full \in Seq(Text) /\ \A i \in 1..last : full[i] \in Text /\ full[i] # <<>>
  BY <1>2 DEF HasNames
<1>4. PICK w \in [0..Len(full) -> Text] : IsWriting(w, full) /\ text = w[Len(full)]
  BY <1>3, WrittenIs
<1>5. /\ w[0] = <<>> /\ text = w[last] /\ \A n \in 0..last : w[n] \in Text
      /\ \A n \in 1..last : w[n] = Joined(full[last - n + 1], n, w[n - 1])
  BY <1>2, <1>4 DEF IsWriting
<1>6. text \in Text
  <2>1. last \in 0..last BY <1>1
  <2>. QED BY <1>5, <2>1
<1>7. PICK read : IsReading(read, text, depth) /\ Env!ReadSuffix(text, depth) = read[Len(text)].key
  BY <1>6, ReadIs
<1>. HIDE DEF text, last
<1> DEFINE HasRead(n, p) == Stands(read, text, p, Append(First(n), <<>>), w[last - n])
           Good == {n \in 0..(last - 1) : \E p : HasRead(n, p)}
<1>8. \A n \in 1..last :
        w[n] \in Text /\ w[n] # <<>> /\ w[n][1] # Env!Under
        /\ (n # 1 => w[n] = Env!Doubled(key[last - n + 1]) \o (<<Env!Under>> \o w[n - 1]))
        /\ (n = 1 => w[n] = Env!Doubled(key[last - n + 1]))
  <2>. TAKE n \in 1..last
  <2>1. last - n + 1 \in 1..last /\ n - 1 \in 0..last BY <1>1
  <2> DEFINE name == full[last - n + 1]
             rest == w[n - 1]
  <2>2. name \in Text /\ name # <<>> /\ rest \in Text BY <1>3, <1>5, <2>1
  <2>3. name[1] # Env!Under /\ name = Env!Doubled(key[last - n + 1]) BY <1>2, <2>1 DEF last
  <2>4. w[n] = Joined(name, n, rest) BY <1>5
  <2>5. Len(Joined(name, n, rest)) > 0 => Joined(name, n, rest) # <<>> OBVIOUS
  <2>. HIDE DEF name, rest
  <2>6. /\ Joined(name, n, rest) \in Text /\ Len(Joined(name, n, rest)) > 0
        /\ Joined(name, n, rest)[1] = name[1]
        /\ n # 1 => Joined(name, n, rest) = name \o (<<Env!Under>> \o rest)
        /\ n = 1 => Joined(name, n, rest) = name
    BY <2>2, JoinedFrom
  <2>. QED BY <2>3, <2>4, <2>5, <2>6 DEF rest
<1>9. 0 \in Good
  <2>1. 0 \in 0..(last - 1) /\ last - 0 = last /\ 0 \in 0..Len(key) BY <1>1 DEF last
  <2>2. First(0) = <<>> BY <1>1, <2>1, FirstIs
  <2>3. Append(First(0), <<>>) = <<<<>>>> BY <2>2
  <2>4. read[0] = Seen(<<<<>>>>) BY <1>7 DEF IsReading
  <2>5. Len(text) \in Nat /\ 0 \in 0..Len(text) BY <1>6 DEF Text
  <2>6. Rest(text, 0) = text BY <1>6, AllIsLeft DEF IsLeft
  <2>7. HasRead(0, 0) BY <1>5, <2>1, <2>3, <2>4, <2>5, <2>6 DEF Stands
  <2>. HIDE DEF HasRead
  <2>. QED BY <2>1, <2>7
<1>10. ASSUME NEW n \in 1..last, NEW p, HasRead(n - 1, p)
       PROVE  \E q : Stands(read, text, q, First(n),
                             IF n = last THEN <<>> ELSE <<Env!Under>> \o w[last - n])
  <2> DEFINE name == key[n]
             rest == IF n = last THEN <<>> ELSE <<Env!Under>> \o w[last - n]
             front == First(n - 1)
  <2>1. /\ last - (n - 1) \in 1..last /\ last - (last - (n - 1)) + 1 = n
        /\ (last - (n - 1)) - 1 = last - n /\ last - n \in 0..last
        /\ (last - (n - 1) = 1 <=> n = last) /\ n \in 1..Len(key)
    BY <1>1 DEF last
  <2>2. rest \in Text
    <3>1. w[last - n] \in Text BY <1>5, <2>1
    <3>2. <<Env!Under>> \o w[last - n] \in Text BY <3>1, UnderIsText, JoinedIs
    <3>3. <<>> \in Text BY DEF Text
    <3>. QED BY <3>2, <3>3
  <2>3. Env!Doubled(name) \in Text /\ name \in Text BY <1>1, <1>2
  <2>4. w[last - (n - 1)] = Env!Doubled(name) \o rest
    <3>1. CASE n = last
      <4>1. w[last - (n - 1)] = Env!Doubled(name) BY <1>8, <2>1, <3>1
      <4>2. Env!Doubled(name) \o <<>> = Env!Doubled(name) BY <2>3 DEF Text
      <4>. QED BY <3>1, <4>1, <4>2
    <3>2. CASE n # last BY <1>8, <2>1, <3>2
    <3>. QED BY <3>1, <3>2
  <2>5. front \in Seq(Text)
    <3>1. n - 1 \in 0..Len(key) BY <2>1
    <3>. QED BY <1>1, <3>1
  <2>6. Stands(read, text, p, Append(front, <<>>), Env!Doubled(name) \o rest)
    BY <1>10, <2>4
  <2>7. Append(front, name) = First(n) BY <1>1, <2>1, FirstGrows
  <2>. HIDE DEF front, name, rest
  <2>8. PICK q : Stands(read, text, q, Append(front, name), rest)
    BY <1>6, <1>7, <2>2, <2>3, <2>5, <2>6, ReadsName
  <2>. QED BY <2>7, <2>8 DEF rest
<1>11. ASSUME NEW n \in 0..(last - 1), n > 0, n - 1 \in Good PROVE n \in Good
  <2>1. /\ n \in 1..last /\ n # last /\ last - n \in 1..last /\ n < last /\ n \in 0..Len(key)
    BY <1>1, <1>11 DEF last
  <2> DEFINE rest == w[last - n]
             short == First(n)
  <2>2. PICK p : HasRead(n - 1, p) BY <1>11
  <2>3. PICK q : Stands(read, text, q, short, <<Env!Under>> \o rest)
    <3>. HIDE DEF HasRead
    <3>. QED BY <1>10, <2>1, <2>2
  <2>4. rest \in Text /\ rest # <<>> /\ rest[1] # Env!Under BY <1>8, <2>1
  <2>5. Len(short) = n BY <1>1, <2>1, FirstIs
  <2>. HIDE DEF rest, short
  <2>6. Len(short) < depth BY <1>1, <2>1, <2>5
  <2>7. PICK s : Stands(read, text, s, Append(short, <<>>), rest)
    BY <1>6, <1>7, <2>3, <2>4, <2>6, ReadsSeparator
  <2>8. HasRead(n, s) BY <2>7 DEF rest, short
  <2>. HIDE DEF HasRead
  <2>. QED BY <2>8
<1>12. last - 1 \in Good
  <2>1. \A n \in 0..(last - 1) : n > 0 /\ n - 1 \in Good => n \in Good BY <1>11
  <2>2. last - 1 \in Nat /\ last - 1 \in 0..(last - 1) BY <1>1
  <2>. HIDE DEF Good
  <2>. QED BY <1>9, <2>1, <2>2, Upwards
<1>13. PICK q : Stands(read, text, q, key, <<>>)
  <2>1. PICK p : HasRead(last - 1, p) BY <1>12
  <2>2. last \in 1..last /\ last \in 0..Len(key) BY <1>1 DEF last
  <2>3. First(last) = key BY <1>1, <2>2, FirstIs, SameKey DEF last
  <2>. HIDE DEF HasRead
  <2>. QED BY <1>10, <2>1, <2>2, <2>3
<1>14. q = Len(text)
  <2>1. Len(Rest(text, q)) = 0 BY <1>13 DEF Stands
  <2>2. q \in 0..Len(text) BY <1>13 DEF Stands
  <2>3. Len(Rest(text, q)) = Len(text) - q BY <1>6, <2>2, RestIs
  <2>4. Len(text) \in Nat BY <1>6 DEF Text
  <2>. QED BY <2>1, <2>2, <2>3, <2>4
<1>. QED BY <1>7, <1>13, <1>14 DEF Stands, Seen, text, full

LEMMA StrippedIs ==
  ASSUME NEW key, HasNames(key), Len(key) > 0
  PROVE  Env!Stripped(key) = key
<1> DEFINE last == Len(key)
           places == 1..last
<1>1. /\ key \in Seq(Text) /\ last \in Nat /\ last > 0 /\ IsKey(key) /\ DOMAIN key = 1..last
      /\ \A i \in 1..last : key[i] # <<>>
  BY SeqIsKey DEF HasNames
<1>2. {i \in DOMAIN key : key[i] # <<>>} = places BY <1>1
<1>3. Env!Stripped(key) =
        IF places = {} THEN <<<<>>>> ELSE SubSeq(key, Env!Min(places), Env!Max(places))
  BY <1>2 DEF Env!Stripped
<1>4. 1 \in places /\ \A i \in places : 1 <= i BY <1>1
<1>5. last \in places /\ \A i \in places : last >= i BY <1>1
<1>6. places \subseteq Int OBVIOUS
<1>. HIDE DEF places
<1>7. Env!Min(places) = 1
  <2> DEFINE m == Env!Min(places)
  <2>1. m \in places /\ \A i \in places : m <= i BY <1>4 DEF Env!Min
  <2>. HIDE DEF m
  <2>2. m \in Int /\ m <= 1 /\ 1 <= m BY <1>4, <1>6, <2>1
  <2>. QED BY <2>2 DEF m
<1>8. Env!Max(places) = last
  <2> DEFINE m == Env!Max(places)
  <2>1. m \in places /\ \A i \in places : m >= i BY <1>5 DEF Env!Max
  <2>. HIDE DEF m
  <2>2. m \in Int /\ m <= last /\ last <= m BY <1>1, <1>5, <1>6, <2>1
  <2>. QED BY <1>1, <2>2 DEF m
<1>9. Env!Stripped(key) = SubSeq(key, 1, last) BY <1>3, <1>4, <1>7, <1>8
<1>10. last \in 0..last BY <1>1
<1>. QED BY <1>1, <1>9, <1>10, FirstIs, SameKey

LEMMA NestedIsExact ==
  ASSUME NEW key, HasNames(key), NEW tree, NEW depth \in Nat, Len(key) \in 1..depth,
         \A i \in DOMAIN key : key[i][1] # Env!Under
  PROVE  Env!ResolveEnvSuffix(Env!Written([i \in DOMAIN key |-> Env!Doubled(key[i])]), "nested",
                              tree, depth) = key
<1>1. DOMAIN key = 1..Len(key) /\ Len(key) > 0 BY DEF HasNames
<1>2. Env!ReadSuffix(Env!Written(InFull(key)), depth) = key BY <1>1, ReadsKey
<1>3. Env!NestedKey(Env!Written(InFull(key)), depth) = key
  BY <1>1, <1>2, StrippedIs DEF Env!NestedKey
<1>. QED BY <1>3 DEF Env!ResolveEnvSuffix, InFull

-----------------------------------------------------------------------------
(* What is found, in auto style.                                             *)
LEMMA TreesBelowAre ==
  ASSUME NEW tree, NEW depth \in Nat
  PROVE  /\ Env!Depths(tree, depth)[0] = {tree}
         /\ \A n \in 1..depth :
              Env!Depths(tree, depth)[n] =
                UNION {{t.of[name] : name \in Env!Names(t)} : t \in Env!Depths(tree, depth)[n - 1]}
<1> DEFINE last == depth
           Body(f, n) == IF n = 0 THEN {tree}
                         ELSE UNION {{t.of[name] : name \in Env!Names(t)} : t \in f[n - 1]}
           IsDepths(f, m) == f = [n \in 0..m |-> Body(f, n)]
           Reached == {m \in 0..last : \E f : IsDepths(f, m)}
           depths == CHOOSE f : IsDepths(f, last)
<1>1. Env!Depths(tree, depth) = depths BY DEF Env!Depths
<1>2. \A f, g, n : n = 0 \/ f[n - 1] = g[n - 1] => Body(f, n) = Body(g, n) OBVIOUS
<1>. HIDE DEF Body
<1>3. 0 \in Reached
  <2> DEFINE f == [n \in 0..0 |-> Body(<<>>, n)]
  <2>1. \A n \in 0..0 : Body(<<>>, n) = Body(f, n) BY <1>2
  <2>2. IsDepths(f, 0) BY <2>1
  <2>. HIDE DEF f, IsDepths
  <2>. QED BY <2>2
<1>4. ASSUME NEW m \in 0..last, m > 0, m - 1 \in Reached PROVE m \in Reached
  <2>1. PICK f : IsDepths(f, m - 1) BY <1>4
  <2> DEFINE g == [n \in 0..m |-> IF n = m THEN Body(f, m) ELSE f[n]]
  <2>2. \A n \in 0..m : n = 0 \/ (n - 1 \in 0..m /\ n - 1 # m /\ (n # m => n \in 0..(m - 1)))
    OBVIOUS
  <2>3. \A n \in 0..m : n = 0 \/ f[n - 1] = g[n - 1] BY <2>2
  <2>4. 0 \in 0..(m - 1) BY <1>4
  <2>5. \A n \in 0..m : g[n] = Body(f, n) BY <2>1, <2>2, <2>4
  <2>6. g = [n \in 0..m |-> g[n]] OBVIOUS
  <2>. HIDE DEF g
  <2>7. \A n \in 0..m : g[n] = Body(g, n) BY <1>2, <2>3, <2>5
  <2>8. g = [n \in 0..m |-> Body(g, n)] BY <2>6, <2>7
  <2>9. \E h : IsDepths(h, m) BY <2>8
  <2>. HIDE DEF IsDepths
  <2>. QED BY <1>4, <2>9
<1>5. IsDepths(depths, last)
  <2>1. \A m \in 0..last : m > 0 /\ m - 1 \in Reached => m \in Reached BY <1>4
  <2>2. \A m \in 0..last : m \in Reached
    <3>. HIDE DEF Reached
    <3>. QED BY <1>3, <2>1, Upwards
  <2>3. last \in 0..last OBVIOUS
  <2>4. \E f : IsDepths(f, last) BY <2>2, <2>3
  <2>. HIDE DEF IsDepths
  <2>. QED BY <2>4 DEF depths
<1>6. \A n \in 0..last : depths[n] = Body(depths, n)
  <2>. HIDE DEF depths
  <2>. QED BY <1>5
<1>7. 0 \in 0..last /\ \A n \in 1..last : n \in 0..last /\ n # 0 OBVIOUS
<1>. HIDE DEF depths
<1>. QED BY <1>1, <1>6, <1>7 DEF Body

LEMMA SameTrees ==
  ASSUME NEW tree, NEW key, NEW depth
  PROVE  /\ Env!Names(tree) = Conf!Names(tree)
         /\ Env!Holds(tree, key) <=> Conf!Holds(tree, key)
         /\ Env!KeysWithin(tree, depth) = Conf!KeysWithin(tree, depth)
BY DEF Env!Names, Conf!Names, Env!IsDict, Conf!IsDict, Env!Holds, Conf!Holds, Env!HoldsTo,
  Conf!HoldsTo, Env!Along, Conf!Along, Env!KeysWithin, Conf!KeysWithin, Env!GetNested,
  Conf!GetNested

(* A key of a tree that is spelled so, and an answer that is one if any is.  *)
Fits(tree, key, n, rest) ==
  HasNames(key) /\ Len(key) \in 1..n /\ Conf!Holds(tree, key) /\ Env!Written(key) = rest
IsAnswer(found, tree, rest, n) ==
  (found # <<>> => Fits(tree, found, n, rest)) /\ \A key : Fits(tree, key, n, rest) => found # <<>>

LEMMA OneName ==
  ASSUME NEW tree, NEW rest \in Text, rest # <<>>, rest \in Env!Names(tree), NEW n \in Nat, n > 0
  PROVE  Fits(tree, <<rest>>, n, rest) /\ <<rest>> # <<>>
<1> DEFINE key == <<rest>>
<1>1. key \in Seq(Text) /\ Len(key) = 1 /\ key[1] = rest BY OneIs
<1>2. key # <<>> OBVIOUS
<1>. HIDE DEF key
<1>3. HasNames(key) BY <1>1 DEF HasNames
<1>4. IsKey(key) BY <1>1, SeqIsKey
<1>5. Conf!Holds(tree, key)
  <2>1. IsKey(Tail(key)) /\ Len(Tail(key)) = 0 BY <1>1, <1>4, TailIs
  <2>2. Conf!Holds(tree.of[key[1]], Tail(key)) BY <2>1 DEF Conf!Holds, Conf!HoldsTo
  <2>3. key[1] \in Conf!Names(tree) BY <1>1, SameTrees
  <2>4. Len(key) > 0 BY <1>1
  <2>. QED BY <1>1, <1>4, <2>2, <2>3, <2>4, HoldsUnder
<1>6. Env!Written(key) = rest
  <2>1. Len(key) > 0 BY <1>1
  <2>2. Env!Written(key) = Joined(key[1], Len(key), Env!Written(Tail(key)))
    BY <1>1, <2>1, WrittenStep
  <2>. QED BY <1>1, <2>2 DEF Joined
<1>7. Len(key) \in 1..n BY <1>1
<1>. QED BY <1>2, <1>3, <1>5, <1>6, <1>7 DEF Fits, key

(* A name in front of a key.                                                 *)
LEMMA NameInFront ==
  ASSUME NEW tree, NEW name \in Text, name # <<>>, name \in Env!Names(tree),
         NEW key, NEW n \in Nat, NEW rest, Fits(tree.of[name], key, n, rest)
  PROVE  /\ Fits(tree, <<name>> \o key, n + 1, name \o (<<Env!Under>> \o rest))
         /\ <<name>> \o key # <<>>
<1> DEFINE long == <<name>> \o key
           m == Len(key)
<1>1. /\ key \in Seq(Text) /\ IsKey(key) /\ m \in 1..n /\ m \in Nat
      /\ \A i \in 1..m : key[i] # <<>>
  BY SeqIsKey DEF Fits, HasNames
<1>2. IsKey(long) /\ Len(long) = m + 1 /\ long[1] = name /\ \A i \in 1..m : long[i + 1] = key[i]
  BY <1>1, UnderIs
<1>3. long \in Seq(Text)
  <2>1. <<name>> \in Seq(Text) BY OneIs
  <2>. QED BY <1>1, <2>1
<1>. HIDE DEF long, m
<1>4. Tail(long) = key
  <2>1. IsKey(Tail(long)) /\ Len(Tail(long)) = m /\ \A i \in 1..m : Tail(long)[i] = long[i + 1]
    BY <1>1, <1>2, TailIs
  <2>. QED BY <1>1, <1>2, <2>1, SameKey DEF m
<1>5. HasNames(long)
  <2>1. \A i \in 1..(m + 1) : i = 1 \/ (i - 1 \in 1..m /\ (i - 1) + 1 = i) BY <1>1
  <2>2. ASSUME NEW i \in 1..(m + 1) PROVE long[i] # <<>>
    <3>1. CASE i = 1 BY <1>2, <3>1
    <3>2. CASE i # 1
      <4>1. i - 1 \in 1..m /\ (i - 1) + 1 = i BY <2>1, <3>2
      <4>2. long[i] = key[i - 1] BY <1>2, <4>1
      <4>. QED BY <1>1, <4>1, <4>2
    <3>. QED BY <3>1, <3>2
  <2>. QED BY <1>2, <1>3, <2>2 DEF HasNames
<1>6. Conf!Holds(tree, long)
  <2>1. name \in Conf!Names(tree) BY SameTrees
  <2>2. Conf!Holds(tree.of[name], key) BY DEF Fits
  <2>3. Len(long) > 0 BY <1>1, <1>2
  <2>4. long[1] \in Conf!Names(tree) /\ Conf!Holds(tree.of[long[1]], Tail(long))
    BY <1>2, <1>4, <2>1, <2>2
  <2>. QED BY <1>2, <2>3, <2>4, HoldsUnder
<1>7. Env!Written(long) = name \o (<<Env!Under>> \o rest)
  <2>1. Env!Written(key) = rest BY DEF Fits
  <2>2. /\ Env!Written(long) = Joined(long[1], Len(long), Env!Written(Tail(long)))
        /\ Env!Written(Tail(long)) \in Text
    <3>1. Len(long) > 0 BY <1>1, <1>2
    <3>. QED BY <1>3, <3>1, WrittenStep
  <2>3. rest \in Text /\ m + 1 # 1
    <3>1. m + 1 # 1 BY <1>1
    <3>. QED BY <1>4, <2>1, <2>2, <3>1
  <2>4. Env!Written(long) = Joined(name, m + 1, rest) BY <1>2, <1>4, <2>1, <2>2, Zenon
  <2>. QED BY <2>3, <2>4, JoinedFrom
<1>8. Len(long) \in 1..(n + 1) /\ Len(long) # 0 BY <1>1, <1>2
<1>9. long # <<>> BY <1>8
<1>. QED BY <1>5, <1>6, <1>7, <1>8, <1>9 DEF Fits, long

(* The rest of a key is what follows its first name and an underscore.       *)
After(rest, i) == SubSeq(rest, i + 1, Len(rest))
Until(rest, i) == SubSeq(rest, 1, i - 1)

LEMMA SplitJoins ==
  ASSUME NEW rest \in Text, NEW i \in 2..(Len(rest) - 1), rest[i] = Env!Under
  PROVE  /\ Until(rest, i) \in Text /\ Until(rest, i) # <<>>
         /\ After(rest, i) \in Text /\ After(rest, i) # <<>>
         /\ rest = Until(rest, i) \o (<<Env!Under>> \o After(rest, i))
<1> DEFINE last == Len(rest)
           name == Until(rest, i)
           more == After(rest, i)
           one == <<Env!Under>>
           whole == name \o (one \o more)
<1>1. last \in Nat /\ i \in 2..(last - 1) BY DEF Text
<1>2. name \in Text /\ Len(name) = i - 1 /\ \A j \in 1..(i - 1) : name[j] = rest[j]
  <2>1. /\ 1 \in Nat /\ i - 1 \in Nat /\ 1 \in 1..((i - 1) + 1) /\ i - 1 <= last
        /\ (i - 1) - 1 + 1 = i - 1 /\ \A j \in 1..(i - 1) : 1 + j - 1 = j
    BY <1>1
  <2>. QED BY <2>1, PieceIs DEF Until
<1>3. more \in Text /\ Len(more) = last - i /\ \A j \in 1..(last - i) : more[j] = rest[i + j]
  <2>1. i \in 0..Len(rest) BY <1>1
  <2>. QED BY <2>1, RestIs DEF Rest, After
<1>4. one \in Text /\ Len(one) = 1 /\ one[1] = Env!Under BY UnderIsText
<1>. HIDE DEF name, more, one, last
<1>5. /\ one \o more \in Text /\ Len(one \o more) = 1 + (last - i) /\ (one \o more)[1] = Env!Under
      /\ \A j \in 1..(last - i) : (one \o more)[1 + j] = rest[i + j]
  <2>1. 1 \in 1..1 OBVIOUS
  <2>2. Joins(one, more, 1, last - i) BY <1>3, <1>4, JoinedAt
  <2>. QED BY <1>3, <1>4, <2>1, <2>2 DEF Joins
<1>6. /\ whole \in Text /\ Len(whole) = last
      /\ \A j \in 1..(i - 1) : whole[j] = rest[j]
      /\ \A j \in 1..(1 + (last - i)) : whole[(i - 1) + j] = (one \o more)[j]
  <2>1. (i - 1) + (1 + (last - i)) = last BY <1>1
  <2>2. Joins(name, one \o more, i - 1, 1 + (last - i)) BY <1>2, <1>5, JoinedAt
  <2>. QED BY <1>2, <2>1, <2>2 DEF Joins
<1>7. ASSUME NEW j \in 1..last PROVE whole[j] = rest[j]
  <2>1. CASE j \in 1..(i - 1) BY <1>6, <2>1
  <2>2. CASE j = i
    <3>1. 1 \in 1..(1 + (last - i)) /\ (i - 1) + 1 = i BY <1>1
    <3>. QED BY <1>5, <1>6, <2>2, <3>1
  <2>3. CASE j > i
    <3> DEFINE k == j - i
    <3>1. k \in 1..(last - i) /\ 1 + k \in 1..(1 + (last - i)) /\ (i - 1) + (1 + k) = j /\ i + k = j
      BY <1>1, <2>3
    <3>. HIDE DEF k, whole
    <3>2. whole[(i - 1) + (1 + k)] = (one \o more)[1 + k] BY <1>6, <3>1
    <3>3. (one \o more)[1 + k] = rest[i + k] BY <1>5, <3>1
    <3>4. whole[j] = (one \o more)[1 + k] /\ rest[i + k] = rest[j] BY <3>1, <3>2 DEF whole
    <3>. QED BY <3>3, <3>4
  <2>4. j \in 1..(i - 1) \/ j = i \/ j > i BY <1>1
  <2>. HIDE DEF whole
  <2>. QED BY <2>1, <2>2, <2>3, <2>4
<1>8. whole = rest
  <2>. HIDE DEF whole
  <2>. QED BY <1>6, <1>7, SameText DEF last
<1>9. Len(name) # 0 /\ Len(more) # 0 BY <1>1, <1>2, <1>3
<1>10. name # <<>> /\ more # <<>> BY <1>9
<1>. QED BY <1>2, <1>3, <1>8, <1>10 DEF name, more, one

CanSplit(rest, name, more) ==
  \E i \in 2..(Len(rest) - 1) : /\ rest[i] = Env!Under
                                /\ Until(rest, i) = name /\ After(rest, i) = more
LEMMA JoinCanSplit ==
  ASSUME NEW name \in Text, name # <<>>, NEW more \in Text, more # <<>>,
         NEW rest, rest = name \o (<<Env!Under>> \o more)
  PROVE  CanSplit(rest, name, more)
<1> DEFINE n == Len(name)
           i == n + 1
           one == <<Env!Under>>
           tail == one \o more
           last == Len(rest)
<1>1. n \in Nat /\ n > 0 /\ Len(more) \in Nat /\ Len(more) > 0 BY DEF Text
<1>2. one \in Text /\ Len(one) = 1 /\ one[1] = Env!Under BY UnderIsText
<1>3. rest = name \o tail OBVIOUS
<1>. HIDE DEF one
<1>4. tail \in Text /\ Len(tail) = 1 + Len(more) /\ tail[1] = Env!Under
  <2>1. 1 \in 1..1 OBVIOUS
  <2>2. Joins(one, more, 1, Len(more)) BY <1>2, JoinedAt
  <2>. QED BY <1>2, <2>1, <2>2 DEF Joins
<1>5. tail = one \o more OBVIOUS
<1>. HIDE DEF tail
<1>6. /\ rest \in Text /\ last = n + Len(tail) /\ \A j \in 1..n : rest[j] = name[j]
      /\ rest[n + 1] = tail[1]
  <2>1. 1 \in 1..Len(tail) BY <1>1, <1>4
  <2>2. Joins(name, tail, n, Len(tail)) BY <1>4, JoinedAt
  <2>. QED BY <1>3, <2>1, <2>2 DEF Joins
<1>. HIDE DEF n, last
<1>7. i \in 2..(last - 1) /\ last \in Nat /\ i \in 0..last /\ n \in 0..last /\ i - 1 = n
  BY <1>1, <1>4, <1>6
<1>8. Until(rest, i) = name
  <2> DEFINE s == SubSeq(rest, 1, n)
  <2>1. s \in Text BY <1>6, <1>7 DEF Text, last
  <2>2. Len(s) = n /\ \A j \in 1..n : s[j] = rest[j]
    <3>1. IsKey(rest) /\ n \in 0..Len(rest) BY <1>6, <1>7, SeqIsKey DEF Text, last
    <3>. QED BY <3>1, FirstIs
  <2>. HIDE DEF s
  <2>3. s = name BY <1>6, <2>1, <2>2, SameText DEF n
  <2>. QED BY <1>7, <2>3 DEF Until, s
<1>9. After(rest, i) = more
  <2>1. IsLeft(rest, 0, name \o tail) BY <1>3, <1>6, AllIsLeft
  <2>2. n = 0 + Len(name) BY <1>1 DEF n
  <2>3. IsLeft(rest, n, tail) BY <1>4, <1>6, <2>1, <2>2, LeftAfter
  <2>4. i = n + Len(one) BY <1>2
  <2>5. IsLeft(rest, i, more) BY <1>2, <1>5, <1>6, <2>3, <2>4, LeftAfter
  <2>. QED BY <2>5 DEF IsLeft, Rest, After
<1>10. rest[i] = Env!Under BY <1>4, <1>6
<1>. QED BY <1>7, <1>8, <1>9, <1>10 DEF last, CanSplit

(* The first split whose rest is found below answers for the whole, and      *)
(* without one no key is spelled so.                                         *)
LEMMA TailFits ==
  ASSUME NEW tree, NEW key, NEW n \in Nat, NEW rest, Fits(tree, key, n, rest), Len(key) # 1
  PROVE  /\ n > 1 /\ key[1] \in Text /\ key[1] # <<>>
         /\ key[1] \in Env!Names(tree) /\ Env!IsDict(tree.of[key[1]])
         /\ Env!Written(Tail(key)) \in Text /\ Env!Written(Tail(key)) # <<>>
         /\ rest = key[1] \o (<<Env!Under>> \o Env!Written(Tail(key)))
         /\ Fits(tree.of[key[1]], Tail(key), n - 1, Env!Written(Tail(key)))
<1> DEFINE more == Tail(key)
           m == Len(key)
<1>1. /\ HasNames(key) /\ key \in Seq(Text) /\ IsKey(key) /\ m \in 1..n /\ m \in Nat /\ m # 1
      /\ Conf!Holds(tree, key) /\ Env!Written(key) = rest /\ \A i \in 1..m : key[i] # <<>>
  BY SeqIsKey DEF Fits, HasNames
<1>. HIDE DEF m
<1>2. key[1] \in Text /\ key[1] # <<>>
  <2>1. 1 \in 1..m BY <1>1
  <2>2. key[1] \in Text BY <1>1, <2>1 DEF m
  <2>. QED BY <1>1, <2>1, <2>2
<1>3. /\ m > 0 /\ m > 1 /\ n > 1 /\ m - 1 \in 1..(n - 1) /\ m - 1 \in Nat /\ m - 1 > 0
      /\ \A i \in 1..(m - 1) : i + 1 \in 1..m
  BY <1>1
<1>4. /\ IsKey(more) /\ Len(more) = m - 1 /\ \A i \in 1..(m - 1) : more[i] = key[i + 1]
  BY <1>1, <1>3, TailIs DEF m
<1>5. /\ rest = Joined(key[1], m, Env!Written(more)) /\ Env!Written(more) \in Text
      /\ more \in Seq(Text)
  BY <1>1, <1>3, WrittenStep DEF m
<1>6. key[1] \in Conf!Names(tree) /\ Conf!Holds(tree.of[key[1]], more)
  BY <1>1, <1>3, HoldsUnder DEF m
<1>. HIDE DEF more
<1>7. HasNames(more) BY <1>1, <1>3, <1>4, <1>5 DEF HasNames
<1>8. Env!Written(more) # <<>>
  <2>1. Len(more) > 0 BY <1>3, <1>4
  <2>2. Len(Env!Written(more)) > 0 BY <1>7, <2>1, WrittenFrom
  <2>3. Len(Env!Written(more)) # 0 BY <2>2
  <2>. QED BY <2>3
<1>9. rest = key[1] \o (<<Env!Under>> \o Env!Written(more)) BY <1>1, <1>2, <1>5, JoinedFrom
<1>10. Env!IsDict(tree.of[key[1]])
  <2>1. Len(more) > 0 BY <1>3, <1>4
  <2>2. more[1] \in Conf!Names(tree.of[key[1]]) BY <1>4, <1>6, <2>1, HoldsUnder
  <2>3. more[1] \in Env!Names(tree.of[key[1]]) BY <2>2, SameTrees
  <2>. QED BY <2>3 DEF Env!Names
<1>11. Fits(tree.of[key[1]], more, n - 1, Env!Written(more))
  BY <1>3, <1>4, <1>6, <1>7 DEF Fits
<1>12. key[1] \in Env!Names(tree) BY <1>6, SameTrees
<1>. QED BY <1>2, <1>3, <1>5, <1>8, <1>9, <1>10, <1>11, <1>12 DEF more

Below(below, rest, tree, i) == below[After(rest, i)][tree.of[Until(rest, i)]]
AreAnswers(below, rest, tree, n) ==
  \A i \in Env!Splits(rest, tree, n) :
    IsAnswer(Below(below, rest, tree, i), tree.of[Until(rest, i)], After(rest, i), n - 1)
LEMMA MatchAnswers ==
  ASSUME NEW rest \in Text, rest # <<>>, NEW tree, NEW n \in Nat, n > 0, NEW below,
         AreAnswers(below, rest, tree, n)
  PROVE  IsAnswer(Env!Match(rest, tree, n, below), tree, rest, n)
<1> DEFINE found(i) == Below(below, rest, tree, i)
           splits == Env!Splits(rest, tree, n)
           ends == {i \in splits : found(i) # <<>>}
           first == Env!Min(ends)
           match == Env!Match(rest, tree, n, below)
<1>1. /\ rest \in Env!Names(tree) => match = <<rest>>
      /\ rest \notin Env!Names(tree) /\ ends = {} => match = <<>>
      /\ rest \notin Env!Names(tree) /\ ends # {} => match = <<Until(rest, first)>> \o found(first)
  BY DEF Env!Match, Until, After, Below
<1>2. \A i \in 2..(Len(rest) - 1) :
        i \in splits <=> /\ n > 1 /\ rest[i] = Env!Under /\ Until(rest, i) \in Env!Names(tree)
                         /\ Env!IsDict(tree.of[Until(rest, i)])
  BY DEF Env!Splits, Until
<1>3. splits \subseteq 2..(Len(rest) - 1) BY DEF Env!Splits
<1>4. Len(rest) \in Nat BY DEF Text
<1>. HIDE DEF match, splits
<1>5. CASE rest \in Env!Names(tree)
  <2>1. Fits(tree, <<rest>>, n, rest) /\ <<rest>> # <<>> BY <1>5, OneName
  <2>. QED BY <1>1, <1>5, <2>1 DEF IsAnswer, match
<1>6. CASE rest \notin Env!Names(tree) /\ ends # {}
  <2>1. first \in ends
    <3>1. \A i \in 2..(Len(rest) - 1) : i \in Nat BY <1>4
    <3>2. splits \subseteq Nat BY <1>3, <3>1
    <3>3. ends \in SUBSET Nat BY <3>2
    <3>. HIDE DEF ends
    <3>4. \E x \in ends : \A y \in ends : x <= y BY <1>6, <3>3, LeastExists
    <3>. QED BY <3>4 DEF Env!Min
  <2>. HIDE DEF first
  <2>2. first \in splits /\ first \in 2..(Len(rest) - 1) /\ found(first) # <<>> BY <1>3, <2>1
  <2>3. rest[first] = Env!Under /\ Until(rest, first) \in Env!Names(tree) BY <1>2, <2>2
  <2>4. /\ Until(rest, first) \in Text /\ Until(rest, first) # <<>>
        /\ rest = Until(rest, first) \o (<<Env!Under>> \o After(rest, first))
    BY <2>2, <2>3, SplitJoins
  <2>5. Fits(tree.of[Until(rest, first)], found(first), n - 1, After(rest, first))
    BY <2>2 DEF AreAnswers, IsAnswer, splits
  <2>6. n - 1 \in Nat /\ (n - 1) + 1 = n OBVIOUS
  <2>7. /\ Fits(tree, <<Until(rest, first)>> \o found(first), (n - 1) + 1,
                Until(rest, first) \o (<<Env!Under>> \o After(rest, first)))
        /\ <<Until(rest, first)>> \o found(first) # <<>>
    BY <2>3, <2>4, <2>5, <2>6, NameInFront
  <2>8. match = <<Until(rest, first)>> \o found(first) BY <1>1, <1>6 DEF first
  <2>9. Fits(tree, match, n, rest) /\ match # <<>> BY <2>4, <2>6, <2>7, <2>8, Zenon
  <2>. QED BY <2>9 DEF IsAnswer, match
<1>7. CASE rest \notin Env!Names(tree) /\ ends = {}
  <2>1. ASSUME NEW key, Fits(tree, key, n, rest) PROVE FALSE
    <3> DEFINE name == key[1]
               more == Env!Written(Tail(key))
    <3>1. CASE Len(key) = 1
      <4>1. /\ HasNames(key) /\ key \in Seq(Text) /\ IsKey(key) /\ Len(key) > 0
            /\ Conf!Holds(tree, key) /\ Env!Written(key) = rest /\ name \in Text /\ name # <<>>
        BY <2>1, <3>1, SeqIsKey DEF Fits, HasNames
      <4>2. name \in Env!Names(tree) BY <4>1, HoldsUnder, SameTrees
      <4>3. rest = Joined(name, Len(key), more) BY <4>1, WrittenStep
      <4>4. rest = name BY <3>1, <4>3 DEF Joined
      <4>. QED BY <1>7, <4>2, <4>4
    <3>2. CASE Len(key) # 1
      <4>1. /\ n > 1 /\ name \in Text /\ name # <<>> /\ name \in Env!Names(tree)
            /\ Env!IsDict(tree.of[name]) /\ more \in Text /\ more # <<>>
            /\ rest = name \o (<<Env!Under>> \o more)
            /\ Fits(tree.of[name], Tail(key), n - 1, more)
        BY <2>1, <3>2, TailFits
      <4>. HIDE DEF name, more
      <4>2. PICK i \in 2..(Len(rest) - 1) :
              rest[i] = Env!Under /\ Until(rest, i) = name /\ After(rest, i) = more
        <5>1. CanSplit(rest, name, more) BY <4>1, JoinCanSplit, Zenon
        <5>. QED BY <5>1 DEF CanSplit
      <4>3. i \in splits BY <1>2, <4>1, <4>2
      <4>4. IsAnswer(found(i), tree.of[name], more, n - 1) BY <4>2, <4>3 DEF AreAnswers, splits
      <4>5. found(i) # <<>> BY <4>1, <4>4 DEF IsAnswer
      <4>6. i \in ends BY <4>3, <4>5
      <4>. QED BY <1>7, <4>6
    <3>. QED BY <3>1, <3>2
  <2>. QED BY <1>1, <1>7, <2>1 DEF IsAnswer, match
<1>. QED BY <1>5, <1>6, <1>7

(* The table of answers: for each rest of the suffix and each tree so far    *)
(* below.                                                                    *)
Rests(suffix) == {SubSeq(suffix, i, Len(suffix)) : i \in 1..(Len(suffix) + 1)}
LEMMA RestsAre ==
  ASSUME NEW suffix \in Text
  PROVE  /\ suffix \in Rests(suffix)
         /\ \A rest \in Rests(suffix) : rest \in Text /\ \E p : IsLeft(suffix, p, rest)
         /\ \A p : \A rest : IsLeft(suffix, p, rest) => rest \in Rests(suffix)
<1> DEFINE last == Len(suffix)
<1>1. last \in Nat /\ \A p \in 0..last : p + 1 \in 1..(last + 1) BY DEF Text
<1>2. \A i \in 1..(last + 1) : i - 1 \in 0..last /\ (i - 1) + 1 = i BY <1>1
<1>3. \A i \in 1..(last + 1) : SubSeq(suffix, i, last) = Rest(suffix, i - 1) BY <1>2 DEF Rest
<1>4. \A rest \in Rests(suffix) : \E p \in 0..last : rest = Rest(suffix, p)
  BY <1>2, <1>3 DEF Rests
<1>5. ASSUME NEW p, NEW rest, IsLeft(suffix, p, rest) PROVE rest \in Rests(suffix)
  BY <1>1, <1>5 DEF IsLeft, Rests, Rest
<1>6. ASSUME NEW rest \in Rests(suffix) PROVE rest \in Text /\ \E p : IsLeft(suffix, p, rest)
  <2>1. PICK p \in 0..last : rest = Rest(suffix, p) BY <1>4
  <2>2. rest \in Text BY <2>1, RestIs
  <2>. QED BY <2>1, <2>2 DEF IsLeft
<1>7. suffix \in Rests(suffix) BY <1>5, AllIsLeft
<1>. QED BY <1>5, <1>6, <1>7

LEMMA RestsGoOn ==
  ASSUME NEW suffix \in Text, NEW rest \in Rests(suffix), NEW i \in 2..(Len(rest) - 1),
         rest[i] = Env!Under
  PROVE  After(rest, i) \in Rests(suffix) /\ After(rest, i) # <<>>
<1> DEFINE name == Until(rest, i)
           more == After(rest, i)
           one == <<Env!Under>>
<1>1. rest \in Text /\ \E p : IsLeft(suffix, p, rest) BY RestsAre
<1>2. PICK p : IsLeft(suffix, p, rest) BY <1>1
<1>3. name \in Text /\ more \in Text /\ more # <<>> /\ rest = name \o (one \o more)
  BY <1>1, SplitJoins
<1>4. one \in Text BY UnderIsText
<1>. HIDE DEF name, more, one
<1>5. one \o more \in Text BY <1>3, <1>4, JoinedIs
<1>6. IsLeft(suffix, p, name \o (one \o more)) BY <1>2, <1>3, Zenon
<1>7. IsLeft(suffix, p + Len(name), one \o more) BY <1>3, <1>5, <1>6, LeftAfter
<1>8. IsLeft(suffix, (p + Len(name)) + Len(one), more) BY <1>3, <1>4, <1>7, LeftAfter
<1>9. more \in Rests(suffix) BY <1>8, RestsAre
<1>. QED BY <1>3, <1>9 DEF more

Table(suffix, tree, depth, n, below) ==
  [rest \in Rests(suffix) |-> [t \in Env!Depths(tree, depth)[depth - n] |->
     Env!Match(rest, t, n, below)]]
IsMatching(m, suffix, tree, depth) ==
  m = [n \in 0..depth |-> Table(suffix, tree, depth, n, IF n > 0 THEN m[n - 1] ELSE <<>>)]
LEMMA MatchIs ==
  ASSUME NEW suffix, NEW tree, NEW depth \in Nat
  PROVE  \E m : IsMatching(m, suffix, tree, depth)
                /\ Env!MatchSuffixToTree(suffix, tree, depth) = m[depth][suffix][tree]
<1> DEFINE last == depth
           Prev(f, n) == IF n > 0 THEN f[n - 1] ELSE <<>>
           Body(f, n) == Table(suffix, tree, depth, n, Prev(f, n))
           Is(f, m) == f = [n \in 0..m |-> Body(f, n)]
           Reached == {m \in 0..last : \E f : Is(f, m)}
           match == CHOOSE f : Is(f, last)
<1>1. Env!MatchSuffixToTree(suffix, tree, depth) = match[depth][suffix][tree]
  BY DEF Env!MatchSuffixToTree, Table, Rests
<1>2. \A f, g : \A n \in 0..last : n = 0 \/ f[n - 1] = g[n - 1] => Body(f, n) = Body(g, n)
  <2>1. \A f, g : \A n \in 0..last : n = 0 \/ f[n - 1] = g[n - 1] => Prev(f, n) = Prev(g, n)
    OBVIOUS
  <2>. HIDE DEF Prev
  <2>. QED BY <2>1
<1>. HIDE DEF Body
<1>3. 0 \in Reached
  <2> DEFINE f == [n \in 0..0 |-> Body(<<>>, n)]
  <2>1. \A n \in 0..0 : n = 0 /\ n \in 0..last OBVIOUS
  <2>2. \A n \in 0..0 : Body(<<>>, n) = Body(f, n) BY <1>2, <2>1
  <2>3. Is(f, 0) BY <2>2
  <2>. HIDE DEF f, Is
  <2>. QED BY <2>3
<1>4. ASSUME NEW m \in 0..last, m > 0, m - 1 \in Reached PROVE m \in Reached
  <2>1. PICK f : Is(f, m - 1) BY <1>4
  <2> DEFINE g == [n \in 0..m |-> IF n = m THEN Body(f, m) ELSE f[n]]
  <2>2. \A n \in 0..m : n = 0 \/ (n - 1 \in 0..m /\ n - 1 # m /\ (n # m => n \in 0..(m - 1)))
    OBVIOUS
  <2>3. \A n \in 0..m : n = 0 \/ f[n - 1] = g[n - 1] BY <2>2
  <2>4. 0 \in 0..(m - 1) /\ \A n \in 0..m : n \in 0..last BY <1>4
  <2>5. \A n \in 0..m : g[n] = Body(f, n) BY <2>1, <2>2, <2>4
  <2>6. g = [n \in 0..m |-> g[n]] OBVIOUS
  <2>. HIDE DEF g
  <2>7. \A n \in 0..m : g[n] = Body(g, n) BY <1>2, <2>3, <2>4, <2>5
  <2>8. g = [n \in 0..m |-> Body(g, n)] BY <2>6, <2>7
  <2>9. \E h : Is(h, m) BY <2>8
  <2>. HIDE DEF Is
  <2>. QED BY <1>4, <2>9
<1>5. Is(match, last)
  <2>1. \A m \in 0..last : m > 0 /\ m - 1 \in Reached => m \in Reached BY <1>4
  <2>2. \A m \in 0..last : m \in Reached
    <3>. HIDE DEF Reached
    <3>. QED BY <1>3, <2>1, Upwards
  <2>3. last \in 0..last OBVIOUS
  <2>4. \E f : Is(f, last) BY <2>2, <2>3
  <2>. HIDE DEF Is
  <2>. QED BY <2>4 DEF match
<1>. HIDE DEF match
<1>. QED BY <1>1, <1>5 DEF Body, IsMatching

LEMMA DepthsGoOn ==
  ASSUME NEW tree, NEW depth \in Nat, NEW n \in 1..depth,
         NEW t \in Env!Depths(tree, depth)[depth - n], NEW name \in Env!Names(t)
  PROVE  t.of[name] \in Env!Depths(tree, depth)[depth - (n - 1)]
<1>1. depth - (n - 1) \in 1..depth /\ (depth - (n - 1)) - 1 = depth - n OBVIOUS
<1>2. Env!Depths(tree, depth)[depth - (n - 1)] =
        UNION {{u.of[sub] : sub \in Env!Names(u)} : u \in Env!Depths(tree, depth)[depth - n]}
  BY <1>1, TreesBelowAre
<1>. QED BY <1>2

AllAnswers(m, suffix, tree, depth, n) ==
  \A t \in Env!Depths(tree, depth)[depth - n] : \A rest \in Rests(suffix) :
    rest # <<>> => IsAnswer(m[n][rest][t], t, rest, n)
LEMMA MatchIsExact ==
  ASSUME NEW suffix \in Text, suffix # <<>>, NEW tree, NEW depth \in Nat, depth > 0
  PROVE  IsAnswer(Env!MatchSuffixToTree(suffix, tree, depth), tree, suffix, depth)
<1>1. PICK m : IsMatching(m, suffix, tree, depth)
               /\ Env!MatchSuffixToTree(suffix, tree, depth) = m[depth][suffix][tree]
  BY MatchIs
<1> DEFINE Good == {n \in 0..depth : n = 0 \/ AllAnswers(m, suffix, tree, depth, n)}
<1>2. ASSUME NEW n \in 1..depth
      PROVE  /\ n \in 0..depth /\ n > 0 /\ m[n] = Table(suffix, tree, depth, n, m[n - 1])
             /\ \A t \in Env!Depths(tree, depth)[depth - n] : \A rest \in Rests(suffix) :
                  m[n][rest][t] = Env!Match(rest, t, n, m[n - 1])
  <2>1. n \in 0..depth /\ n > 0 OBVIOUS
  <2>2. m[n] = Table(suffix, tree, depth, n, m[n - 1]) BY <1>1, <2>1 DEF IsMatching
  <2>3. \A t \in Env!Depths(tree, depth)[depth - n] : \A rest \in Rests(suffix) :
          m[n][rest][t] = Env!Match(rest, t, n, m[n - 1])
    <3>1. SUFFICES ASSUME NEW t \in Env!Depths(tree, depth)[depth - n], NEW rest \in Rests(suffix)
                   PROVE  m[n][rest][t] = Env!Match(rest, t, n, m[n - 1])
      OBVIOUS
    <3> DEFINE below == m[n - 1]
    <3>. HIDE DEF below
    <3>2. Table(suffix, tree, depth, n, below)[rest][t] = Env!Match(rest, t, n, below)
      BY DEF Table
    <3>. QED BY <2>2, <3>2 DEF below
  <2>. QED BY <2>1, <2>2, <2>3
<1>3. ASSUME NEW n \in 0..depth, n > 0, n - 1 \in Good PROVE n \in Good
  <2>1. n \in 1..depth /\ n \in Nat BY <1>3
  <2>2. ASSUME NEW t \in Env!Depths(tree, depth)[depth - n], NEW rest \in Rests(suffix), rest # <<>>
        PROVE  IsAnswer(m[n][rest][t], t, rest, n)
    <3>1. rest \in Text BY RestsAre
    <3>2. AreAnswers(m[n - 1], rest, t, n)
      <4>1. SUFFICES ASSUME NEW i \in Env!Splits(rest, t, n)
                     PROVE  IsAnswer(Below(m[n - 1], rest, t, i), t.of[Until(rest, i)],
                                     After(rest, i), n - 1)
        BY DEF AreAnswers
      <4>2. /\ n > 1 /\ i \in 2..(Len(rest) - 1) /\ rest[i] = Env!Under
            /\ Until(rest, i) \in Env!Names(t)
        BY DEF Env!Splits, Until
      <4>3. After(rest, i) \in Rests(suffix) /\ After(rest, i) # <<>> BY <4>2, RestsGoOn
      <4>4. t.of[Until(rest, i)] \in Env!Depths(tree, depth)[depth - (n - 1)]
        BY <2>1, <4>2, DepthsGoOn
      <4>5. n - 1 # 0 BY <2>1, <4>2
      <4>6. AllAnswers(m, suffix, tree, depth, n - 1) BY <1>3, <4>5
      <4>. QED BY <4>3, <4>4, <4>6 DEF AllAnswers, Below
    <3>3. IsAnswer(Env!Match(rest, t, n, m[n - 1]), t, rest, n)
      BY <1>3, <2>1, <2>2, <3>1, <3>2, MatchAnswers
    <3>4. m[n][rest][t] = Env!Match(rest, t, n, m[n - 1]) BY <1>2, <2>1
    <3>. QED BY <3>3, <3>4
  <2>3. AllAnswers(m, suffix, tree, depth, n) BY <2>2 DEF AllAnswers
  <2>. QED BY <2>3
<1>4. AllAnswers(m, suffix, tree, depth, depth)
  <2>1. 0 \in Good /\ depth \in 0..depth /\ depth # 0 OBVIOUS
  <2>2. \A n \in 0..depth : n > 0 /\ n - 1 \in Good => n \in Good BY <1>3
  <2>3. \A n \in 0..depth : n \in Good
    <3>. HIDE DEF Good
    <3>. QED BY <2>1, <2>2, Upwards
  <2>. QED BY <2>1, <2>3
<1>5. tree \in Env!Depths(tree, depth)[depth - depth]
  <2>1. depth - depth = 0 OBVIOUS
  <2>2. tree \in Env!Depths(tree, depth)[0] BY TreesBelowAre
  <2>. QED BY <2>1, <2>2
<1>6. IsAnswer(m[depth][suffix][tree], tree, suffix, depth) BY <1>4, <1>5, RestsAre DEF AllAnswers
<1>. QED BY <1>1, <1>6

(* In auto style, the key found is one of the namespace's, spelled so.       *)
LEMMA AutoIsExact ==
  ASSUME NEW tree, tree # Missing, NEW depth \in Nat, NEW key, HasNames(key),
         key \in Env!KeysWithin(tree, depth)
  PROVE  LET found == Env!ResolveEnvSuffix(Env!Written(key), "auto", tree, depth)
         IN found \in Env!KeysWithin(tree, depth) /\ Env!Written(found) = Env!Written(key)
<1> DEFINE suffix == Env!Written(key)
           match == Env!MatchSuffixToTree(suffix, tree, depth)
           found == Env!ResolveEnvSuffix(suffix, "auto", tree, depth)
<1>1. Len(key) \in 1..depth /\ Conf!Holds(tree, key)
  <2>1. key \in Conf!KeysWithin(tree, depth) BY SameTrees
  <2>. QED BY <2>1, KeysWithinAre
<1>2. depth > 0 /\ Len(key) > 0 BY <1>1
<1>3. suffix \in Text /\ suffix # <<>>
  <2>1. suffix \in Text /\ Len(suffix) > 0 BY <1>2, WrittenFrom
  <2>2. Len(suffix) # 0 BY <2>1
  <2>. QED BY <2>1, <2>2
<1>4. Fits(tree, key, depth, suffix) BY <1>1 DEF Fits
<1>. HIDE DEF suffix
<1>5. IsAnswer(match, tree, suffix, depth) BY <1>2, <1>3, MatchIsExact
<1>. HIDE DEF match
<1>6. match # <<>> /\ Fits(tree, match, depth, suffix) BY <1>4, <1>5 DEF IsAnswer
<1>7. found = match
  <2>1. found = Env!AutoKey(suffix, tree, depth) BY DEF Env!ResolveEnvSuffix
  <2>2. Env!AutoKey(suffix, tree, depth) = match BY <1>6 DEF Env!AutoKey, match
  <2>. QED BY <2>1, <2>2
<1>8. match \in Env!KeysWithin(tree, depth)
  <2>1. IsKey(match) /\ Len(match) \in 1..depth /\ Conf!Holds(tree, match)
    BY <1>6, SeqIsKey DEF Fits, HasNames
  <2>2. match \in Conf!KeysWithin(tree, depth) BY <2>1, KeysWithinAre
  <2>. QED BY <2>2, SameTrees
<1>9. Env!Written(match) = suffix BY <1>6 DEF Fits
<1>. HIDE DEF found
<1>10. found \in Env!KeysWithin(tree, depth) /\ Env!Written(found) = suffix BY <1>7, <1>8, <1>9
<1>. QED BY <1>10 DEF found, suffix

(* The keys of a namespace are what the lemmas are about.                    *)
LEMMA NamesAre ==
  ASSUME NEW space \in Namespaces, NEW key \in Env!KeysWithin(space.defaults, space.depth)
  PROVE  space.defaults # Missing /\ space.depth \in Nat /\ HasNames(key)
         /\ Len(key) \in 1..space.depth
<1>1. /\ space.defaults # Missing /\ space.depth \in Nat
      /\ \A n \in DOMAIN key : key[n] \in Seq(STRING) /\ key[n] # <<>>
  BY NamesAssumption
<1>2. IsKey(key) /\ Len(key) \in 1..space.depth
  <2>1. key \in Conf!KeysWithin(space.defaults, space.depth) BY SameTrees
  <2>. QED BY <1>1, <2>1, KeysWithinAre
<1>3. \A name \in Seq(STRING) : name \in Text BY DEF Text, Letter
<1>4. Len(key) \in Nat /\ DOMAIN key = 1..Len(key) /\ key = [n \in 1..Len(key) |-> key[n]]
  BY <1>2 DEF IsKey
<1>5. key \in Seq(Text)
  <2> DEFINE last == Len(key)
  <2>1. \A n \in 1..last : key[n] \in Text BY <1>1, <1>3, <1>4
  <2>2. last \in Nat /\ key = [n \in 1..last |-> key[n]] BY <1>4
  <2>. HIDE DEF last
  <2>3. key \in [1..last -> Text] BY <2>1, <2>2
  <2>. QED BY <2>2, <2>3
<1>6. HasNames(key) BY <1>1, <1>4, <1>5 DEF HasNames
<1>. QED BY <1>1, <1>2, <1>6

(* Whatever the namespaces, every key that one has can be set from the       *)
(* environment: the nested style reads back each key whose names do not      *)
(* begin with an underscore, and the auto style finds a key of the namespace *)
(* that is spelled as the variable is.                                       *)
THEOREM AllKeysCanBeSet == RequestsSpec => []KeysCanBeSet
<1>1. RequestsInv => KeysCanBeSet
  <2>1. SUFFICES ASSUME RequestsInv, NEW space \in sought
                 PROVE  Env!KeysCanBeSet(space.defaults, space.depth)
    BY DEF KeysCanBeSet
  <2>2. space \in Namespaces BY <2>1 DEF RequestsInv
  <2>3. SUFFICES ASSUME NEW key \in Env!KeysWithin(space.defaults, space.depth)
                 PROVE  /\ (\A i \in DOMAIN key : key[i][1] # Env!Under) =>
                             Env!ResolveEnvSuffix(
                               Env!Written([i \in DOMAIN key |-> Env!Doubled(key[i])]), "nested",
                               space.defaults, space.depth) = key
                        /\ LET found == Env!ResolveEnvSuffix(Env!Written(key), "auto",
                                                            space.defaults, space.depth)
                           IN /\ found \in Env!KeysWithin(space.defaults, space.depth)
                              /\ Env!Written(found) = Env!Written(key)
    BY DEF Env!KeysCanBeSet
  <2>4. /\ space.defaults # Missing /\ space.depth \in Nat /\ HasNames(key)
        /\ Len(key) \in 1..space.depth
    BY <2>2, NamesAre
  <2>. QED BY <2>4, NestedIsExact, AutoIsExact
<1>. QED BY <1>1, RequestsInvariant, PTL
=============================================================================
