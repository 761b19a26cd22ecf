--------------------------- MODULE NotesCodecProofs ---------------------------
(* What the operators of NotesCodec do with notes of any length.           *)
EXTENDS NotesCodec, Induction, SequenceTheorems

------------------------------------------------------------------------------
(* The segments that are selected.                                         *)

Segment == [kind : {"text", "env", "start"}, v : Nat]

(***************************************************************************)
(* The first k elements of s that stand at the positions P: f is the       *)
(* function that Selected computes.                                        *)
(***************************************************************************)
Prefixes(f, s, P, n) ==
  f = [k \in 0 .. n |-> IF k = 0 THEN <<>>
                        ELSE IF k \in P THEN Append(f[k - 1], s[k]) ELSE f[k - 1]]

LEMMA PrefixesExist ==
  ASSUME NEW s, NEW P, NEW n \in Nat
  PROVE  \E f : Prefixes(f, s, P, n)
<1> DEFINE S == {m \in Nat : \E f : Prefixes(f, s, P, m)}
<1>1. 0 \in S
  <2>1. Prefixes([k \in 0 .. 0 |-> <<>>], s, P, 0)
    BY DEF Prefixes
  <2>2. QED
    BY <2>1
<1>2. ASSUME NEW m \in S
      PROVE  m + 1 \in S
  <2>1. PICK f : Prefixes(f, s, P, m)
    OBVIOUS
  <2>2. DOMAIN f = 0 .. m
    BY <2>1 DEF Prefixes
  <2>3. \A k \in 0 .. m : f[k] = IF k = 0 THEN <<>>
                                 ELSE IF k \in P THEN Append(f[k - 1], s[k]) ELSE f[k - 1]
    BY <2>1 DEF Prefixes
  <2> DEFINE new == IF m + 1 \in P THEN Append(f[m], s[m + 1]) ELSE f[m]
             g   == [k \in 0 .. m + 1 |-> IF k = m + 1 THEN new ELSE f[k]]
  <2>4. \A k \in 0 .. m : g[k] = f[k] /\ k \in 0 .. m + 1 /\ k # m + 1
    OBVIOUS
  <2>5. g[m + 1] = new /\ m + 1 \in 0 .. m + 1 /\ m \in 0 .. m
    OBVIOUS
  <2>6. ASSUME NEW k \in 0 .. m + 1
        PROVE  g[k] = IF k = 0 THEN <<>>
                      ELSE IF k \in P THEN Append(g[k - 1], s[k]) ELSE g[k - 1]
    <3>1. CASE k = m + 1
      <4>1. k # 0 /\ k - 1 = m
        BY <3>1
      <4>2. QED
        BY <2>4, <2>5, <3>1, <4>1
    <3>2. CASE k = 0
      BY <2>3, <2>4, <3>2
    <3>3. CASE k \in 1 .. m
      <4>1. k - 1 \in 0 .. m /\ k \in 0 .. m /\ k # 0
        BY <3>3
      <4>2. QED
        BY <2>3, <2>4, <4>1
    <3>4. QED
      BY <3>1, <3>2, <3>3
  <2>7. g = [k \in 0 .. m + 1 |-> IF k = 0 THEN <<>>
                ELSE IF k \in P THEN Append(g[k - 1], s[k]) ELSE g[k - 1]]
    <3>1. g = [k \in 0 .. m + 1 |-> g[k]]
      OBVIOUS
    <3> HIDE DEF g
    <3>2. QED
      BY <2>6, <3>1
  <2>8. Prefixes(g, s, P, m + 1)
    <3> HIDE DEF g
    <3>1. QED
      BY <2>7 DEF Prefixes
  <2>9. QED
    BY <2>8
<1>3. QED
  <2> HIDE DEF S
  <2>1. S \in SUBSET Nat
    BY DEF S
  <2>2. n \in S
    BY <1>1, <1>2, <2>1, SetInduction
  <2>3. QED
    BY <2>2 DEF S

\* Two sequences that agree as far as n have the same prefixes.
LEMMA PrefixesAgree ==
  ASSUME NEW s, NEW t, NEW P, NEW Q, NEW m \in Nat, NEW n \in Nat, NEW f, NEW g,
         Prefixes(f, s, P, m), Prefixes(g, t, Q, n),
         NEW l \in 0 .. m, l <= n,
         \A k \in 1 .. l : s[k] = t[k] /\ (k \in P <=> k \in Q)
  PROVE  f[l] = g[l]
<1> DEFINE S == {k \in Nat : k <= l => f[k] = g[k]}
<1>1. /\ \A k \in 0 .. m : f[k] = IF k = 0 THEN <<>>
                                  ELSE IF k \in P THEN Append(f[k - 1], s[k]) ELSE f[k - 1]
      /\ \A k \in 0 .. n : g[k] = IF k = 0 THEN <<>>
                                  ELSE IF k \in Q THEN Append(g[k - 1], t[k]) ELSE g[k - 1]
  BY DEF Prefixes
<1>2. 0 \in S
  BY <1>1
<1>3. ASSUME NEW k \in S
      PROVE  k + 1 \in S
  <2> SUFFICES ASSUME k + 1 <= l PROVE f[k + 1] = g[k + 1]
    OBVIOUS
  <2>1. /\ k + 1 \in 0 .. m /\ k + 1 \in 0 .. n /\ k + 1 \in 1 .. l /\ k + 1 # 0
        /\ (k + 1) - 1 = k
    OBVIOUS
  <2>2. f[k] = g[k]
    OBVIOUS
  <2>3. QED
    BY <1>1, <2>1, <2>2
<1>4. QED
  <2> HIDE DEF S
  <2>1. S \in SUBSET Nat
    BY DEF S
  <2>2. l \in Nat /\ l \in S
    BY <1>2, <1>3, <2>1, SetInduction
  <2>3. QED
    BY <2>2 DEF S

\* The recursion of Selected has a solution, and it is the only one.
LEMMA SelectedIs ==
  ASSUME NEW s, NEW P, NEW n \in Nat, Len(s) = n, NEW f, Prefixes(f, s, P, n)
  PROVE  Selected(s, P) = f[n]
<1>1. PICK g : g = CHOOSE h : Prefixes(h, s, P, n)
  OBVIOUS
<1>2. Prefixes(g, s, P, n)
  BY <1>1
<1>3. Selected(s, P) = g[n]
  BY <1>1 DEF Selected, Prefixes
<1>4. QED
  BY <1>2, <1>3, PrefixesAgree

LEMMA SelectedByPrefixes ==
  ASSUME NEW S, NEW s \in Seq(S), NEW P
  PROVE  \E f : Prefixes(f, s, P, Len(s)) /\ Selected(s, P) = f[Len(s)]
<1>1. Len(s) \in Nat
  OBVIOUS
<1>2. PICK f : Prefixes(f, s, P, Len(s))
  BY <1>1, PrefixesExist
<1>3. QED
  BY <1>1, <1>2, SelectedIs

LEMMA SelectedAgree ==
  ASSUME NEW S, NEW s \in Seq(S), NEW P, NEW Q, \A k \in DOMAIN s : k \in P <=> k \in Q
  PROVE  Selected(s, P) = Selected(s, Q)
<1>1. PICK n \in Nat : n = Len(s) /\ DOMAIN s = 1 .. n
  OBVIOUS
<1>2. PICK f : Prefixes(f, s, P, n) /\ Selected(s, P) = f[n]
  BY <1>1, SelectedByPrefixes
<1>3. PICK g : Prefixes(g, s, Q, n) /\ Selected(s, Q) = g[n]
  BY <1>1, SelectedByPrefixes
<1>4. \A k \in 1 .. n : s[k] = s[k] /\ (k \in P <=> k \in Q)
  BY <1>1
<1>5. n \in 0 .. n /\ n <= n
  OBVIOUS
<1>6. f[n] = g[n]
  BY <1>2, <1>3, <1>4, <1>5, PrefixesAgree
<1>7. QED
  BY <1>2, <1>3, <1>6

LEMMA SelectedAppend ==
  ASSUME NEW S, NEW s \in Seq(S), NEW x \in S, NEW P
  PROVE  Selected(Append(s, x), P) = IF Len(s) + 1 \in P THEN Append(Selected(s, P), x)
                                                         ELSE Selected(s, P)
<1>1. PICK n \in Nat : n = Len(s)
  OBVIOUS
<1>2. PICK t : t = Append(s, x) /\ t \in Seq(S)
  BY AppendProperties
<1>3. Len(t) = n + 1 /\ t[n + 1] = x /\ \A k \in 1 .. n : t[k] = s[k]
  BY <1>1, <1>2
<1>4. PICK f : Prefixes(f, s, P, n) /\ Selected(s, P) = f[n]
  BY <1>1, SelectedByPrefixes
<1>5. PICK g : Prefixes(g, t, P, n + 1) /\ Selected(t, P) = g[n + 1]
  <2>1. \E g : Prefixes(g, t, P, Len(t)) /\ Selected(t, P) = g[Len(t)]
    BY <1>2, SelectedByPrefixes
  <2>2. QED
    BY <1>3, <2>1
<1>6. f[n] = g[n]
  <2>1. n \in 0 .. n /\ n <= n + 1 /\ n + 1 \in Nat
    OBVIOUS
  <2>2. \A k \in 1 .. n : s[k] = t[k] /\ (k \in P <=> k \in P)
    BY <1>3
  <2>3. Prefixes(f, s, P, n) /\ Prefixes(g, t, P, n + 1)
    BY <1>4, <1>5
  <2> HIDE <1>1, <1>2, <1>3, <1>4, <1>5
  <2>4. QED
    BY ONLY <2>1, <2>2, <2>3, PrefixesAgree
<1>7. g[n + 1] = IF n + 1 \in P THEN Append(g[n], x) ELSE g[n]
  <2>1. \A k \in 0 .. n + 1 : g[k] = IF k = 0 THEN <<>>
                                     ELSE IF k \in P THEN Append(g[k - 1], t[k]) ELSE g[k - 1]
    BY <1>5 DEF Prefixes
  <2>2. n + 1 \in 0 .. n + 1 /\ n + 1 # 0 /\ (n + 1) - 1 = n
    OBVIOUS
  <2>3. QED
    BY <1>3, <2>1, <2>2
<1>8. QED
  BY <1>1, <1>2, <1>4, <1>5, <1>6, <1>7

\* What holds of the empty sequence and is kept when a selected element is added
\* holds of the selection: here, that it is made of the elements selected.
LEMMA SelectedElements ==
  ASSUME NEW S, NEW s \in Seq(S), NEW P
  PROVE  /\ Selected(s, P) \in Seq(S)
         /\ \A j \in DOMAIN Selected(s, P) :
              \E k \in DOMAIN s : k \in P /\ Selected(s, P)[j] = s[k]
<1>1. PICK n \in Nat : n = Len(s)
  OBVIOUS
<1>2. PICK f : Prefixes(f, s, P, n) /\ Selected(s, P) = f[n]
  BY <1>1, SelectedByPrefixes
<1>3. \A k \in 0 .. n : f[k] = IF k = 0 THEN <<>>
                               ELSE IF k \in P THEN Append(f[k - 1], s[k]) ELSE f[k - 1]
  BY <1>2 DEF Prefixes
<1> DEFINE T == {m \in Nat : m <= n => /\ f[m] \in Seq(S)
                                       /\ \A j \in DOMAIN f[m] :
                                            \E k \in DOMAIN s : k \in P /\ f[m][j] = s[k]}
<1>4. 0 \in T
  <2>1. f[0] = <<>>
    BY <1>3
  <2>2. <<>> \in Seq(S) /\ DOMAIN <<>> = {}
    OBVIOUS
  <2>3. QED
    BY <2>1, <2>2
<1>5. ASSUME NEW m \in T
      PROVE  m + 1 \in T
  <2> SUFFICES ASSUME m + 1 <= n
               PROVE  /\ f[m + 1] \in Seq(S)
                      /\ \A j \in DOMAIN f[m + 1] :
                           \E k \in DOMAIN s : k \in P /\ f[m + 1][j] = s[k]
    OBVIOUS
  <2>1. /\ f[m] \in Seq(S)
        /\ \A j \in DOMAIN f[m] : \E k \in DOMAIN s : k \in P /\ f[m][j] = s[k]
    OBVIOUS
  <2>2. m + 1 \in 0 .. n /\ m + 1 # 0 /\ (m + 1) - 1 = m
    OBVIOUS
  <2>3. f[m + 1] = IF m + 1 \in P THEN Append(f[m], s[m + 1]) ELSE f[m]
    BY <1>3, <2>2
  <2>4. m + 1 \in DOMAIN s /\ s[m + 1] \in S
    BY <1>1, <2>2
  <2>5. CASE m + 1 \in P
    <3>1. PICK u \in Seq(S) : u = f[m]
      BY <2>1
    <3>2. PICK x \in S : x = s[m + 1]
      BY <2>4
    <3>3. f[m + 1] = Append(u, x)
      BY <2>3, <2>5, <3>1, <3>2
    <3>4. ASSUME NEW j \in DOMAIN Append(u, x)
          PROVE  \E k \in DOMAIN s : k \in P /\ Append(u, x)[j] = s[k]
      <4>1. CASE j = Len(u) + 1
        BY <2>4, <2>5, <3>2, <4>1
      <4>2. CASE j \in DOMAIN u
        BY <2>1, <3>1, <4>2
      <4>3. QED
        BY <4>1, <4>2
    <3>5. QED
      BY <3>3, <3>4
  <2>6. CASE m + 1 \notin P
    BY <2>1, <2>3, <2>6
  <2>7. QED
    BY <2>5, <2>6
<1>6. QED
  <2> HIDE DEF T
  <2>1. T \in SUBSET Nat
    BY DEF T
  <2>2. n \in T
    BY <1>4, <1>5, <2>1, SetInduction
  <2>3. QED
    BY <1>2, <2>2 DEF T

------------------------------------------------------------------------------
(* The user's text.                                                        *)

LEMMA TextsOfNothing == Texts(<<>>) = <<>>
<1>1. <<>> \in Seq(Segment) /\ Len(<<>>) = 0
  OBVIOUS
<1>2. PICK f : Prefixes(f, <<>>, {k \in DOMAIN <<>> : IsText(<<>>[k])}, 0)
               /\ Texts(<<>>) = f[0]
  BY <1>1, SelectedByPrefixes DEF Texts
<1>3. QED
  BY <1>2 DEF Prefixes

LEMMA TextsAppend ==
  ASSUME NEW s \in Seq(Segment), NEW x \in Segment
  PROVE  Texts(Append(s, x)) = IF IsText(x) THEN Append(Texts(s), x) ELSE Texts(s)
<1>1. PICK t : t = Append(s, x) /\ t \in Seq(Segment)
  BY AppendProperties
<1> DEFINE P == {k \in DOMAIN t : IsText(t[k])}
           Q == {k \in DOMAIN s : IsText(s[k])}
<1>2. Selected(t, P) = IF Len(s) + 1 \in P THEN Append(Selected(s, P), x) ELSE Selected(s, P)
  BY <1>1, SelectedAppend
<1>3. \A k \in DOMAIN s : k \in P <=> k \in Q
  BY <1>1
<1>4. Selected(s, P) = Selected(s, Q)
  BY <1>3, SelectedAgree
<1>5. Len(s) + 1 \in P <=> IsText(x)
  BY <1>1
<1>6. Texts(t) = Selected(t, P) /\ Texts(s) = Selected(s, Q)
  BY DEF Texts
<1>7. QED
  BY <1>1, <1>2, <1>4, <1>5, <1>6

\* The texts of a selection are the texts that are selected.
LEMMA TextsOfSelected ==
  ASSUME NEW s \in Seq(Segment), NEW P
  PROVE  Texts(Selected(s, P)) = Selected(s, {k \in DOMAIN s : k \in P /\ IsText(s[k])})
<1> DEFINE Q == {k \in DOMAIN s : k \in P /\ IsText(s[k])}
<1>1. PICK n \in Nat : n = Len(s)
  OBVIOUS
<1>2. PICK f : Prefixes(f, s, P, n) /\ Selected(s, P) = f[n]
  BY <1>1, SelectedByPrefixes
<1>3. PICK g : Prefixes(g, s, Q, n) /\ Selected(s, Q) = g[n]
  BY <1>1, SelectedByPrefixes
<1>4. /\ \A k \in 0 .. n : f[k] = IF k = 0 THEN <<>>
                                  ELSE IF k \in P THEN Append(f[k - 1], s[k]) ELSE f[k - 1]
      /\ \A k \in 0 .. n : g[k] = IF k = 0 THEN <<>>
                                  ELSE IF k \in Q THEN Append(g[k - 1], s[k]) ELSE g[k - 1]
  BY <1>2, <1>3 DEF Prefixes
<1> DEFINE T == {m \in Nat : m <= n => f[m] \in Seq(Segment) /\ Texts(f[m]) = g[m]}
<1>5. 0 \in T
  <2>1. f[0] = <<>> /\ g[0] = <<>>
    BY <1>4
  <2>2. Texts(f[0]) = g[0]
    BY <2>1, TextsOfNothing
  <2>3. <<>> \in Seq(Segment)
    OBVIOUS
  <2>4. QED
    BY <2>1, <2>2, <2>3
<1>6. ASSUME NEW m \in T
      PROVE  m + 1 \in T
  <2> SUFFICES ASSUME m + 1 <= n
               PROVE  f[m + 1] \in Seq(Segment) /\ Texts(f[m + 1]) = g[m + 1]
    OBVIOUS
  <2>1. f[m] \in Seq(Segment) /\ Texts(f[m]) = g[m]
    OBVIOUS
  <2>2. m + 1 \in 0 .. n /\ m + 1 # 0 /\ (m + 1) - 1 = m
    OBVIOUS
  <2>3. /\ f[m + 1] = IF m + 1 \in P THEN Append(f[m], s[m + 1]) ELSE f[m]
        /\ g[m + 1] = IF m + 1 \in Q THEN Append(g[m], s[m + 1]) ELSE g[m]
    BY <1>4, <2>2
  <2>4. m + 1 \in DOMAIN s /\ s[m + 1] \in Segment
    BY <1>1, <2>2
  <2>5. CASE m + 1 \in P
    <3>1. f[m + 1] = Append(f[m], s[m + 1]) /\ f[m + 1] \in Seq(Segment)
      BY <2>1, <2>3, <2>4, <2>5
    <3>2. Texts(f[m + 1]) = IF IsText(s[m + 1]) THEN Append(Texts(f[m]), s[m + 1])
                                                ELSE Texts(f[m])
      BY <2>1, <2>4, <3>1, TextsAppend
    <3>3. m + 1 \in Q <=> IsText(s[m + 1])
      BY <2>4, <2>5
    <3>4. QED
      BY <2>1, <2>3, <3>1, <3>2, <3>3
  <2>6. CASE m + 1 \notin P
    BY <2>1, <2>3, <2>6
  <2>7. QED
    BY <2>5, <2>6
<1>7. QED
  <2> HIDE DEF T
  <2>1. T \in SUBSET Nat
    BY DEF T
  <2>2. n \in T
    BY <1>5, <1>6, <2>1, SetInduction
  <2>3. Texts(f[n]) = g[n]
    BY <2>2 DEF T
  <2>4. QED
    BY <1>2, <1>3, <2>3

------------------------------------------------------------------------------
(* The envelope.                                                           *)

\* Notes as they come about: no envelope is above one that was cut off.
Ordered(notes) ==
  \A j, k \in DOMAIN notes : j < k /\ notes[j].kind = "env" => notes[k].kind # "start"

Notes == {notes \in Seq(Segment) : Ordered(notes)}

NoneCutOff(notes) == \A k \in DOMAIN notes : notes[k].kind # "start"

\* An envelope that parse finds is not below one that was cut off.
LEMMA ParsedIsWhole ==
  ASSUME NEW notes \in Notes, Parse(notes) # NoId
  PROVE  NoneCutOff(notes)
<1> DEFINE starts == {k \in DOMAIN notes : ~IsText(notes[k])}
           first  == CHOOSE k \in starts : \A j \in starts : k <= j
<1>1. notes \in Seq(Segment) /\ DOMAIN notes \subseteq Nat
  BY DEF Notes
<1>2. starts # {} /\ notes[first].kind = "env"
  BY DEF Parse
<1>3. first \in starts /\ \A j \in starts : first <= j
  <2>1. \E k \in starts : \A j \in starts : k <= j
    <3>1. starts \in SUBSET Nat
      BY <1>1
    <3> HIDE DEF starts
    <3>2. QED
      BY <1>2, <3>1, LeastElement
  <2>2. QED
    BY <2>1
<1>4. ASSUME NEW k \in DOMAIN notes, notes[k].kind = "start"
      PROVE  FALSE
  <2>1. k \in starts
    BY <1>4 DEF IsText
  <2>2. first < k
    BY <1>1, <1>2, <1>3, <1>4, <2>1
  <2>3. QED
    BY <1>2, <1>3, <1>4, <2>2 DEF Notes, Ordered
<1>5. QED
  BY <1>4 DEF NoneCutOff

\* What is left is ordered, has no envelope, and nothing new.
LEMMA UserNotesTyped ==
  ASSUME NEW notes \in Notes
  PROVE  /\ UserNotes(notes) \in Notes
         /\ \A k \in DOMAIN UserNotes(notes) : UserNotes(notes)[k].kind # "env"
         /\ NoneCutOff(notes) => NoneCutOff(UserNotes(notes))
<1> DEFINE P == {k \in DOMAIN notes : ~InEnvelope(notes, k)}
<1>1. notes \in Seq(Segment)
  BY DEF Notes
<1>2. UserNotes(notes) = Selected(notes, P)
  BY DEF UserNotes
<1>3. /\ UserNotes(notes) \in Seq(Segment)
      /\ \A j \in DOMAIN UserNotes(notes) :
           \E k \in DOMAIN notes : k \in P /\ UserNotes(notes)[j] = notes[k]
  <2> HIDE DEF P
  <2>1. QED
    BY <1>1, <1>2, SelectedElements
<1>4. \A k \in P : notes[k].kind # "env"
  BY DEF InEnvelope
<1>5. \A k \in DOMAIN UserNotes(notes) : UserNotes(notes)[k].kind # "env"
  BY <1>3, <1>4
<1>6. NoneCutOff(notes) => NoneCutOff(UserNotes(notes))
  BY <1>3 DEF NoneCutOff
<1>7. QED
  BY <1>3, <1>5, <1>6 DEF Notes, Ordered

LEMMA FormatTyped ==
  ASSUME NEW notes \in Notes, NEW id \in Nat
  PROVE  Format(id, notes) \in Notes
<1>1. PICK u \in Notes : u = UserNotes(notes) /\ \A k \in DOMAIN u : u[k].kind # "env"
  BY UserNotesTyped
<1>2. u \in Seq(Segment) /\ Envelope(id) \in Segment
  BY DEF Notes, Envelope, Segment
<1>3. Append(u, Envelope(id)) \in Seq(Segment)
  BY <1>2
<1>4. ASSUME NEW j \in DOMAIN Append(u, Envelope(id)), NEW k \in DOMAIN Append(u, Envelope(id)),
             j < k
      PROVE  Append(u, Envelope(id))[j].kind # "env"
  <2>1. j \in DOMAIN u
    BY <1>2, <1>4
  <2>2. Append(u, Envelope(id))[j] = u[j]
    BY <1>2, <2>1
  <2>3. QED
    BY <1>1, <2>1, <2>2
<1>5. QED
  BY <1>1, <1>3, <1>4 DEF Format, Notes, Ordered

\* Without an envelope that was cut off the user's text is not in one.
LEMMA UserNotesKeepTexts ==
  ASSUME NEW notes \in Notes, NoneCutOff(notes)
  PROVE  Texts(UserNotes(notes)) = Texts(notes)
<1> DEFINE P == {k \in DOMAIN notes : ~InEnvelope(notes, k)}
<1>1. notes \in Seq(Segment) /\ DOMAIN notes = 1 .. Len(notes)
  BY DEF Notes
<1>2. \A k \in DOMAIN notes : IsText(notes[k]) => k \in P
  BY <1>1 DEF InEnvelope, NoneCutOff, IsText
<1>3. Texts(UserNotes(notes)) = Selected(notes, {k \in DOMAIN notes : k \in P /\ IsText(notes[k])})
  BY <1>1, TextsOfSelected DEF UserNotes
<1>4. {k \in DOMAIN notes : k \in P /\ IsText(notes[k])} = {k \in DOMAIN notes : IsText(notes[k])}
  BY <1>2
<1>5. QED
  BY <1>3, <1>4 DEF Texts

\* format keeps the user's text, whatever and however much it is, and leaves an
\* envelope that parse reads.
THEOREM FormatKeepsTexts ==
  ASSUME NEW notes \in Notes, NoneCutOff(notes), NEW id \in Nat
  PROVE  Texts(Format(id, notes)) = Texts(notes) /\ Parse(Format(id, notes)) = id
<1>1. PICK u \in Notes : /\ u = UserNotes(notes) /\ NoneCutOff(u)
                         /\ \A k \in DOMAIN u : u[k].kind # "env"
  BY UserNotesTyped
<1>2. u \in Seq(Segment) /\ Envelope(id) \in Segment
  BY DEF Notes, Envelope, Segment
<1>3. PICK f : f = Append(u, Envelope(id)) /\ f = Format(id, notes) /\ f \in Seq(Segment)
  BY <1>1, <1>2, AppendProperties DEF Format
<1>4. ~IsText(Envelope(id))
  BY DEF IsText, Envelope
<1>5. Texts(f) = Texts(u)
  BY <1>2, <1>3, <1>4, TextsAppend
<1>6. Parse(f) = id
  <2> DEFINE starts == {k \in DOMAIN f : ~IsText(f[k])}
  <2>1. PICK n \in Nat : n = Len(u)
    BY <1>2
  <2>2. DOMAIN f = 1 .. n + 1 /\ f[n + 1] = Envelope(id) /\ \A k \in 1 .. n : f[k] = u[k]
    <3>1. PICK e \in Segment : e = Envelope(id)
      BY <1>2
    <3>2. f = Append(u, e) /\ u \in Seq(Segment) /\ n = Len(u)
      BY <1>2, <1>3, <2>1, <3>1
    <3>3. /\ DOMAIN Append(u, e) = 1 .. Len(u) + 1 /\ Append(u, e)[Len(u) + 1] = e
          /\ \A k \in 1 .. Len(u) : Append(u, e)[k] = u[k]
      BY ONLY <3>1, <3>2
    <3>4. QED
      BY <3>1, <3>2, <3>3
  <2>3. \A k \in 1 .. n : u[k] \in Segment /\ u[k].kind # "env" /\ u[k].kind # "start"
    BY <1>1, <1>2, <2>1 DEF NoneCutOff
  <2>4. \A k \in 1 .. n : IsText(f[k])
    BY <2>2, <2>3 DEF IsText, Segment
  <2>5. starts = {n + 1}
    BY <1>4, <2>2, <2>4
  <2>6. (CHOOSE k \in starts : \A j \in starts : k <= j) = n + 1
    BY <2>5
  <2>7. QED
    BY <2>2, <2>5, <2>6 DEF Parse, Envelope
<1>7. QED
  BY <1>1, <1>3, <1>5, <1>6, UserNotesKeepTexts

==============================================================================
