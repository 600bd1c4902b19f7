---------------------------- MODULE SliceProofs -----------------------------
(***************************************************************************)
(* Lemmas about slices: what append, copy and a literal do to the slice    *)
(* they are given and to every other, for any arrays; and types of labels. *)
(***************************************************************************)
EXTENDS CollectorSamples, TLAPS

-----------------------------------------------------------------------------
(* Slices: what append and copy do to the slice they are given, and to     *)
(* every other.                                                            *)
Memory == Seq(Seq(Label))

Valid(m, s) == s \in Slice /\ s.array \in 1 .. Len(m) /\ s.len <= Len(m[s.array])

LEMMA BlankType == Field("zero") \in Label
<1>1. <<>> \in Seq(Nat) /\ "zero" \in FieldName
    BY DEF FieldName
<1> QED
    BY <1>1 DEF Field, Label

LEMMA ViewType ==
    ASSUME NEW m \in Memory, NEW s, Valid(m, s)
    PROVE  /\ View(m, s) \in Seq(Label) /\ Len(View(m, s)) = s.len /\ s.len \in Nat
           /\ \A i \in 1 .. s.len : View(m, s)[i] = m[s.array][i]
<1>1. m[s.array] \in Seq(Label) /\ s.len \in Nat /\ s.len <= Len(m[s.array])
    BY DEF Valid, Slice, Memory
<1> QED
    BY <1>1 DEF View

(* Two slices that read alike have one view.  *)
LEMMA ViewIs ==
    ASSUME NEW m \in Memory, NEW s, Valid(m, s), NEW xs \in Seq(Label), Len(xs) = s.len,
           \A i \in 1 .. s.len : m[s.array][i] = xs[i]
    PROVE  View(m, s) = xs
<1>1. View(m, s) \in Seq(Label) /\ Len(View(m, s)) = Len(xs)
      /\ \A i \in 1 .. Len(xs) : View(m, s)[i] = xs[i]
    BY ViewType
<1> QED
    BY <1>1

LEMMA AllocatedIs ==
    ASSUME NEW m \in Memory, NEW xs \in Seq(Label), NEW cap \in Nat, Len(xs) <= cap
    PROVE  /\ Allocated(m, xs, cap) \in Memory
           /\ Len(Allocated(m, xs, cap)) = Len(m) + 1
           /\ \A a \in 1 .. Len(m) : Allocated(m, xs, cap)[a] = m[a]
           /\ Len(Allocated(m, xs, cap)[Len(m) + 1]) = cap
           /\ \A i \in 1 .. Len(xs) : Allocated(m, xs, cap)[Len(m) + 1][i] = xs[i]
<1> DEFINE new == [i \in 1 .. cap |-> IF i <= Len(xs) THEN xs[i] ELSE Field("zero")]
<1>1. ASSUME NEW i \in 1 .. cap PROVE new[i] \in Label
  <2>1. CASE i <= Len(xs)
    <3>1. i \in 1 .. Len(xs)
      BY <2>1
    <3> QED
      BY <2>1, <3>1
  <2>2. CASE ~ i <= Len(xs)
    <3>1. new[i] = Field("zero")
      BY <2>2
    <3> QED
      BY <3>1, BlankType
  <2> QED
    BY <2>1, <2>2
<1>2. new \in Seq(Label) /\ Len(new) = cap
  <2>1. new \in [1 .. cap -> Label]
    BY <1>1
  <2> HIDE DEF new
  <2> QED
    BY <2>1
<1>3. \A i \in 1 .. Len(xs) : new[i] = xs[i]
  <2>1. \A i \in 1 .. Len(xs) : i \in 1 .. cap /\ i <= Len(xs)
    OBVIOUS
  <2> QED
    BY <2>1
<1>4. Allocated(m, xs, cap) = Append(m, new)
    BY DEF Allocated
<1> HIDE DEF new
<1> QED
    BY <1>2, <1>3, <1>4 DEF Memory

(* A slice whose array an allocation or an append leaves alone.  *)
LEMMA SameView ==
    ASSUME NEW m \in Memory, NEW m2 \in Memory, NEW t, Valid(m, t), Len(m) <= Len(m2),
           Len(m2[t.array]) = Len(m[t.array]),
           \A i \in 1 .. t.len : m2[t.array][i] = m[t.array][i]
    PROVE  Valid(m2, t) /\ View(m2, t) = View(m, t)
<1>1. Valid(m2, t)
    BY DEF Valid, Slice, Memory
<1>2. View(m, t) \in Seq(Label) /\ Len(View(m, t)) = t.len
      /\ \A i \in 1 .. t.len : m2[t.array][i] = View(m, t)[i]
    BY ViewType
<1> QED
    BY <1>1, <1>2, ViewIs

LEMMA AllocatedKeeps ==
    ASSUME NEW m \in Memory, NEW xs \in Seq(Label), NEW cap \in Nat, Len(xs) <= cap,
           NEW t, Valid(m, t)
    PROVE  Valid(Allocated(m, xs, cap), t) /\ View(Allocated(m, xs, cap), t) = View(m, t)
<1>1. t.array \in 1 .. Len(m) /\ Len(m) \in Nat
    BY DEF Valid, Memory
<1> DEFINE m2 == Allocated(m, xs, cap)
<1>2. m2 \in Memory /\ Len(m2) = Len(m) + 1 /\ m2[t.array] = m[t.array]
    BY <1>1, AllocatedIs
<1> HIDE DEF m2
<1>3. /\ Len(m) <= Len(m2) /\ Len(m2[t.array]) = Len(m[t.array])
      /\ \A i \in 1 .. t.len : m2[t.array][i] = m[t.array][i]
    BY <1>1, <1>2
<1>4. Valid(m2, t) /\ View(m2, t) = View(m, t)
    BY <1>2, <1>3, SameView
<1> QED
    BY <1>4 DEF m2

(* What is read through a slice of its own array.  *)
LEMMA AllocatedReads ==
    ASSUME NEW m \in Memory, NEW xs \in Seq(Label), NEW cap \in Nat, Len(xs) <= cap
    PROVE  /\ Valid(Allocated(m, xs, cap), Whole(Len(m) + 1, Len(xs)))
           /\ View(Allocated(m, xs, cap), Whole(Len(m) + 1, Len(xs))) = xs
<1>0. Len(m) \in Nat /\ Len(xs) \in Nat
    BY DEF Memory
<1> DEFINE s == Whole(Len(m) + 1, Len(xs))
<1>1. s \in Slice /\ s.array = Len(m) + 1 /\ s.len = Len(xs)
    BY <1>0 DEF Whole, Slice
<1>2. Valid(Allocated(m, xs, cap), s)
    BY <1>0, <1>1, AllocatedIs DEF Valid
<1> HIDE DEF s
<1>3. View(Allocated(m, xs, cap), s) = xs
    BY <1>0, <1>1, <1>2, AllocatedIs, ViewIs
<1> QED
    BY <1>2, <1>3 DEF s

LEMMA GrownFits ==
    ASSUME NEW m \in Memory, NEW s, Valid(m, s), NEW xs \in Seq(Label)
    PROVE  Grown(m, s, xs) \in Nat /\ s.len + Len(xs) <= Grown(m, s, xs)
<1>1. s.len \in Nat /\ Len(m[s.array]) \in Nat /\ Len(xs) \in Nat
    BY DEF Valid, Slice, Memory
<1> QED
    BY <1>1 DEF Grown

(* append in place: the array past the slice's end, and nothing else.  *)
LEMMA InPlace ==
    ASSUME NEW m \in Memory, NEW s, Valid(m, s), NEW xs \in Seq(Label), Fits(m, s, xs)
    PROVE  LET m2 == AppendMem(m, s, xs)
           IN  /\ m2 \in Memory /\ Len(m2) = Len(m)
               /\ \A a \in 1 .. Len(m) \ {s.array} : m2[a] = m[a]
               /\ Len(m2[s.array]) = Len(m[s.array])
               /\ \A i \in 1 .. s.len : m2[s.array][i] = m[s.array][i]
               /\ \A i \in 1 .. Len(xs) : m2[s.array][s.len + i] = xs[i]
<1> DEFINE old == m[s.array]
           new == [i \in 1 .. Len(old) |->
                      IF i \in s.len + 1 .. s.len + Len(xs) THEN xs[i - s.len] ELSE old[i]]
<1>1. /\ s.array \in 1 .. Len(m) /\ s.len \in Nat /\ Len(xs) \in Nat
      /\ old \in Seq(Label) /\ s.len + Len(xs) <= Len(old)
    BY DEF Valid, Slice, Memory, Fits
<1>2. AppendMem(m, s, xs) = [m EXCEPT ![s.array] = new]
    BY DEF AppendMem
<1> HIDE DEF old
<1>3. \A i \in 1 .. Len(old) :
         (IF i \in s.len + 1 .. s.len + Len(xs) THEN xs[i - s.len] ELSE old[i]) \in Label
    BY <1>1
<1>4. new \in Seq(Label) /\ Len(new) = Len(old)
    BY <1>1, <1>3
<1>5. \A i \in 1 .. s.len : new[i] = old[i]
    BY <1>1
<1>6. \A i \in 1 .. Len(xs) : new[s.len + i] = xs[i]
    BY <1>1
<1> HIDE DEF new
<1>7. [m EXCEPT ![s.array] = new] \in Memory /\ Len([m EXCEPT ![s.array] = new]) = Len(m)
    BY <1>1, <1>4 DEF Memory
<1>8. [m EXCEPT ![s.array] = new][s.array] = new
      /\ \A a \in 1 .. Len(m) \ {s.array} : [m EXCEPT ![s.array] = new][a] = m[a]
    BY <1>1 DEF Memory
<1> QED
    BY <1>1, <1>2, <1>4, <1>5, <1>6, <1>7, <1>8 DEF old

(***************************************************************************)
(* append reads like the concatenation, wherever it writes.                *)
(***************************************************************************)
LEMMA AppendReads ==
    ASSUME NEW m \in Memory, NEW s, Valid(m, s), NEW xs \in Seq(Label)
    PROVE  /\ AppendMem(m, s, xs) \in Memory /\ Len(m) <= Len(AppendMem(m, s, xs))
           /\ Valid(AppendMem(m, s, xs), AppendTo(m, s, xs))
           /\ View(AppendMem(m, s, xs), AppendTo(m, s, xs)) = View(m, s) \o xs
<1>0. /\ s.len \in Nat /\ Len(xs) \in Nat /\ Len(m) \in Nat /\ s.array \in 1 .. Len(m)
      /\ View(m, s) \in Seq(Label) /\ Len(View(m, s)) = s.len
      /\ \A i \in 1 .. s.len : View(m, s)[i] = m[s.array][i]
    BY ViewType DEF Valid, Slice, Memory
<1>v. View(m, s) \o xs \in Seq(Label) /\ Len(View(m, s) \o xs) = s.len + Len(xs)
    BY <1>0
<1>1. CASE Fits(m, s, xs)
  <2> DEFINE m2 == AppendMem(m, s, xs)
             t  == Whole(s.array, s.len + Len(xs))
  <2>1. /\ m2 \in Memory /\ Len(m2) = Len(m) /\ Len(m2[s.array]) = Len(m[s.array])
        /\ \A i \in 1 .. s.len : m2[s.array][i] = m[s.array][i]
        /\ \A i \in 1 .. Len(xs) : m2[s.array][s.len + i] = xs[i]
    BY <1>1, InPlace
  <2>2. t \in Slice /\ t.array = s.array /\ t.len = s.len + Len(xs) /\ t = AppendTo(m, s, xs)
    BY <1>0, <1>1 DEF Whole, Slice, AppendTo
  <2> HIDE DEF m2, t
  <2>3. Valid(m2, t)
    BY <1>0, <1>1, <2>1, <2>2 DEF Valid, Fits
  <2>4. \A i \in 1 .. t.len : m2[t.array][i] = (View(m, s) \o xs)[i]
    <3> SUFFICES ASSUME NEW i \in 1 .. t.len PROVE m2[t.array][i] = (View(m, s) \o xs)[i]
        OBVIOUS
    <3>1. CASE i <= s.len
      <4>1. i \in 1 .. s.len
        BY <1>0, <2>2, <3>1
      <4>2. (View(m, s) \o xs)[i] = View(m, s)[i]
        BY <1>0, <2>2, <4>1
      <4> QED
        BY <1>0, <2>1, <2>2, <4>1, <4>2
    <3>2. CASE i > s.len
      <4>1. i - s.len \in 1 .. Len(xs) /\ i = s.len + (i - s.len)
        BY <1>0, <2>2, <3>2
      <4>2. m2[s.array][i] = xs[i - s.len]
        BY <2>1, <4>1
      <4> QED
        BY <1>0, <2>2, <3>2, <4>2
    <3> QED
      BY <1>0, <2>2, <3>1, <3>2
  <2>5. View(m2, t) = View(m, s) \o xs
    <3> DEFINE ys == View(m, s) \o xs
    <3>1. /\ ys \in Seq(Label) /\ Len(ys) = t.len
          /\ \A i \in 1 .. t.len : m2[t.array][i] = ys[i]
      BY <1>v, <2>2, <2>4
    <3> HIDE DEF ys
    <3>2. View(m2, t) = ys
      BY <2>1, <2>3, <3>1, ViewIs
    <3> QED
      BY <3>2 DEF ys
  <2> QED
    BY <1>0, <2>1, <2>2, <2>3, <2>5 DEF m2
<1>2. CASE ~ Fits(m, s, xs)
  <2>1. /\ AppendMem(m, s, xs) = Allocated(m, View(m, s) \o xs, Grown(m, s, xs))
        /\ AppendTo(m, s, xs) = Whole(Len(m) + 1, Len(View(m, s) \o xs))
    BY <1>v, <1>2 DEF AppendMem, AppendTo
  <2> DEFINE ys  == View(m, s) \o xs
             cap == Grown(m, s, xs)
             m2  == Allocated(m, ys, cap)
  <2>2. ys \in Seq(Label) /\ cap \in Nat /\ Len(ys) <= cap
    BY <1>v, GrownFits
  <2> HIDE DEF ys, cap
  <2>3. m2 \in Memory /\ Len(m2) = Len(m) + 1
    BY <2>2, AllocatedIs
  <2>4. /\ Valid(m2, Whole(Len(m) + 1, Len(ys)))
        /\ View(m2, Whole(Len(m) + 1, Len(ys))) = ys
    BY <2>2, AllocatedReads
  <2>5. AppendMem(m, s, xs) = m2 /\ AppendTo(m, s, xs) = Whole(Len(m) + 1, Len(ys))
    BY <2>1 DEF ys, cap
  <2>6. ys = View(m, s) \o xs
    BY DEF ys
  <2> HIDE DEF m2
  <2>7. Len(m) <= Len(m2)
    BY <1>0, <2>3
  <2> QED
    BY <2>3, <2>4, <2>5, <2>6, <2>7
<1> QED
    BY <1>1, <1>2

(***************************************************************************)
(* append changes what no slice of another array reads, and no shorter or  *)
(* equal one of the same.                                                  *)
(***************************************************************************)
LEMMA AppendKeeps ==
    ASSUME NEW m \in Memory, NEW s, Valid(m, s), NEW xs \in Seq(Label),
           NEW t, Valid(m, t), t.array # s.array \/ t.len <= s.len
    PROVE  /\ Valid(AppendMem(m, s, xs), t)
           /\ View(AppendMem(m, s, xs), t) = View(m, t)
<1>0. /\ s.len \in Nat /\ t.len \in Nat /\ Len(m) \in Nat
      /\ s.array \in 1 .. Len(m) /\ t.array \in 1 .. Len(m)
    BY DEF Valid, Slice, Memory
<1>1. CASE Fits(m, s, xs)
  <2> DEFINE m2 == AppendMem(m, s, xs)
  <2>1. /\ m2 \in Memory /\ Len(m2) = Len(m) /\ Len(m2[s.array]) = Len(m[s.array])
        /\ \A a \in 1 .. Len(m) \ {s.array} : m2[a] = m[a]
        /\ \A i \in 1 .. s.len : m2[s.array][i] = m[s.array][i]
    BY <1>1, InPlace
  <2> HIDE DEF m2
  <2>2. Len(m2[t.array]) = Len(m[t.array]) /\ \A i \in 1 .. t.len : m2[t.array][i] = m[t.array][i]
    <3>1. CASE t.array # s.array
      <4>1. m2[t.array] = m[t.array]
        BY <1>0, <2>1, <3>1
      <4> QED
        BY <4>1
    <3>2. CASE t.array = s.array
      <4>1. t.len <= s.len
        BY <3>2
      <4>2. \A i \in 1 .. t.len : i \in 1 .. s.len
        BY <1>0, <4>1
      <4> QED
        BY <2>1, <3>2, <4>2
    <3> QED
      BY <3>1, <3>2
  <2>3. Len(m) <= Len(m2)
    BY <1>0, <2>1
  <2> QED
    BY <2>1, <2>2, <2>3, SameView DEF m2
<1>2. CASE ~ Fits(m, s, xs)
  <2>0. View(m, s) \in Seq(Label) /\ Len(View(m, s)) = s.len
    BY ViewType
  <2>1. View(m, s) \o xs \in Seq(Label) /\ Len(View(m, s) \o xs) = s.len + Len(xs)
    BY <2>0
  <2>2. AppendMem(m, s, xs) = Allocated(m, View(m, s) \o xs, Grown(m, s, xs))
    BY <1>2 DEF AppendMem
  <2> DEFINE ys  == View(m, s) \o xs
             cap == Grown(m, s, xs)
  <2>3. ys \in Seq(Label) /\ cap \in Nat /\ Len(ys) <= cap
    BY <2>1, GrownFits
  <2>4. AppendMem(m, s, xs) = Allocated(m, ys, cap)
    BY <2>2
  <2> HIDE DEF ys, cap
  <2>5. Valid(Allocated(m, ys, cap), t) /\ View(Allocated(m, ys, cap), t) = View(m, t)
    BY <2>3, AllocatedKeeps
  <2> QED
    BY <2>4, <2>5
<1> QED
    BY <1>1, <1>2

-----------------------------------------------------------------------------
(* Every slice that is no longer than s, or of another array, reads in m2  *)
(* as in m.                                                                *)
Keeps(m, m2, s) ==
    /\ m2 \in Memory /\ Len(m) <= Len(m2)
    /\ \A t \in Slice :
          Valid(m, t) /\ (t.array # s.array \/ t.len <= s.len) =>
              Valid(m2, t) /\ View(m2, t) = View(m, t)

LEMMA LenType == \A m \in Memory : Len(m) \in Nat
BY DEF Memory

LEMMA AppendIs ==
    ASSUME NEW m \in Memory, NEW s, Valid(m, s), NEW xs \in Seq(Label)
    PROVE  /\ Keeps(m, AppendMem(m, s, xs), s)
           /\ AppendTo(m, s, xs) \in Slice
           /\ Valid(AppendMem(m, s, xs), AppendTo(m, s, xs))
           /\ View(AppendMem(m, s, xs), AppendTo(m, s, xs)) = View(m, s) \o xs
           /\ AppendTo(m, s, xs).array \in {s.array, Len(m) + 1}
           /\ AppendTo(m, s, xs).array <= Len(AppendMem(m, s, xs))
<1>1. /\ AppendMem(m, s, xs) \in Memory /\ Len(m) <= Len(AppendMem(m, s, xs))
      /\ Valid(AppendMem(m, s, xs), AppendTo(m, s, xs))
      /\ View(AppendMem(m, s, xs), AppendTo(m, s, xs)) = View(m, s) \o xs
    BY AppendReads
<1>2. \A t \in Slice :
          Valid(m, t) /\ (t.array # s.array \/ t.len <= s.len) =>
              /\ Valid(AppendMem(m, s, xs), t)
              /\ View(AppendMem(m, s, xs), t) = View(m, t)
    BY AppendKeeps
<1>3. AppendTo(m, s, xs).array \in {s.array, Len(m) + 1}
    BY DEF AppendTo, Whole
<1>4. /\ AppendTo(m, s, xs) \in Slice
      /\ AppendTo(m, s, xs).array \in 1 .. Len(AppendMem(m, s, xs))
    BY <1>1 DEF Valid
<1>5. Len(AppendMem(m, s, xs)) \in Nat
    BY <1>1, LenType
<1>6. AppendTo(m, s, xs).array <= Len(AppendMem(m, s, xs))
    BY <1>4, <1>5
<1> QED
    BY <1>1, <1>2, <1>3, <1>4, <1>6 DEF Keeps

LEMMA CopyIs ==
    ASSUME NEW m \in Memory, NEW s, Valid(m, s)
    PROVE  /\ Copy(m, s).mem \in Memory /\ Len(Copy(m, s).mem) = Len(m) + 1
           /\ Copy(m, s).slice \in Slice /\ Copy(m, s).slice.array = Len(m) + 1
           /\ Valid(Copy(m, s).mem, Copy(m, s).slice)
           /\ View(Copy(m, s).mem, Copy(m, s).slice) = View(m, s)
           /\ \A t \in Slice : Valid(m, t) =>
                 Valid(Copy(m, s).mem, t) /\ View(Copy(m, s).mem, t) = View(m, t)
<1> DEFINE xs == View(m, s)
<1>1. xs \in Seq(Label) /\ Len(xs) = s.len /\ s.len \in Nat
    BY ViewType
<1>2. /\ Copy(m, s).mem = Allocated(m, xs, s.len)
      /\ Copy(m, s).slice = Whole(Len(m) + 1, Len(xs))
    BY <1>1 DEF Copy
<1> HIDE DEF xs
<1>3. /\ Allocated(m, xs, s.len) \in Memory /\ Len(Allocated(m, xs, s.len)) = Len(m) + 1
      /\ Valid(Allocated(m, xs, s.len), Whole(Len(m) + 1, Len(xs)))
      /\ View(Allocated(m, xs, s.len), Whole(Len(m) + 1, Len(xs))) = xs
    BY <1>1, AllocatedIs, AllocatedReads
<1>4. ASSUME NEW t \in Slice, Valid(m, t)
      PROVE  Valid(Allocated(m, xs, s.len), t) /\ View(Allocated(m, xs, s.len), t) = View(m, t)
    BY <1>1, <1>4, AllocatedKeeps
<1>5. Whole(Len(m) + 1, Len(xs)) \in Slice
    BY <1>3 DEF Valid
<1>6. Whole(Len(m) + 1, Len(xs)).array = Len(m) + 1
    BY DEF Whole
<1> QED
    BY <1>2, <1>3, <1>4, <1>5, <1>6 DEF xs

(* A literal has an array of its own.  *)
LEMMA LiteralIs ==
    ASSUME NEW m \in Memory, NEW xs \in Seq(Label)
    PROVE  /\ Append(m, xs) \in Memory /\ Len(Append(m, xs)) = Len(m) + 1
           /\ Whole(Len(m) + 1, Len(xs)) \in Slice
           /\ Valid(Append(m, xs), Whole(Len(m) + 1, Len(xs)))
           /\ View(Append(m, xs), Whole(Len(m) + 1, Len(xs))) = xs
           /\ \A t \in Slice : Valid(m, t) =>
                 Valid(Append(m, xs), t) /\ View(Append(m, xs), t) = View(m, t)
<1>1. Len(m) \in Nat /\ Len(xs) \in Nat
    BY LenType
<1>2. /\ Append(m, xs) \in Memory /\ Len(Append(m, xs)) = Len(m) + 1
      /\ Append(m, xs)[Len(m) + 1] = xs
      /\ \A a \in 1 .. Len(m) : Append(m, xs)[a] = m[a]
    BY <1>1 DEF Memory
<1> DEFINE s == Whole(Len(m) + 1, Len(xs))
           m2 == Append(m, xs)
<1>3. s \in Slice /\ s.array = Len(m) + 1 /\ s.len = Len(xs)
    BY <1>1 DEF Whole, Slice
<1> HIDE DEF s, m2
<1>4. m2 \in Memory /\ Len(m2) = Len(m) + 1 /\ m2[Len(m) + 1] = xs
      /\ \A a \in 1 .. Len(m) : m2[a] = m[a]
    BY <1>2 DEF m2
<1>5. Valid(m2, s)
    BY <1>1, <1>3, <1>4 DEF Valid
<1>6. View(m2, s) = xs
    BY <1>1, <1>3, <1>4, <1>5, ViewIs
<1>7. ASSUME NEW t \in Slice, Valid(m, t) PROVE Valid(m2, t) /\ View(m2, t) = View(m, t)
  <2>1. t.array \in 1 .. Len(m)
    BY <1>7 DEF Valid
  <2>2. m2[t.array] = m[t.array]
    BY <1>4, <2>1
  <2>3. /\ Len(m) <= Len(m2) /\ Len(m2[t.array]) = Len(m[t.array])
        /\ \A i \in 1 .. t.len : m2[t.array][i] = m[t.array][i]
    BY <1>1, <1>4, <2>2
  <2> QED
    BY <1>4, <1>7, <2>3, SameView
<1> QED
    BY <1>3, <1>4, <1>5, <1>6, <1>7 DEF s, m2

-----------------------------------------------------------------------------
(* The labels there are.  *)
LEMMA FieldsType ==
    ASSUME NEW fs \in Seq(FieldName)
    PROVE  Fields(fs) \in Seq(Label) /\ Len(Fields(fs)) = Len(fs)
<1>1. <<>> \in Seq(Nat)
    OBVIOUS
<1>2. \A i \in 1 .. Len(fs) : Field(fs[i]) \in Label
    BY <1>1 DEF Field, Label
<1>3. Len(fs) \in Nat
    OBVIOUS
<1> QED
    BY <1>2, <1>3 DEF Fields

AllKinds == {"vm", "esx", "ds", "spod", "respool"}

LEMMA NamesType ==
    ASSUME NEW kd \in AllKinds
    PROVE  Names[kd] \in Seq(FieldName)
<1>1. CASE kd = "vm"
  <2>1. Names[kd] =
            <<"vc", "dc", "cluster", "esx", "pool", "name", "hostname",
              "guestfullname", "power_state", "overall_status",
              "tools_status", "tools_version">>
    BY <1>1 DEF Names, VmNames
  <2> QED
    BY <2>1 DEF FieldName
<1>2. CASE kd = "esx"
  <2>1. Names[kd] =
            <<"vc", "dc", "cluster", "name", "version", "status">>
    BY <1>2 DEF Names, EsxNames
  <2> QED
    BY <2>1 DEF FieldName
<1>3. CASE kd = "ds"
  <2>1. Names[kd] =
            <<"vc", "dc", "name", "type", "cluster", "maintenance_mode">>
    BY <1>3 DEF Names, DatastoreNames
  <2> QED
    BY <2>1 DEF FieldName
<1>4. CASE kd = "spod"
  <2>1. Names[kd] =
            <<"vc", "dc", "name">>
    BY <1>4 DEF Names, StoragePodNames
  <2> QED
    BY <2>1 DEF FieldName
<1>5. CASE kd = "respool"
  <2>1. Names[kd] =
            <<"vc", "dc", "name">>
    BY <1>5 DEF Names, ResourcePoolNames
  <2> QED
    BY <2>1 DEF FieldName
<1> QED
    BY <1>1, <1>2, <1>3, <1>4, <1>5 DEF AllKinds

LEMMA ValuesType ==
    ASSUME NEW kd \in AllKinds
    PROVE  Values[kd] \in Seq(FieldName)
<1>1. CASE kd = "vm"
  <2>1. Values[kd] =
            <<"vcURL", "dc", "cluster", "esxName", "poolName", "Name", "HostName",
              "GuestFullName", "PowerState", "OverallStatus",
              "ToolsStatus", "ToolsVersion">>
    BY <1>1 DEF Values, VmValues
  <2> QED
    BY <2>1 DEF FieldName
<1>2. CASE kd = "esx"
  <2>1. Values[kd] =
            <<"vcURL", "dc", "cluster", "Name", "Version", "OverallStatus">>
    BY <1>2 DEF Values, EsxValues
  <2> QED
    BY <2>1 DEF FieldName
<1>3. CASE kd = "ds"
  <2>1. Values[kd] =
            <<"vcURL", "dc", "Name", "Type", "spod", "MaintenanceMode">>
    BY <1>3 DEF Values, DatastoreValues
  <2> QED
    BY <2>1 DEF FieldName
<1>4. CASE kd = "spod"
  <2>1. Values[kd] =
            <<"vcURL", "dc", "Name">>
    BY <1>4 DEF Values, StoragePodValues
  <2> QED
    BY <2>1 DEF FieldName
<1>5. CASE kd = "respool"
  <2>1. Values[kd] =
            <<"vcURL", "dc", "Name">>
    BY <1>5 DEF Values, ResourcePoolValues
  <2> QED
    BY <2>1 DEF FieldName
<1> QED
    BY <1>1, <1>2, <1>3, <1>4, <1>5 DEF AllKinds

LEMMA OwnNamesType ==
    ASSUME NEW d \in DOMAIN After
    PROVE  OwnNames[d] \in Seq(FieldName) /\ d \in Desc
<1>1. d \in {"network", "ethernet", "disk"}
    BY DEF After
<1>2. CASE d = "network"
    BY <1>2 DEF OwnNames, FieldName, Desc
<1>3. CASE d = "ethernet"
    BY <1>3 DEF OwnNames, FieldName, Desc
<1>4. CASE d = "disk"
    BY <1>4 DEF OwnNames, FieldName, Desc
<1> QED
    BY <1>1, <1>2, <1>3, <1>4

LEMMA MoreType == <<"crit", "responsable", "service">> \in Seq(FieldName)
BY DEF FieldName

LEMMA OfType ==
    /\ \A f \in FieldName : Field(f) \in Label
    /\ \A f \in FieldName, n \in Nat : Of(f, <<n>>) \in Label
    /\ \A f \in FieldName, n, a \in Nat : Of(f, <<n, a>>) \in Label
<1>1. <<>> \in Seq(Nat)
    OBVIOUS
<1>2. \A n \in Nat : <<n>> \in Seq(Nat)
    OBVIOUS
<1>3. \A n, a \in Nat : <<n, a>> \in Seq(Nat)
    OBVIOUS
<1> QED
    BY <1>1, <1>2, <1>3 DEF Field, Of, Label

LEMMA OwnType ==
    ASSUME NEW it \in Item, NEW n \in Nat, NEW a \in Nat
    PROVE  /\ Network(n, a) \in Seq(Label) /\ Disk(n) \in Seq(Label)
           /\ Annotations(it) \in Seq(Label)
           /\ Ethernet(it, n) \in Seq(Label)
<1>1. {"Network", "MacAddress", "IpAddress", "FileName", "typeName", "mac", "Status",
       "unknown", "not defined", "crit", "responsable", "service"} \subseteq FieldName
    BY DEF FieldName
<1>2. Network(n, a) \in Seq(Label)
  <2>1. /\ Of("Network", <<n>>) \in Label /\ Of("MacAddress", <<n>>) \in Label
        /\ Of("IpAddress", <<n, a>>) \in Label
    BY <1>1, OfType
  <2> QED
    BY <2>1 DEF Network
<1>3. Disk(n) \in Seq(Label)
  <2>1. Of("FileName", <<n>>) \in Label
    BY <1>1, OfType
  <2> QED
    BY <2>1 DEF Disk
<1>4. Annotations(it) \in Seq(Label)
  <2>1. \A f \in {"crit", "responsable", "service"} : Annotation(it, f) \in Label
    BY <1>1, OfType DEF Annotation
  <2> QED
    BY <2>1 DEF Annotations
<1>5. Ethernet(it, n) \in Seq(Label)
  <2>1. /\ Of("typeName", <<n>>) \in Label /\ Of("mac", <<n>>) \in Label
        /\ Of("Status", <<n>>) \in Label /\ Field("unknown") \in Label
    BY <1>1, OfType
  <2>2. (IF it.cards[n] THEN Of("Status", <<n>>) ELSE Field("unknown")) \in Label
    BY <2>1
  <2> QED
    BY <2>1, <2>2 DEF Ethernet
<1> QED
    BY <1>2, <1>3, <1>4, <1>5
=============================================================================
