---------------------------- MODULE MessageProofs ---------------------------
(***************************************************************************)
(* Proofs about MessageMetadata and MessageBody: objects that share        *)
(* sections act as values of their own, for any objects, any maps          *)
(* delivered and any values set; and what is read as the body is what is   *)
(* sent, for any texts and any number of sections.                         *)
(***************************************************************************)
EXTENDS MCMessage, FiniteSetTheorems, SequenceTheorems, WellFoundedInduction, TLAPS

-----------------------------------------------------------------------------
(* Copying a map. *)

\* A set of naturals that is not empty has a least element.
LEMMA LeastNatural ==
    ASSUME NEW T \in SUBSET Nat, T # {}
    PROVE  \E least \in T : \A other \in T : least <= other
<1> DEFINE Less == OpToRel(<, Nat)
<1>1. IsWellFoundedOn(Less, Nat)
  BY NatLessThanWellFounded
<1>2. \A x, y \in Nat : x < y => <<x, y>> \in Less
  BY DEF OpToRel
<1> HIDE DEF Less
<1>3. PICK least \in T : \A other \in T : <<other, least>> \notin Less
  BY <1>1, WFMin
<1>4. ASSUME NEW other \in T
      PROVE  least <= other
  <2>1. least \in Nat /\ other \in Nat
    OBVIOUS
  <2>2. ~(other < least)
    BY <1>2, <1>3, <2>1
  <2> QED
    BY <2>1, <2>2
<1> QED
  BY <1>4

\* What holds of 0 and, with a number, of the next one holds up to any bound.
LEMMA CountingUp ==
    ASSUME NEW n \in Nat, NEW Holds \in SUBSET Nat, 0 \in Holds,
           \A i \in 0 .. n - 1 : i \in Holds => i + 1 \in Holds
    PROVE  \A i \in 0 .. n : i \in Holds
<1> SUFFICES ASSUME NEW i \in 0 .. n, i \notin Holds
             PROVE  FALSE
  OBVIOUS
<1> DEFINE Fails == {j \in 0 .. n : j \notin Holds}
<1>1. PICK least \in Fails : \A other \in Fails : least <= other
  <2>1. Fails \in SUBSET Nat /\ Fails # {}
    OBVIOUS
  <2> HIDE DEF Fails
  <2> QED
    BY <2>1, LeastNatural
<1>2. least \in 1 .. n /\ least - 1 \in 0 .. n - 1
  BY <1>1
<1>3. least - 1 \in Holds
  BY <1>1, <1>2
<1>4. (least - 1) + 1 = least
  BY <1>2
<1> QED
  BY <1>1, <1>2, <1>3, <1>4

\* What keys of entries are.
Keys == {"string", "symbol"} \X Text

\* The rounds of the copying loop: what has been copied after each.
Rounds(entries, key, copied) ==
    /\ copied[0] = <<>>
    /\ \A count \in 1 .. Len(entries) :
           copied[count] = IF entries[count].key = key THEN copied[count - 1]
                           ELSE Append(copied[count - 1], entries[count])

\* There are such rounds, for as many entries as one likes.
LEMMA RoundsExist ==
    ASSUME NEW entries \in Seq(Entries), NEW key
    PROVE  \E copied \in [0 .. Len(entries) -> Seq(Entries)] : Rounds(entries, key, copied)
<1> DEFINE n == Len(entries)
           Fits(m, copied) ==
               /\ copied[0] = <<>>
               /\ \A count \in 1 .. m :
                      copied[count] = IF entries[count].key = key THEN copied[count - 1]
                                      ELSE Append(copied[count - 1], entries[count])
           Reached == {m \in Nat : \E copied \in [0 .. m -> Seq(Entries)] : Fits(m, copied)}
<1>1. n \in Nat /\ \A i \in 1 .. n : entries[i] \in Entries
  OBVIOUS
<1>2. 0 \in Reached
  <2>1. [i \in 0 .. 0 |-> <<>>] \in [0 .. 0 -> Seq(Entries)]
    OBVIOUS
  <2>2. Fits(0, [i \in 0 .. 0 |-> <<>>])
    OBVIOUS
  <2> QED
    BY <2>1, <2>2
<1>3. ASSUME NEW m \in 0 .. n - 1, m \in Reached
      PROVE  m + 1 \in Reached
  <2>1. PICK copied \in [0 .. m -> Seq(Entries)] : Fits(m, copied)
    BY <1>3
  <2> DEFINE last == IF entries[m + 1].key = key THEN copied[m]
                     ELSE Append(copied[m], entries[m + 1])
             longer == [i \in 0 .. m + 1 |-> IF i = m + 1 THEN last ELSE copied[i]]
  <2>2. last \in Seq(Entries)
    <3>1. copied[m] \in Seq(Entries) /\ entries[m + 1] \in Entries
      BY <1>1, <2>1
    <3> QED
      BY <3>1
  <2>3. longer \in [0 .. m + 1 -> Seq(Entries)]
    <3> HIDE DEF last
    <3> QED
      BY <2>1, <2>2
  <2>4. longer[0] = <<>>
    BY <2>1
  <2>5. ASSUME NEW count \in 1 .. m + 1
        PROVE  longer[count] = IF entries[count].key = key THEN longer[count - 1]
                               ELSE Append(longer[count - 1], entries[count])
    <3>1. CASE count = m + 1
      <4>1. longer[count] = last /\ longer[count - 1] = copied[m]
        BY <3>1
      <4> QED
        BY <3>1, <4>1
    <3>2. CASE count \in 1 .. m
      <4>1. longer[count] = copied[count] /\ longer[count - 1] = copied[count - 1]
        BY <3>2
      <4> HIDE DEF longer
      <4> QED
        BY <2>1, <3>2, <4>1
    <3> QED
      BY <3>1, <3>2
  <2>6. Fits(m + 1, longer)
    <3> HIDE DEF longer
    <3> QED
      BY <2>4, <2>5
  <2> HIDE DEF longer, Fits
  <2> QED
    BY <2>3, <2>6
<1>4. n \in Reached
  <2> HIDE DEF Reached
  <2>1. Reached \in SUBSET Nat
    BY DEF Reached
  <2>2. \A i \in 0 .. n - 1 : i \in Reached => i + 1 \in Reached
    BY <1>3
  <2>3. n \in Nat /\ n \in 0 .. n
    BY <1>1
  <2> HIDE DEF n
  <2>4. \A i \in 0 .. n : i \in Reached
    BY <1>2, <2>1, <2>2, <2>3, CountingUp
  <2> QED
    BY <2>3, <2>4
<1> QED
  BY <1>4 DEF Rounds

\* The copy is what the last round has copied.
LEMMA CopiedInRounds ==
    ASSUME NEW entries \in Seq(Entries), NEW key
    PROVE  \E copied \in [0 .. Len(entries) -> Seq(Entries)] :
               Rounds(entries, key, copied) /\ Copied(entries, key) = copied[Len(entries)]
<1> DEFINE n == Len(entries)
           Round(F) == [count \in 0 .. n |->
                           IF count = 0 THEN <<>>
                           ELSE IF entries[count].key = key THEN F[count - 1]
                           ELSE Append(F[count - 1], entries[count])]
           chosen == CHOOSE F : F = Round(F)
<1>1. n \in Nat
  OBVIOUS
<1>2. \E F : F = Round(F)
  <2>1. PICK copied \in [0 .. n -> Seq(Entries)] : Rounds(entries, key, copied)
    BY RoundsExist
  <2>2. ASSUME NEW count \in 0 .. n
        PROVE  copied[count] = Round(copied)[count]
    <3>1. CASE count = 0
      BY <2>1, <3>1 DEF Rounds
    <3>2. CASE count \in 1 .. n
      BY <2>1, <3>2 DEF Rounds
    <3> QED
      BY <3>1, <3>2
  <2>3. copied = Round(copied)
    BY <2>2
  <2> QED
    BY <2>3
<1>3. chosen = Round(chosen)
  BY <1>2
<1>4. Copied(entries, key) = chosen[n]
  BY DEF Copied
<1> HIDE DEF chosen
<1>5. Rounds(entries, key, chosen)
  <2>1. chosen[0] = <<>>
    BY <1>1, <1>3
  <2>2. ASSUME NEW count \in 1 .. n
        PROVE  chosen[count] = IF entries[count].key = key THEN chosen[count - 1]
                               ELSE Append(chosen[count - 1], entries[count])
    <3>1. count \in 0 .. n /\ count # 0
      BY <1>1
    <3>2. chosen[count] = Round(chosen)[count]
      BY <1>3
    <3> QED
      BY <3>1, <3>2
  <2> QED
    BY <2>1, <2>2 DEF Rounds
<1>6. chosen \in [0 .. n -> Seq(Entries)]
  <2> DEFINE Typed == {i \in Nat : i <= n => chosen[i] \in Seq(Entries)}
  <2>1. 0 \in Typed
    <3>1. chosen[0] = <<>> /\ <<>> \in Seq(Entries)
      BY <1>5 DEF Rounds
    <3>2. chosen[0] \in Seq(Entries)
      BY <3>1, Zenon
    <3> QED
      BY <3>2
  <2>2. ASSUME NEW i \in 0 .. n - 1, i \in Typed
        PROVE  i + 1 \in Typed
    <3>1. chosen[i] \in Seq(Entries) /\ i + 1 \in 1 .. n /\ (i + 1) - 1 = i
      BY <1>1, <2>2
    <3>2. entries[i + 1] \in Entries
      BY <3>1
    <3>3. chosen[i + 1] \in {chosen[i], Append(chosen[i], entries[i + 1])}
      BY <1>5, <3>1 DEF Rounds
    <3>4. Append(chosen[i], entries[i + 1]) \in Seq(Entries)
      BY <3>1, <3>2
    <3>5. chosen[i + 1] \in Seq(Entries)
      BY <3>1, <3>3, <3>4
    <3> QED
      BY <3>5
  <2>3. Typed \in SUBSET Nat
    OBVIOUS
  <2>4. \A i \in 0 .. n : i \in Typed
    <3> HIDE DEF Typed
    <3> QED
      BY <1>1, <2>1, <2>2, <2>3, CountingUp
  <2>5. \A i \in 0 .. n : chosen[i] \in Seq(Entries)
    BY <1>1, <2>4
  <2>6. chosen = [i \in 0 .. n |-> chosen[i]]
    BY <1>3
  <2> QED
    BY <2>5, <2>6
<1> QED
  BY <1>4, <1>5, <1>6

\* Of the first m entries, the i-th is the last one of a name.
LastOfFirst(entries, m, name, i) ==
    /\ i \in 1 .. m
    /\ entries[i].key[2] = name
    /\ \A j \in 1 .. m : entries[j].key[2] = name => j <= i

NoneOfFirst(entries, m, name) == \A j \in 1 .. m : entries[j].key[2] # name

\* The last entry of a name among the first m is also the last in a copy, if there is one.
LastsAgree(entries, m, copy, name) ==
    \/ /\ NoneOfFirst(entries, m, name)
       /\ NoneOfFirst(copy, Len(copy), name)
    \/ \E i \in 1 .. m, j \in 1 .. Len(copy) :
           /\ LastOfFirst(entries, m, name, i)
           /\ LastOfFirst(copy, Len(copy), name, j)
           /\ copy[j] = entries[i]

\* An appended entry is the last of its name, and of no other.
LEMMA LastAfterAppend ==
    ASSUME NEW copy \in Seq(Entries), NEW entry \in Entries, NEW name
    PROVE  /\ Append(copy, entry) \in Seq(Entries)
           /\ Len(Append(copy, entry)) = Len(copy) + 1
           /\ entry.key[2] = name
                => LastOfFirst(Append(copy, entry), Len(copy) + 1, name, Len(copy) + 1)
           /\ entry.key[2] # name =>
                  /\ NoneOfFirst(copy, Len(copy), name)
                        => NoneOfFirst(Append(copy, entry), Len(copy) + 1, name)
                  /\ \A j \in 1 .. Len(copy) :
                        LastOfFirst(copy, Len(copy), name, j)
                          => LastOfFirst(Append(copy, entry), Len(copy) + 1, name, j)
<1> DEFINE longer == Append(copy, entry)
<1>1. /\ longer \in Seq(Entries) /\ Len(longer) = Len(copy) + 1 /\ Len(copy) \in Nat
      /\ \A j \in 1 .. Len(copy) : longer[j] = copy[j]
      /\ longer[Len(copy) + 1] = entry
  OBVIOUS
<1> HIDE DEF longer
<1>2. entry.key[2] = name => LastOfFirst(longer, Len(copy) + 1, name, Len(copy) + 1)
  BY <1>1 DEF LastOfFirst
<1>3. entry.key[2] # name /\ NoneOfFirst(copy, Len(copy), name)
         => NoneOfFirst(longer, Len(copy) + 1, name)
  BY <1>1 DEF NoneOfFirst
<1>4. ASSUME entry.key[2] # name,
             NEW j \in 1 .. Len(copy), LastOfFirst(copy, Len(copy), name, j)
      PROVE  LastOfFirst(longer, Len(copy) + 1, name, j)
  BY <1>1, <1>4 DEF LastOfFirst
<1> QED
  BY <1>1, <1>2, <1>3, <1>4 DEF longer

\* Copying keeps the last entry of every name but the replaced one.
LEMMA CopyKeepsLasts ==
    ASSUME NEW entries \in Seq(Entries), NEW key,
           NEW copied \in [0 .. Len(entries) -> Seq(Entries)], Rounds(entries, key, copied),
           NEW name, name # key[2]
    PROVE  LastsAgree(entries, Len(entries), copied[Len(entries)], name)
<1> DEFINE n == Len(entries)
           Agreed == {m \in Nat : LastsAgree(entries, m, copied[m], name)}
<1>1. n \in Nat
  OBVIOUS
<1>2. 0 \in Agreed
  <2>1. copied[0] = <<>>
    BY DEF Rounds
  <2>2. LastsAgree(entries, 0, <<>>, name)
    BY DEF LastsAgree, NoneOfFirst
  <2> QED
    BY <2>1, <2>2
<1>3. ASSUME NEW m \in 0 .. n - 1, m \in Agreed
      PROVE  m + 1 \in Agreed
  <2> DEFINE copy == copied[m]
             entry == entries[m + 1]
  <2>1. m \in Nat /\ m + 1 \in 1 .. n /\ (m + 1) - 1 = m
    BY <1>1
  <2>2. copy \in Seq(Entries) /\ entry \in Entries /\ Len(copy) \in Nat
    BY <2>1
  <2>3. copied[m + 1] = IF entry.key = key THEN copy ELSE Append(copy, entry)
    BY <2>1 DEF Rounds
  <2>4. LastsAgree(entries, m, copy, name)
    BY <1>3
  <2> HIDE DEF copy, n
  <2>5. CASE entry.key = key
    <3>1. entry.key[2] # name
      BY <2>5
    <3>2. NoneOfFirst(entries, m, name) => NoneOfFirst(entries, m + 1, name)
      BY <2>1, <3>1 DEF NoneOfFirst
    <3>3. ASSUME NEW i \in 1 .. m, LastOfFirst(entries, m, name, i)
          PROVE  LastOfFirst(entries, m + 1, name, i)
      <4>1. ASSUME NEW j \in 1 .. m + 1, entries[j].key[2] = name
            PROVE  j \in 1 .. m
        <5>1. j # m + 1
          BY <3>1, <4>1
        <5> QED
          BY <2>1, <5>1
      <4>2. \A j \in 1 .. m : entries[j].key[2] = name => j <= i
        BY <3>3 DEF LastOfFirst
      <4>3. entries[i].key[2] = name /\ i \in 1 .. m + 1
        BY <2>1, <3>3 DEF LastOfFirst
      <4> QED
        BY <4>1, <4>2, <4>3 DEF LastOfFirst
    <3>4. \A i \in 1 .. m : i \in 1 .. m + 1
      BY <2>1
    <3>5. LastsAgree(entries, m + 1, copy, name)
      BY <2>4, <3>2, <3>3, <3>4 DEF LastsAgree
    <3> QED
      BY <2>1, <2>3, <2>5, <3>5
  <2>6. CASE entry.key # key /\ entry.key[2] = name
    <3>1. LastOfFirst(entries, m + 1, name, m + 1)
      BY <2>1, <2>6 DEF LastOfFirst
    <3> DEFINE longer == Append(copy, entry)
    <3>2. LastOfFirst(longer, Len(copy) + 1, name, Len(copy) + 1) /\ Len(longer) = Len(copy) + 1
      BY <2>2, <2>6, LastAfterAppend
    <3>3. longer[Len(copy) + 1] = entry
      BY <2>2
    <3>4. Len(copy) + 1 \in 1 .. Len(copy) + 1 /\ m + 1 \in 1 .. m + 1
      BY <2>1, <2>2
    <3>5. copied[m + 1] = longer
      BY <2>3, <2>6
    <3> HIDE DEF longer
    <3>6. LastsAgree(entries, m + 1, longer, name)
      BY <3>1, <3>2, <3>3, <3>4 DEF LastsAgree
    <3> QED
      BY <2>1, <3>5, <3>6
  <2>7. CASE entry.key # key /\ entry.key[2] # name
    <3> DEFINE longer == Append(copy, entry)
    <3>1. /\ Len(longer) = Len(copy) + 1
          /\ NoneOfFirst(copy, Len(copy), name) => NoneOfFirst(longer, Len(copy) + 1, name)
          /\ \A j \in 1 .. Len(copy) : LastOfFirst(copy, Len(copy), name, j)
                                           => LastOfFirst(longer, Len(copy) + 1, name, j)
      BY <2>2, <2>7, LastAfterAppend
    <3>2. \A j \in 1 .. Len(copy) : longer[j] = copy[j] /\ j \in 1 .. Len(copy) + 1
      BY <2>2
    <3>3. NoneOfFirst(entries, m, name) => NoneOfFirst(entries, m + 1, name)
      BY <2>1, <2>7 DEF NoneOfFirst
    <3>4. \A i \in 1 .. m : LastOfFirst(entries, m, name, i)
                               => LastOfFirst(entries, m + 1, name, i)
      BY <2>1, <2>7 DEF LastOfFirst
    <3>5. \A i \in 1 .. m : i \in 1 .. m + 1
      BY <2>1
    <3>6. copied[m + 1] = longer
      BY <2>3, <2>7
    <3> HIDE DEF longer
    <3>7. LastsAgree(entries, m + 1, longer, name)
      BY <2>4, <3>1, <3>2, <3>3, <3>4, <3>5 DEF LastsAgree
    <3> QED
      BY <2>1, <3>6, <3>7
  <2> QED
    BY <2>5, <2>6, <2>7
<1>4. n \in Agreed
  <2>1. \A i \in 0 .. n - 1 : i \in Agreed => i + 1 \in Agreed
    BY <1>3
  <2>2. Agreed \in SUBSET Nat /\ n \in 0 .. n
    BY <1>1
  <2> HIDE DEF Agreed, n
  <2> QED
    BY <1>1, <1>2, <2>1, <2>2, CountingUp
<1> QED
  BY <1>4

\* The getters show the last entry of a name, and no name without entries.
LEMMA LastIsShown ==
    ASSUME NEW entries \in Seq(Entries), NEW name
    PROVE  /\ \A i : LastOfFirst(entries, Len(entries), name, i)
                      => /\ name \in DOMAIN Shown(entries)
                         /\ Shown(entries)[name] = entries[i].value
           /\ NoneOfFirst(entries, Len(entries), name) => name \notin DOMAIN Shown(entries)
<1>1. DOMAIN entries = 1 .. Len(entries) /\ Len(entries) \in Nat
  OBVIOUS
<1>2. DOMAIN Shown(entries) = {entries[i].key[2] : i \in DOMAIN entries}
  BY DEF Shown
<1>3. ASSUME NEW i, LastOfFirst(entries, Len(entries), name, i)
      PROVE  name \in DOMAIN Shown(entries) /\ Shown(entries)[name] = entries[i].value
  <2>1. i \in DOMAIN entries /\ entries[i].key[2] = name
    BY <1>1, <1>3 DEF LastOfFirst
  <2>2. name \in DOMAIN Shown(entries)
    BY <1>2, <2>1
  <2>3. IsLast(entries, name, i)
    BY <1>1, <1>3 DEF IsLast, LastOfFirst
  <2>4. \A j \in DOMAIN entries : IsLast(entries, name, j) => j = i
    <3> SUFFICES ASSUME NEW j \in DOMAIN entries, IsLast(entries, name, j)
                 PROVE  j = i
      OBVIOUS
    <3>1. j <= i /\ i <= j
      BY <2>1, <2>3 DEF IsLast
    <3> QED
      BY <1>1, <2>1, <3>1
  <2>5. (CHOOSE j \in DOMAIN entries : IsLast(entries, name, j)) = i
    BY <2>1, <2>3, <2>4
  <2> QED
    BY <1>2, <2>2, <2>5 DEF Shown
<1>4. NoneOfFirst(entries, Len(entries), name) => name \notin DOMAIN Shown(entries)
  BY <1>1, <1>2 DEF NoneOfFirst
<1> QED
  BY <1>3, <1>4

\* After a setter the getters show its value, and what they have shown for other names.
LEMMA SetIsShown ==
    ASSUME NEW entries \in Seq(Entries), NEW key \in Keys, NEW value \in Kept
    PROVE  /\ CopiedAndSet(entries, key, value) \in Seq(Entries)
           /\ Shown(CopiedAndSet(entries, key, value))
                = Values!Assigned(Shown(entries), key[2], value)
<1> DEFINE entry == Entry(key, value)
           after == CopiedAndSet(entries, key, value)
           before == Shown(entries)
           expected == Values!Assigned(before, key[2], value)
<1>1. PICK copied \in [0 .. Len(entries) -> Seq(Entries)] :
          Rounds(entries, key, copied) /\ Copied(entries, key) = copied[Len(entries)]
  BY CopiedInRounds
<1> DEFINE copy == copied[Len(entries)]
<1>2. copy \in Seq(Entries)
  <2>1. Len(entries) \in 0 .. Len(entries)
    OBVIOUS
  <2> QED
    BY <1>1, <2>1
<1>3. entry \in Entries /\ entry.key = key /\ entry.value = value
  BY DEF Entry, Entries, Keys
<1>4. after = Append(copy, entry)
  BY <1>1 DEF CopiedAndSet
<1>5. \A name : name # key[2] => LastsAgree(entries, Len(entries), copy, name)
  BY <1>1, CopyKeepsLasts
<1> HIDE DEF entry, after, copy
<1>6. after \in Seq(Entries) /\ Len(after) = Len(copy) + 1 /\ Len(copy) \in Nat
  BY <1>2, <1>3, <1>4, LastAfterAppend
<1>7. /\ DOMAIN expected = DOMAIN before \cup {key[2]}
      /\ \A name \in DOMAIN before \cup {key[2]} :
             expected[name] = IF name = key[2] THEN value ELSE before[name]
  BY DEF Values!Assigned
<1>8. key[2] \in DOMAIN Shown(after) /\ Shown(after)[key[2]] = value
  <2>1. LastOfFirst(after, Len(after), key[2], Len(after))
    BY <1>2, <1>3, <1>4, <1>6, LastAfterAppend
  <2>2. after[Len(after)] = entry
    BY <1>2, <1>3, <1>4, <1>6
  <2> QED
    BY <1>3, <1>6, <2>1, <2>2, LastIsShown
<1>9. ASSUME NEW name, name # key[2]
      PROVE  /\ name \in DOMAIN Shown(after) <=> name \in DOMAIN before
             /\ name \in DOMAIN before => Shown(after)[name] = before[name]
  <2>1. /\ NoneOfFirst(copy, Len(copy), name) => NoneOfFirst(after, Len(after), name)
        /\ \A j \in 1 .. Len(copy) : LastOfFirst(copy, Len(copy), name, j)
                                         => LastOfFirst(after, Len(after), name, j)
    BY <1>2, <1>3, <1>4, <1>6, <1>9, LastAfterAppend
  <2>2. \A j \in 1 .. Len(copy) : after[j] = copy[j]
    BY <1>2, <1>3, <1>4
  <2>3. LastsAgree(entries, Len(entries), copy, name)
    BY <1>5, <1>9
  <2>4. CASE NoneOfFirst(entries, Len(entries), name) /\ NoneOfFirst(copy, Len(copy), name)
    BY <1>6, <2>1, <2>4, LastIsShown
  <2>5. CASE \E i \in 1 .. Len(entries), j \in 1 .. Len(copy) :
                 /\ LastOfFirst(entries, Len(entries), name, i)
                 /\ LastOfFirst(copy, Len(copy), name, j)
                 /\ copy[j] = entries[i]
    <3>1. PICK i \in 1 .. Len(entries), j \in 1 .. Len(copy) :
              /\ LastOfFirst(entries, Len(entries), name, i)
              /\ LastOfFirst(copy, Len(copy), name, j)
              /\ copy[j] = entries[i]
      BY <2>5
    <3>2. name \in DOMAIN before /\ before[name] = entries[i].value
      BY <3>1, LastIsShown
    <3>3. name \in DOMAIN Shown(after) /\ Shown(after)[name] = after[j].value
      BY <1>6, <2>1, <3>1, LastIsShown
    <3> QED
      BY <2>2, <3>1, <3>2, <3>3
  <2> QED
    BY <2>3, <2>4, <2>5 DEF LastsAgree
<1> HIDE DEF expected, before
<1>10. DOMAIN Shown(after) = DOMAIN expected
  BY <1>7, <1>8, <1>9
<1>11. \A name \in DOMAIN expected : Shown(after)[name] = expected[name]
  BY <1>7, <1>8, <1>9
<1>12. Shown(after) = [name \in DOMAIN Shown(after) |-> Shown(after)[name]]
  BY DEF Shown
<1>13. expected = [name \in DOMAIN expected |-> expected[name]]
  BY DEF expected, Values!Assigned
<1>14. Shown(after) = expected
  BY <1>10, <1>11, <1>12, <1>13
<1> QED
  BY <1>6, <1>14 DEF after, expected, before

-----------------------------------------------------------------------------
(* What setters make of their arguments. *)

\* Where the first piece is that a text is cut at.
LEMMA FirstNul ==
    ASSUME NEW text \in Text
    PROVE  LET nul == SelectInSeq(text, LAMBDA piece : piece = "nul")
           IN /\ nul \in 0 .. Len(text)
              /\ (\A i \in DOMAIN text : text[i] # "nul") => nul = 0
<1> DEFINE found == {i \in 1 .. Len(text) : text[i] = "nul"}
           nul == SelectInSeq(text, LAMBDA piece : piece = "nul")
<1>1. nul = IF found # {} THEN Min(found) ELSE 0
  BY DEF SelectInSeq
<1>2. DOMAIN text = 1 .. Len(text) /\ Len(text) \in Nat
  BY DEF Text
<1>3. found # {} => Min(found) \in found
  <2> SUFFICES ASSUME found # {}
               PROVE  Min(found) \in found
    OBVIOUS
  <2>1. found \in SUBSET Nat
    BY <1>2
  <2> HIDE DEF found
  <2>2. PICK least \in found : \A other \in found : least <= other
    BY <2>1, LeastNatural
  <2> QED
    BY <2>2 DEF Min
<1> HIDE DEF nul
<1> QED
  BY <1>1, <1>2, <1>3 DEF nul

\* A piece is a text.
LEMMA OnePiece ==
    ASSUME NEW piece \in Pieces
    PROVE  <<piece>> \in Text /\ <<>> \in Text
<1>1. \A S, e : e \in S => <<e>> \in Seq(S) /\ <<>> \in Seq(S)
  OBVIOUS
<1> QED
  BY <1>1 DEF Text

\* A text that is cut is a text, and one without a NUL is not cut.
LEMMA CutText ==
    ASSUME NEW text \in Text
    PROVE  /\ UpToNul(text) \in Text
           /\ (\A i \in DOMAIN text : text[i] # "nul") => UpToNul(text) = text
<1> DEFINE nul == SelectInSeq(text, LAMBDA piece : piece = "nul")
<1>1. UpToNul(text) = IF nul = 0 THEN text ELSE SubSeq(text, 1, nul - 1)
  BY DEF UpToNul
<1>2. /\ nul \in 0 .. Len(text)
      /\ (\A i \in DOMAIN text : text[i] # "nul") => nul = 0
  BY FirstNul
<1> HIDE DEF nul
<1>3. ASSUME nul # 0
      PROVE  SubSeq(text, 1, nul - 1) \in Seq(Pieces)
  <2>1. text \in Seq(Pieces) /\ Len(text) \in Nat
    BY DEF Text
  <2>2. \A i \in 1 .. nul - 1 : text[i] \in Pieces
    <3>1. \A i \in 1 .. nul - 1 : i \in 1 .. Len(text)
      BY <1>2, <2>1
    <3> QED
      BY <2>1, <3>1
  <2>3. nul - 1 \in Nat
    BY <1>2, <1>3, <2>1
  <2> QED
    BY <2>1, <2>2, <2>3, SubSeqProperties
<1> QED
  BY <1>1, <1>2, <1>3 DEF Text

\* What is less than a modulus is what remains of it.
LEMMA SmallRemains ==
    ASSUME NEW m \in Nat \ {0}, NEW n \in 0 .. m - 1
    PROVE  n % m = n
  OBVIOUS

\* Numbers stay numbers, and those of 32 bits stay what they are.
LEMMA NarrowedNumber ==
    ASSUME NEW number \in Int
    PROVE  /\ Narrowed(number) \in Int
           /\ number \in -Int32Limit .. Int32Limit - 1 => Narrowed(number) = number
<1> DEFINE limit == Int32Limit
           modulus == 2 * Int32Limit
           shifted == number + Int32Limit
<1>1. limit \in Nat \ {0} /\ modulus \in Nat \ {0} /\ shifted \in Int
  BY Int32Assumption
<1>2. Narrowed(number) = (shifted % modulus) - limit
  BY DEF Narrowed
<1>3. number \in -limit .. limit - 1 => shifted \in 0 .. modulus - 1 /\ shifted - limit = number
  BY <1>1
<1> HIDE DEF limit, modulus, shifted
<1>4. shifted % modulus \in Int
  BY <1>1
<1>5. number \in -limit .. limit - 1 => Narrowed(number) = number
  BY <1>1, <1>2, <1>3, SmallRemains
<1> QED
  BY <1>1, <1>2, <1>4, <1>5 DEF limit

\* What a section keeps for a call.
LEMMA ConvertedType ==
    ASSUME NEW call \in Call
    PROVE  Converted(call) \in Kept
<1>1. call.number \in Int /\ call.text \in Text
  BY DEF Call
<1>2. Narrowed(call.number) \in Int /\ UpToNul(call.text) \in Text
  BY <1>1, NarrowedNumber, CutText
<1> QED
  BY <1>1, <1>2 DEF Converted, Kept

\* A call without a loss is kept as it is.
LEMMA WholeIsKept ==
    ASSUME NEW call \in Call, StoredWhole(call)
    PROVE  /\ UpToNul(call.name) = call.name
           /\ Converted(call) = [number |-> call.number, text |-> call.text]
<1>1. call.number \in Int /\ call.text \in Text /\ call.name \in Text
  BY DEF Call
<1>2. UpToNul(call.name) = call.name /\ UpToNul(call.text) = call.text
  BY <1>1, CutText DEF StoredWhole
<1>3. call.letter = "I" => Narrowed(call.number) = call.number
  BY <1>1, NarrowedNumber DEF StoredWhole
<1> QED
  BY <1>2, <1>3 DEF Converted

-----------------------------------------------------------------------------
(* The heap. *)

\* What may be stored while some addresses are in use.
Stored(addresses) ==
    [kind : {"described"}, inner : addresses] \cup {List}
        \cup [kind : {"map", "properties"}, entries : Seq(Entries)]

\* A heap without dangling references and without descriptions nested three times.
Sound(memory) ==
    /\ DOMAIN memory \subseteq Nat \ {0}
    /\ IsFiniteSet(DOMAIN memory)
    /\ \A address \in DOMAIN memory :
           /\ memory[address] \in Stored(DOMAIN memory)
           /\ memory[Inside(memory, address)].kind # "described"

\* Sections of owners in a heap.
Refer(sections, memory) == sections \in [Owners -> DOMAIN memory \cup {Null, NoMessage}]

\* What an address leads to is the same in two heaps.
Same(memory, other, address) ==
    /\ address \in DOMAIN other /\ other[address] = memory[address]
    /\ other[Inner(memory, address)] = memory[Inner(memory, address)]
    /\ Inside(other, address) = Inside(memory, address)
    /\ other[Inside(memory, address)] = memory[Inside(memory, address)]

\* Following a reference ends at an address in use, at a value that is not described.
LEMMA Reaching ==
    ASSUME NEW memory, Sound(memory), NEW address \in DOMAIN memory
    PROVE  /\ Inner(memory, address) \in DOMAIN memory
           /\ Inside(memory, address) \in DOMAIN memory
           /\ Inner(memory, Inside(memory, address)) = Inside(memory, address)
<1>1. \A other \in DOMAIN memory : Inner(memory, other) \in DOMAIN memory
  BY DEF Sound, Stored, Inner, List
<1> QED
  BY <1>1 DEF Inside, Sound, Inner

\* Heaps that agree on what an address leads to.
LEMMA AgreeingIsSame ==
    ASSUME NEW memory, Sound(memory), NEW address \in DOMAIN memory, NEW other,
           Chain(memory, address) \subseteq DOMAIN other,
           \A link \in Chain(memory, address) : other[link] = memory[link]
    PROVE  Same(memory, other, address)
<1>1. {address, Inner(memory, address), Inside(memory, address)} = Chain(memory, address)
  BY DEF Chain
<1>2. Inner(other, address) = Inner(memory, address)
  BY <1>1 DEF Inner
<1>3. Inner(other, Inner(memory, address)) = Inner(memory, Inner(memory, address))
  BY <1>1 DEF Inner
<1> QED
  BY <1>1, <1>2, <1>3 DEF Same, Inside

\* Nothing has changed in a heap that has not.
LEMMA SameAsItself ==
    ASSUME NEW memory, Sound(memory), NEW address \in DOMAIN memory
    PROVE  Same(memory, memory, address)
  BY DEF Same

\* There is always a free address.
LEMMA FreshIsFree ==
    ASSUME NEW used \in SUBSET Nat, IsFiniteSet(used)
    PROVE  Fresh(used) \in Nat \ {0} /\ Fresh(used) \notin used
<1> DEFINE n == Cardinality(used)
<1>1. n \in Nat
  BY FS_CardinalityType
<1>2. \E address \in 1 .. n + 1 : address \notin used
  <2> SUFFICES ASSUME 1 .. n + 1 \subseteq used
               PROVE  FALSE
    OBVIOUS
  <2>1. Cardinality(1 .. n + 1) <= n
    BY FS_Subset
  <2>2. Cardinality(1 .. n + 1) = n + 1
    <3>1. 1 \in Int /\ n + 1 \in Int
      BY <1>1
    <3>2. Cardinality(1 .. n + 1) = IF 1 > n + 1 THEN 0 ELSE (n + 1) - 1 + 1
      BY <3>1, FS_Interval
    <3> HIDE DEF n
    <3> QED
      BY <1>1, <3>2
  <2> HIDE DEF n
  <2> QED
    BY <1>1, <2>1, <2>2
<1>3. Fresh(used) \in 1 .. n + 1 /\ Fresh(used) \notin used
  BY <1>2 DEF Fresh
<1> HIDE DEF n
<1> QED
  BY <1>1, <1>3

\* Collection keeps what owners refer to.
LEMMA CollectedKeeps ==
    ASSUME NEW memory, Sound(memory), NEW sections, Refer(sections, memory)
    PROVE  LET rest == Collected(memory, sections)
           IN /\ Sound(rest) /\ Refer(sections, rest)
              /\ \A owner \in Owners : sections[owner] \in DOMAIN memory
                                          => Same(memory, rest, sections[owner])
<1> DEFINE rest == Collected(memory, sections)
           holders == {holder \in Owners : sections[holder] \in DOMAIN memory}
           live == UNION {Chain(memory, sections[owner]) : owner \in holders}
<1>1. /\ DOMAIN rest = live
      /\ \A address \in live : rest[address] = memory[address]
  BY DEF Collected, Restrict
<1>2. \A owner \in holders : Chain(memory, sections[owner]) \subseteq live
  OBVIOUS
<1>3. live \subseteq DOMAIN memory
  BY Reaching DEF Chain
<1>4. ASSUME NEW address \in live
      PROVE  Chain(memory, address) \subseteq live
  <2>1. PICK owner \in holders : address \in Chain(memory, sections[owner])
    OBVIOUS
  <2> DEFINE root == sections[owner]
  <2>2. root \in DOMAIN memory
    OBVIOUS
  <2>3. Inner(memory, Inside(memory, root)) = Inside(memory, root)
    BY <2>2, Reaching
  <2> HIDE DEF root
  <2>4. Chain(memory, address) \subseteq Chain(memory, root)
    BY <2>1, <2>3 DEF Chain, Inside, root
  <2> QED
    BY <1>2, <2>4 DEF root
<1> HIDE DEF live, rest
<1>5. \A address \in live : Same(memory, rest, address)
  <2> SUFFICES ASSUME NEW address \in live
               PROVE  Same(memory, rest, address)
    OBVIOUS
  <2> QED
    BY <1>1, <1>3, <1>4, AgreeingIsSame
<1>6. \A owner \in holders : sections[owner] \in live
  BY <1>2 DEF Chain
<1>7. Sound(rest)
  <2>1. IsFiniteSet(DOMAIN rest)
    BY <1>1, <1>3, FS_Subset DEF Sound
  <2>2. ASSUME NEW address \in live
        PROVE  rest[address] \in Stored(live)
    <3>1. rest[address] = memory[address] /\ memory[address] \in Stored(DOMAIN memory)
      BY <1>1, <1>3 DEF Sound
    <3>2. Inner(memory, address) \in live
      BY <1>4 DEF Chain
    <3> QED
      BY <3>1, <3>2 DEF Inner, Stored, List
  <2>3. ASSUME NEW address \in live
        PROVE  rest[Inside(rest, address)].kind # "described"
    <3>1. Inside(rest, address) = Inside(memory, address)
          /\ rest[Inside(memory, address)] = memory[Inside(memory, address)]
      BY <1>5 DEF Same
    <3> QED
      BY <1>3, <3>1 DEF Sound
  <2> QED
    BY <1>1, <1>3, <2>1, <2>2, <2>3 DEF Sound
<1>8. Refer(sections, rest)
  BY <1>1, <1>6 DEF Refer
<1> QED
  BY <1>5, <1>6, <1>7, <1>8 DEF rest

\* A container is stored at one free address, perhaps described at another.
StoredAt(memory, where, root, stored) ==
    /\ {where, root} \subseteq Nat \ {0} /\ {where, root} \cap DOMAIN memory = {}
    /\ DOMAIN stored = DOMAIN memory \cup {where, root}
    /\ stored[where] \in [kind : {"map", "properties"}, entries : Seq(Entries)]
    /\ root # where => stored[root] = Described(where)
    /\ \A address \in DOMAIN memory : stored[address] = memory[address]

\* Storing at free addresses keeps everything, and leads to what is stored.
LEMMA StoredApart ==
    ASSUME NEW memory, Sound(memory), NEW where, NEW root, NEW stored,
           StoredAt(memory, where, root, stored)
    PROVE  /\ Sound(stored)
           /\ \A address \in DOMAIN memory : Same(memory, stored, address)
           /\ Inside(stored, root) = where
<1> DEFINE container == stored[where]
<1>1. /\ DOMAIN stored = DOMAIN memory \cup {where, root}
      /\ {where, root} \subseteq Nat \ {0} /\ {where, root} \cap DOMAIN memory = {}
      /\ stored[where] = container
      /\ container \in [kind : {"map", "properties"}, entries : Seq(Entries)]
      /\ root # where => stored[root] = Described(where)
      /\ \A address \in DOMAIN memory : stored[address] = memory[address]
  BY DEF StoredAt
<1> HIDE DEF container
<1>2. container.kind # "described"
  BY <1>1
<1>3. Inner(stored, where) = where
  BY <1>1, <1>2 DEF Inner
<1>4. Inner(stored, root) = where
  BY <1>1, <1>3 DEF Inner, Described
<1>5. Inside(stored, root) = where /\ Inside(stored, where) = where
  BY <1>3, <1>4 DEF Inside
<1>6. ASSUME NEW address \in DOMAIN memory
      PROVE  Same(memory, stored, address)
  <2>1. Chain(memory, address) \subseteq DOMAIN memory
    BY Reaching DEF Chain
  <2>2. Chain(memory, address) \subseteq DOMAIN stored
    BY <1>1, <2>1
  <2>3. \A link \in Chain(memory, address) : stored[link] = memory[link]
    BY <1>1, <2>1
  <2> QED
    BY <2>2, <2>3, AgreeingIsSame
<1>7. Sound(stored)
  <2>1. IsFiniteSet(DOMAIN stored)
    <3>1. IsFiniteSet(DOMAIN memory \cup {where})
      BY FS_AddElement DEF Sound
    <3>2. IsFiniteSet((DOMAIN memory \cup {where}) \cup {root})
      BY <3>1, FS_AddElement
    <3>3. (DOMAIN memory \cup {where}) \cup {root} = DOMAIN stored
      BY <1>1
    <3> QED
      BY <3>2, <3>3
  <2>2. ASSUME NEW address \in DOMAIN stored
        PROVE  stored[address] \in Stored(DOMAIN stored)
    <3>1. CASE address = where
      BY <1>1, <3>1 DEF Stored
    <3>2. CASE address = root /\ root # where
      BY <1>1, <3>2 DEF Stored, Described
    <3>3. CASE address \in DOMAIN memory
      <4>1. stored[address] = memory[address] /\ memory[address] \in Stored(DOMAIN memory)
        BY <1>1, <3>3 DEF Sound
      <4>2. DOMAIN memory \subseteq DOMAIN stored
        BY <1>1
      <4> QED
        BY <4>1, <4>2 DEF Stored
    <3> QED
      BY <1>1, <3>1, <3>2, <3>3
  <2>3. ASSUME NEW address \in DOMAIN stored
        PROVE  stored[Inside(stored, address)].kind # "described"
    <3>1. CASE address \in {where, root}
      BY <1>1, <1>2, <1>5, <3>1
    <3>2. CASE address \in DOMAIN memory
      <4>1. /\ Inside(stored, address) = Inside(memory, address)
            /\ stored[Inside(memory, address)] = memory[Inside(memory, address)]
        BY <1>6, <3>2 DEF Same
      <4>2. memory[Inside(memory, address)].kind # "described"
        BY <3>2 DEF Sound
      <4> QED
        BY <4>1, <4>2
    <3> QED
      BY <1>1, <3>1, <3>2
  <2> QED
    BY <1>1, <2>1, <2>2, <2>3 DEF Sound
<1> QED
  BY <1>1, <1>5, <1>6, <1>7

-----------------------------------------------------------------------------
(* The invariant. *)

\* The form of a section that a setter has written.
Formed(object) ==
    /\ section[object] \in DOMAIN heap
    /\ heap[Inside(heap, section[object])].kind # "list"
    /\ IF part = "message_annotations"
       THEN /\ heap[section[object]].kind = "described"
            /\ heap[heap[section[object]].inner].kind = "map"
       ELSE heap[section[object]].kind \in {"map", "properties"}

\* What a section holds once a setter has written it.
Written(object) ==
    /\ Formed(object)
    /\ Decoded(object).at[UpToNul(set[object].name)] = Converted(set[object])

Types ==
    /\ part \in {"application_properties", "message_annotations", "properties"}
    /\ set \in [Objects -> Call \cup {Unset}]

Inv ==
    /\ Types
    /\ Refer(section, heap)
    /\ Sound(heap)
    /\ \A object \in Objects : set[object] # Unset => Written(object)

\* After a step an owner has the section that another, or itself, had before.
TakesOver(owner, source) ==
    /\ section'[owner] = section[source]
    /\ section[source] \in DOMAIN heap => Same(heap, heap', section[source])

\* Who takes over a section sees what was seen there, ...
LEMMA LooksTheSame ==
    ASSUME Inv, NEW owner \in Owners, NEW source \in Owners, TakesOver(owner, source)
    PROVE  Decoded(owner)' = Decoded(source)
<1>1. section[source] \in DOMAIN heap \/ section[source] \in {Null, NoMessage}
  BY DEF Inv, Refer
<1>2. CASE section[source] \in DOMAIN heap
  <2>1. /\ Inside(heap', section[source]) = Inside(heap, section[source])
        /\ heap'[Inside(heap, section[source])] = heap[Inside(heap, section[source])]
    BY <1>2 DEF TakesOver, Same
  <2>2. section'[owner] = section[source]
    BY DEF TakesOver
  <2>3. heap'[Inside(heap', section'[owner])] = heap[Inside(heap, section[source])]
    BY <2>1, <2>2
  <2> QED
    BY <2>2, <2>3 DEF Decoded
<1>3. CASE section[source] \in {Null, NoMessage}
  BY <1>3 DEF TakesOver, Decoded, Null, NoMessage
<1> QED
  BY <1>1, <1>2, <1>3

\* ... and what was written there is written for it.
LEMMA WrittenIsTakenOver ==
    ASSUME Inv, NEW object \in Objects, NEW source \in Objects, TakesOver(object, source),
           part' = part, set'[object] = set[source], Written(source)
    PROVE  Written(object)'
<1> DEFINE root == section[source]
<1>1. root \in DOMAIN heap /\ Same(heap, heap', root) /\ section'[object] = root
  BY DEF Written, Formed, TakesOver
<1>2. /\ root \in DOMAIN heap' /\ heap'[root] = heap[root]
      /\ heap'[Inner(heap, root)] = heap[Inner(heap, root)]
      /\ Inside(heap', root) = Inside(heap, root)
      /\ heap'[Inside(heap, root)] = heap[Inside(heap, root)]
  BY <1>1 DEF Same
<1>3. Decoded(object)'.at[UpToNul(set'[object].name)] = Converted(set'[object])
  <2>1. Decoded(object)' = Decoded(source)
    BY LooksTheSame, ObjectsAssumption DEF Owners
  <2> QED
    BY <2>1 DEF Written
<1>5. heap[root].kind = "described" => heap[root].inner = Inner(heap, root)
  BY DEF Inner
<1>6. heap'[Inside(heap', root)].kind # "list"
  BY <1>2 DEF Written, Formed
<1>7. IF part = "message_annotations"
      THEN heap'[root].kind = "described" /\ heap'[heap'[root].inner].kind = "map"
      ELSE heap'[root].kind \in {"map", "properties"}
  BY <1>2, <1>5 DEF Written, Formed
<1> HIDE DEF root
<1> QED
  BY <1>1, <1>2, <1>3, <1>6, <1>7 DEF Written, Formed

-----------------------------------------------------------------------------
(* What each action does. *)

\* Everybody but one owner keeps what they had.
OthersKeep(object) == \A other \in Owners \ {object} : TakesOver(other, other)

\* What is the same before and after a heap in between is the same altogether.
LEMMA SameThrough ==
    ASSUME NEW memory, NEW between, NEW after, NEW address,
           Same(memory, between, address), Same(between, after, address)
    PROVE  Same(memory, after, address)
<1>1. between[address] = memory[address]
  BY DEF Same
<1>2. Inner(between, address) = Inner(memory, address)
  BY <1>1 DEF Inner
<1>3. /\ address \in DOMAIN after /\ after[address] = memory[address]
      /\ after[Inner(memory, address)] = memory[Inner(memory, address)]
  BY <1>2 DEF Same
<1>4. /\ Inside(after, address) = Inside(memory, address)
      /\ after[Inside(memory, address)] = memory[Inside(memory, address)]
  BY DEF Same
<1> QED
  BY <1>3, <1>4 DEF Same

\* A new message has no section, and changes nothing else.
LEMMA NewEffect ==
    ASSUME Inv, NEW object \in Objects, New(object)
    PROVE  /\ Refer(section', heap') /\ Sound(heap')
           /\ OthersKeep(object)
           /\ Decoded(object)' = [is |-> "map", at |-> <<>>]
<1>1. section \in [Owners -> DOMAIN heap \cup {Null, NoMessage}] /\ object \in Owners
  BY DEF Inv, Refer, Owners
<1>2. section' = [section EXCEPT ![object] = Null] /\ heap' = heap
  BY DEF New
<1>3. Refer(section', heap')
  BY <1>1, <1>2 DEF Refer
<1>4. Sound(heap)
  BY DEF Inv
<1>5. OthersKeep(object)
  <2> SUFFICES ASSUME NEW other \in Owners \ {object}
               PROVE  TakesOver(other, other)
    BY DEF OthersKeep
  <2>1. section'[other] = section[other]
    BY <1>1, <1>2
  <2>2. section[other] \in DOMAIN heap => Same(heap, heap, section[other])
    BY <1>4, SameAsItself
  <2> QED
    BY <1>2, <2>1, <2>2 DEF TakesOver
<1>6. Decoded(object)' = [is |-> "map", at |-> <<>>]
  <2>1. section'[object] = Null
    BY <1>1, <1>2
  <2> QED
    BY <2>1 DEF Decoded, Null, NoMessage
<1> QED
  BY <1>2, <1>3, <1>4, <1>5, <1>6

\* A message that is received or cloned shares the section of its source.
LEMMA HandlerEffect ==
    ASSUME Inv, NEW object \in Objects, NEW source \in Owners, SetMessageHandler(object, source)
    PROVE  /\ Refer(section', heap') /\ Sound(heap')
           /\ OthersKeep(object) /\ TakesOver(object, source)
<1>1. section \in [Owners -> DOMAIN heap \cup {Null, NoMessage}] /\ object \in Owners
  BY DEF Inv, Refer, Owners
<1>2. section' = [section EXCEPT ![object] = section[source]] /\ heap' = Collected(heap, section')
  BY DEF SetMessageHandler
<1>3. Refer(section', heap)
  BY <1>1, <1>2 DEF Refer
<1>4. Sound(heap)
  BY DEF Inv
<1>5. /\ Sound(heap') /\ Refer(section', heap')
      /\ \A owner \in Owners : section'[owner] \in DOMAIN heap => Same(heap, heap', section'[owner])
  BY <1>2, <1>3, <1>4, CollectedKeeps
<1>6. /\ section'[object] = section[source]
      /\ \A other \in Owners \ {object} : section'[other] = section[other]
  BY <1>1, <1>2
<1>7. OthersKeep(object)
  BY <1>5, <1>6 DEF OthersKeep, TakesOver
<1>8. TakesOver(object, source)
  BY <1>1, <1>5, <1>6 DEF TakesOver
<1> QED
  BY <1>5, <1>7, <1>8

\* A message that is destroyed is gone, for nobody else.
LEMMA DestroyEffect ==
    ASSUME Inv, NEW object \in Owners, Destroy(object)
    PROVE  /\ Refer(section', heap') /\ Sound(heap')
           /\ OthersKeep(object) /\ Decoded(object)' = [is |-> "absent"]
<1>1. section \in [Owners -> DOMAIN heap \cup {Null, NoMessage}]
  BY DEF Inv, Refer
<1>2. section' = [section EXCEPT ![object] = NoMessage] /\ heap' = Collected(heap, section')
  BY DEF Destroy
<1>3. Refer(section', heap)
  BY <1>1, <1>2 DEF Refer
<1>4. Sound(heap)
  BY DEF Inv
<1>5. /\ Sound(heap') /\ Refer(section', heap')
      /\ \A owner \in Owners : section'[owner] \in DOMAIN heap => Same(heap, heap', section'[owner])
  BY <1>2, <1>3, <1>4, CollectedKeeps
<1>6. /\ section'[object] = NoMessage
      /\ \A other \in Owners \ {object} : section'[other] = section[other]
  BY <1>1, <1>2
<1>7. OthersKeep(object)
  BY <1>5, <1>6 DEF OthersKeep, TakesOver
<1>8. Decoded(object)' = [is |-> "absent"]
  BY <1>6 DEF Decoded, Null, NoMessage
<1> QED
  BY <1>5, <1>7, <1>8

\* A setter writes a copy, which one object sees.
LEMMA WriteEffect ==
    ASSUME Inv, NEW object \in Objects, NEW key \in Keys, NEW value \in Kept,
           Write(object, key, value)
    PROVE  /\ Refer(section', heap') /\ Sound(heap')
           /\ OthersKeep(object) /\ Formed(object)'
           /\ Decoded(object) = [is |-> "map", at |-> Decoded(object).at]
           /\ Decoded(object)' = [is |-> "map",
                                  at |-> Values!Assigned(Decoded(object).at, key[2], value)]
<1> DEFINE old == IF section[object] = Null THEN Map(<<>>)
                  ELSE heap[Inside(heap, section[object])]
           where == IntoACopy(object)
           container == [kind |-> IF part = "properties" THEN "properties" ELSE "map",
                         entries |-> CopiedAndSet(old.entries, key, value)]
           root == IF WrapsAnnotations THEN Fresh(DOMAIN heap \cup {where}) ELSE where
           stored == [address \in DOMAIN heap \cup {where, root} |->
                          IF address = where THEN container
                          ELSE IF address = root THEN Described(where)
                          ELSE heap[address]]
<1>1. /\ section[object] # NoMessage /\ old.kind # "list"
      /\ section' = [section EXCEPT ![object] = root]
      /\ heap' = Collected(stored, section')
      /\ part' = part
  BY DEF Write
<1>2. section \in [Owners -> DOMAIN heap \cup {Null, NoMessage}] /\ object \in Owners
  BY DEF Inv, Refer, Owners
<1>3. Sound(heap)
  BY DEF Inv
<1>4. section[object] \in DOMAIN heap \/ section[object] = Null
  BY <1>1, <1>2
<1>5. /\ old \in [kind : {"map", "properties"}, entries : Seq(Entries)]
      /\ Decoded(object) = [is |-> "map", at |-> Shown(old.entries)]
  <2>1. CASE section[object] = Null
    <3>1. old = Map(<<>>)
      BY <2>1
    <3>2. old.entries = <<>> /\ old \in [kind : {"map", "properties"}, entries : Seq(Entries)]
      <4>1. <<>> \in Seq(Entries)
        OBVIOUS
      <4>2. old = [kind |-> "map", entries |-> <<>>]
        BY <3>1 DEF Map
      <4> HIDE DEF old
      <4> QED
        BY <4>1, <4>2
    <3>3. Shown(<<>>) = <<>>
      BY DEF Shown
    <3> QED
      BY <2>1, <3>2, <3>3 DEF Decoded, Null, NoMessage
  <2>2. CASE section[object] \in DOMAIN heap
    <3>1. section[object] # Null /\ section[object] # NoMessage
      BY <1>3, <2>2 DEF Sound, Null, NoMessage
    <3>2. old = heap[Inside(heap, section[object])]
      BY <3>1
    <3>3. old \in Stored(DOMAIN heap) /\ old.kind # "described"
      BY <1>3, <2>2, <3>2, Reaching DEF Sound
    <3>4. old \in [kind : {"map", "properties"}, entries : Seq(Entries)]
      BY <1>1, <3>3 DEF Stored, List
    <3>5. Decoded(object) = [is |-> "map", at |-> Shown(old.entries)]
      BY <1>1, <3>1, <3>2 DEF Decoded
    <3> QED
      BY <3>4, <3>5
  <2> QED
    BY <1>4, <2>1, <2>2
<1> HIDE DEF old
<1>6. /\ old.entries \in Seq(Entries)
      /\ CopiedAndSet(old.entries, key, value) \in Seq(Entries)
      /\ Shown(CopiedAndSet(old.entries, key, value))
            = Values!Assigned(Shown(old.entries), key[2], value)
  <2>1. old.entries \in Seq(Entries)
    BY <1>5
  <2> QED
    BY <2>1, SetIsShown
<1>7. /\ container \in [kind : {"map", "properties"}, entries : Seq(Entries)]
      /\ container.entries = CopiedAndSet(old.entries, key, value)
      /\ container.kind = IF part = "properties" THEN "properties" ELSE "map"
  BY <1>6
<1> HIDE DEF container
<1>8. where \in Nat \ {0} /\ where \notin DOMAIN heap
  <2>1. DOMAIN heap \in SUBSET Nat /\ IsFiniteSet(DOMAIN heap)
    BY <1>3 DEF Sound
  <2> QED
    BY <2>1, FreshIsFree DEF IntoACopy
<1> HIDE DEF where
<1>9. /\ root \in Nat \ {0} /\ root \notin DOMAIN heap
      /\ WrapsAnnotations => root # where
      /\ ~WrapsAnnotations => root = where
  <2>1. DOMAIN heap \cup {where} \in SUBSET Nat
    BY <1>3, <1>8 DEF Sound
  <2>2. IsFiniteSet(DOMAIN heap \cup {where})
    BY <1>3, FS_AddElement DEF Sound
  <2>3. /\ Fresh(DOMAIN heap \cup {where}) \in Nat \ {0}
        /\ Fresh(DOMAIN heap \cup {where}) \notin DOMAIN heap \cup {where}
    BY <2>1, <2>2, FreshIsFree
  <2> QED
    BY <1>8, <2>3
<1> HIDE DEF root
<1>10. /\ Sound(stored)
       /\ \A address \in DOMAIN heap : Same(heap, stored, address)
       /\ stored[where] = container /\ Inside(stored, root) = where
       /\ root \in DOMAIN stored
       /\ root # where => stored[root] = Described(where)
  <2>1. /\ DOMAIN stored = DOMAIN heap \cup {where, root}
        /\ stored[where] = container
        /\ root # where => stored[root] = Described(where)
        /\ \A address \in DOMAIN heap : stored[address] = heap[address]
    BY <1>8, <1>9
  <2> HIDE DEF stored
  <2>2. StoredAt(heap, where, root, stored)
    BY <1>7, <1>8, <1>9, <2>1 DEF StoredAt
  <2> QED
    BY <1>3, <2>1, <2>2, StoredApart
<1>11. DOMAIN stored = DOMAIN heap \cup {where, root}
  OBVIOUS
<1> HIDE DEF stored
<1>12. section'[object] = root /\ \A other \in Owners \ {object} : section'[other] = section[other]
  BY <1>1, <1>2
<1>13. Refer(section', stored)
  BY <1>1, <1>2, <1>11 DEF Refer
<1>14. /\ Sound(heap') /\ Refer(section', heap')
       /\ \A owner \in Owners : section'[owner] \in DOMAIN stored
                                  => Same(stored, heap', section'[owner])
  BY <1>1, <1>10, <1>13, CollectedKeeps
<1>15. OthersKeep(object)
  <2> SUFFICES ASSUME NEW other \in Owners \ {object}
               PROVE  TakesOver(other, other)
    BY DEF OthersKeep
  <2>1. ASSUME section[other] \in DOMAIN heap
        PROVE  Same(heap, heap', section[other])
    <3>1. Same(heap, stored, section[other]) /\ section[other] \in DOMAIN stored
      BY <1>10, <1>11, <2>1
    <3>2. Same(stored, heap', section[other])
      BY <1>12, <1>14, <3>1
    <3> QED
      BY <3>1, <3>2, SameThrough
  <2> QED
    BY <1>12, <2>1 DEF TakesOver
<1>16. Same(stored, heap', root)
  BY <1>2, <1>10, <1>12, <1>14
<1>17. /\ root \in DOMAIN heap' /\ heap'[root] = stored[root]
       /\ Inside(heap', root) = where /\ heap'[where] = container
  BY <1>10, <1>16 DEF Same
<1>18. root # Null /\ root # NoMessage
  BY <1>9 DEF Null, NoMessage
<1>19. Decoded(object)' = [is |-> "map", at |-> Shown(container.entries)]
  <2>1. container.kind # "list"
    BY <1>7
  <2> QED
    BY <1>12, <1>17, <1>18, <2>1 DEF Decoded
<1>20. Decoded(object)' = [is |-> "map",
                           at |-> Values!Assigned(Decoded(object).at, key[2], value)]
  BY <1>5, <1>6, <1>7, <1>19
<1>21. Formed(object)'
  <2>3. heap'[Inside(heap', root)].kind # "list"
    BY <1>7, <1>17
  <2>4. CASE WrapsAnnotations
    <3>1. heap'[root] = Described(where) /\ part = "message_annotations"
      BY <1>9, <1>10, <1>17, <2>4 DEF WrapsAnnotations
    <3>2. heap'[root].kind = "described" /\ heap'[root].inner = where
      BY <3>1 DEF Described
    <3>3. heap'[where].kind = "map"
      BY <1>7, <1>17, <3>1
    <3> QED
      BY <1>1, <1>12, <1>17, <2>3, <3>1, <3>2, <3>3 DEF Formed
  <2>5. CASE ~WrapsAnnotations
    <3>1. root = where /\ part # "message_annotations"
      BY <1>9, <2>5 DEF WrapsAnnotations
    <3>2. heap'[root].kind \in {"map", "properties"}
      BY <1>7, <1>17, <3>1
    <3> QED
      BY <1>1, <1>12, <1>17, <2>3, <3>1, <3>2 DEF Formed
  <2> QED
    BY <2>4, <2>5
<1> QED
  BY <1>5, <1>14, <1>15, <1>20, <1>21

\* What is written for a call, under a key and a value that the call becomes.
WritesFor(object, key, value, call) ==
    /\ Write(object, key, value)
    /\ key \in Keys /\ value \in Kept /\ call \in Call
    /\ key[2] = UpToNul(call.name) /\ value = Converted(call)
    /\ set' = [set EXCEPT ![object] = call]

\* Afterwards the call is what was written.
LEMMA WriteIsWritten ==
    ASSUME Inv, NEW object \in Objects, NEW key, NEW value, NEW call,
           WritesFor(object, key, value, call)
    PROVE  Written(object)'
<1>1. /\ Formed(object)'
      /\ Decoded(object)' = [is |-> "map",
                             at |-> Values!Assigned(Decoded(object).at, key[2], value)]
  BY WriteEffect DEF WritesFor
<1>2. set'[object] = call
  BY DEF WritesFor, Inv, Types
<1>3. Decoded(object)'.at[key[2]] = value
  BY <1>1 DEF Values!Assigned
<1> QED
  BY <1>1, <1>2, <1>3 DEF Written, WritesFor

\* set_metadata and setMessageId write for a call.
LEMMA SetterWrites ==
    ASSUME NEW object \in Objects, NEW call \in Calls,
           SetMetadata(object, call) \/ SetMessageId(object, call)
    PROVE  \E key, value, other :
               /\ WritesFor(object, key, value, other)
               /\ key[2] \in {UpToNul(one.name) : one \in Calls} \cup {MessageId[2]}
               /\ value \in {Converted(one) : one \in Calls}
<1>1. call \in Call
  BY CallsAssumption
<1>2. CASE SetMetadata(object, call)
  <2>1. KeyOf(call.name) \in Keys /\ KeyOf(call.name)[2] = UpToNul(call.name)
    <3>1. call.name \in Text
      BY <1>1 DEF Call
    <3>2. UpToNul(call.name) \in Text
      BY <3>1, CutText
    <3> QED
      BY <3>2 DEF KeyOf, KeyType, Keys
  <2>2. WritesFor(object, KeyOf(call.name), Converted(call), call)
    BY <1>1, <1>2, <2>1, ConvertedType DEF SetMetadata, WritesFor
  <2>3. /\ KeyOf(call.name)[2] \in {UpToNul(one.name) : one \in Calls} \cup {MessageId[2]}
        /\ Converted(call) \in {Converted(one) : one \in Calls}
    BY <2>1
  <2> QED
    BY <2>2, <2>3
<1>3. CASE SetMessageId(object, call)
  <2> DEFINE other == [call EXCEPT !.name = MessageId[2]]
  <2>1. MessageId \in Keys /\ MessageId[2] \in Text /\ UpToNul(MessageId[2]) = MessageId[2]
    <3>1. MessageId \in Keys /\ MessageId[2] = <<"id">> /\ MessageId[2] \in Text
      <4>1. "id" \in Pieces
        BY PiecesAssumption
      <4>2. <<"id">> \in Text
        BY <4>1, OnePiece
      <4> QED
        BY <4>2 DEF MessageId, Keys
    <3>2. \A i \in DOMAIN MessageId[2] : MessageId[2][i] # "nul"
      BY <3>1
    <3> QED
      BY <3>1, <3>2, CutText
  <2>2. other \in Call /\ other.name = MessageId[2] /\ Converted(other) = Converted(call)
    BY <1>1, <2>1 DEF Call, Converted
  <2>3. WritesFor(object, MessageId, Converted(call), other)
    BY <1>1, <1>3, <2>1, <2>2, ConvertedType DEF SetMessageId, WritesFor
  <2>4. Converted(call) \in {Converted(one) : one \in Calls}
    OBVIOUS
  <2> QED
    BY <2>3, <2>4
<1> QED
  BY <1>2, <1>3

-----------------------------------------------------------------------------
(* The invariant is one. *)

\* What deliveries bring is a sound heap.
LEMMA DeliveredIsSound ==
    ASSUME Init
    PROVE  Sound(heap)
<1>1. CASE heap = <<>>
  <2>1. DOMAIN heap = {}
    BY <1>1
  <2> QED
    BY <2>1, FS_EmptySet DEF Sound
<1>2. ASSUME NEW id \in {<<>>, <<Entry(MessageId, Brought)>>},
             heap = <<Properties(Append(id, Entry(To, Brought)))>>
      PROVE  Sound(heap)
  <2> DEFINE entries == Append(id, Entry(To, Brought))
  <2>1. entries \in Seq(Entries)
    <3>1. Entry(MessageId, Brought) \in Entries /\ Entry(To, Brought) \in Entries
      <4>1. <<"id">> \in Text /\ <<"to">> \in Text /\ <<>> \in Text
        <5>1. "id" \in Pieces /\ "to" \in Pieces
          BY PiecesAssumption
        <5> QED
          BY <5>1, OnePiece
      <4>2. MessageId \in {"string", "symbol"} \X Text /\ To \in {"string", "symbol"} \X Text
        BY <4>1 DEF MessageId, To
      <4>3. Brought \in Kept
        BY <4>1 DEF Brought, Kept
      <4> QED
        BY <4>2, <4>3 DEF Entry, Entries
    <3>2. <<>> \in Seq(Entries) /\ <<Entry(MessageId, Brought)>> \in Seq(Entries)
      BY <3>1
    <3>3. id \in Seq(Entries)
      BY <3>2, Zenon
    <3> QED
      BY <3>1, <3>3
  <2>2. DOMAIN heap = {1} /\ heap[1] = [kind |-> "properties", entries |-> entries]
    BY <1>2 DEF Properties
  <2> HIDE DEF entries
  <2>3. heap[1] \in Stored({1}) /\ heap[1].kind # "described"
    BY <2>1, <2>2 DEF Stored
  <2>4. Inside(heap, 1) = 1
    BY <2>3 DEF Inside, Inner
  <2>5. IsFiniteSet({1})
    BY FS_Singleton
  <2> QED
    BY <2>2, <2>3, <2>4, <2>5 DEF Sound
<1>3. ASSUME NEW what \in {List} \cup {Map(entries) : entries \in Delivered},
             NEW depth \in 0 .. 2, heap = Nested(what, depth)
      PROVE  Sound(heap)
  <2>1. DOMAIN heap = 1 .. depth + 1
    BY <1>3 DEF Nested
  <2>2. IsFiniteSet(DOMAIN heap) /\ DOMAIN heap \subseteq Nat \ {0}
    <3>1. IsFiniteSet(1 .. depth + 1)
      BY FS_Interval
    <3> QED
      BY <2>1, <3>1
  <2>3. /\ what \in Stored(DOMAIN heap) /\ what.kind # "described"
    <3>1. CASE what = List
      BY <3>1 DEF Stored, List
    <3>2. CASE what \in {Map(entries) : entries \in Delivered}
      BY <3>2, DeliveredAssumption DEF Stored, Map
    <3> QED
      BY <3>1, <3>2
  <2>4. /\ heap[depth + 1] = what
        /\ \A address \in 1 .. depth :
               /\ heap[address] = [kind |-> "described", inner |-> address + 1]
               /\ heap[address].kind = "described" /\ heap[address].inner = address + 1
               /\ address \in Nat /\ address + 1 \in 1 .. depth + 1
    BY <1>3 DEF Nested, Described
  <2>5. Inner(heap, depth + 1) = depth + 1
    BY <2>3, <2>4 DEF Inner
  <2>6. \A address \in 1 .. depth : Inner(heap, address) = address + 1
    BY <2>4 DEF Inner
  <2>7. \A address \in 1 .. depth + 1 : Inside(heap, address) = depth + 1
    BY <2>5, <2>6 DEF Inside
  <2>8. \A address \in 1 .. depth : heap[address] \in Stored(DOMAIN heap)
    <3> SUFFICES ASSUME NEW address \in 1 .. depth
                 PROVE  heap[address] \in Stored(DOMAIN heap)
      OBVIOUS
    <3>1. /\ heap[address] = [kind |-> "described", inner |-> address + 1]
          /\ address + 1 \in DOMAIN heap
      BY <2>1, <2>4
    <3> QED
      BY <3>1 DEF Stored
  <2> QED
    BY <2>1, <2>2, <2>3, <2>4, <2>7, <2>8 DEF Sound
<1> QED
  BY <1>1, <1>2, <1>3 DEF Init

\* Nothing has been set when a delivery arrives.
LEMMA InitiallyInv == Init => Inv
<1> SUFFICES ASSUME Init
             PROVE  Inv
  OBVIOUS
<1>1. Types /\ \A object \in Objects : set[object] = Unset
  BY DEF Init, Types
<1>2. Sound(heap)
  BY DeliveredIsSound
<1>3. Refer(section, heap)
  <2>1. heap = <<>> \/ 1 \in DOMAIN heap
    BY DEF Init, Nested
  <2> QED
    BY <2>1 DEF Init, Refer
<1> QED
  BY <1>1, <1>2, <1>3 DEF Inv

\* Nothing has been set for an object without a section.
LEMMA NothingWritten ==
    ASSUME Inv, NEW object \in Objects, section[object] \in {Null, NoMessage}
    PROVE  set[object] = Unset
  BY DEF Inv, Written, Formed, Sound, Null, NoMessage

\* Every step keeps the invariant.
LEMMA InvKept == Inv /\ [Next]_vars => Inv'
<1> SUFFICES ASSUME Inv, [Next]_vars
             PROVE  Inv'
  OBVIOUS
<1>1. Objects \subseteq Owners /\ Delivery \notin Objects
  BY ObjectsAssumption DEF Owners
<1>2. set \in [Objects -> Call \cup {Unset}]
  BY DEF Inv, Types
<1>3. ASSUME NEW object \in Owners, OthersKeep(object), part' = part,
             \A other \in Objects \ {object} : set'[other] = set[other]
      PROVE  \A other \in Objects \ {object} : set'[other] # Unset => Written(other)'
  <2> SUFFICES ASSUME NEW other \in Objects \ {object}, set'[other] # Unset
               PROVE  Written(other)'
    OBVIOUS
  <2>1. TakesOver(other, other) /\ set'[other] = set[other]
    BY <1>1, <1>3 DEF OthersKeep
  <2>2. Written(other)
    BY <2>1 DEF Inv
  <2> QED
    BY <1>3, <2>1, <2>2, WrittenIsTakenOver
<1>4. ASSUME NEW object \in Objects, New(object)
      PROVE  Inv'
  <2>1. part' = part /\ set' = set
    BY <1>4 DEF New
  <2>2. set[object] = Unset
    BY <1>4, NothingWritten DEF New
  <2>3. Types'
    BY <2>1 DEF Inv, Types
  <2>4. \A other \in Objects \ {object} : set'[other] # Unset => Written(other)'
    BY <1>1, <1>3, <1>4, <2>1, NewEffect
  <2> QED
    BY <1>4, <2>1, <2>2, <2>3, <2>4, NewEffect DEF Inv
<1>5. ASSUME NEW object \in Objects, NEW source \in Owners, SetMessageHandler(object, source)
      PROVE  Inv'
  <2>1. /\ part' = part /\ section[object] = NoMessage
        /\ set' = IF source = Delivery THEN set ELSE [set EXCEPT ![object] = set[source]]
    BY <1>5 DEF SetMessageHandler
  <2>2. set[object] = Unset
    BY <2>1, NothingWritten
  <2>3. source = Delivery \/ source \in Objects
    BY DEF Owners
  <2>4. /\ set' \in [Objects -> Call \cup {Unset}]
        /\ \A other \in Objects \ {object} : set'[other] = set[other]
        /\ set'[object] # Unset => source \in Objects /\ set'[object] = set[source]
    BY <1>2, <2>1, <2>2, <2>3
  <2>5. Types'
    BY <2>1, <2>4 DEF Inv, Types
  <2>6. \A other \in Objects \ {object} : set'[other] # Unset => Written(other)'
    BY <1>1, <1>3, <1>5, <2>1, <2>4, HandlerEffect
  <2>7. ASSUME set'[object] # Unset
        PROVE  Written(object)'
    <3>1. source \in Objects /\ set'[object] = set[source] /\ Written(source)
      BY <2>4, <2>7 DEF Inv
    <3>2. TakesOver(object, source)
      BY <1>5, HandlerEffect
    <3> QED
      BY <2>1, <3>1, <3>2, WrittenIsTakenOver
  <2> QED
    BY <1>5, <2>5, <2>6, <2>7, HandlerEffect DEF Inv
<1>6. ASSUME NEW owner \in Owners, Destroy(owner)
      PROVE  Inv'
  <2>1. /\ part' = part
        /\ set' = [object \in Objects |-> IF object = owner THEN Unset ELSE set[object]]
    BY <1>6 DEF Destroy
  <2>2. /\ set' \in [Objects -> Call \cup {Unset}]
        /\ \A other \in Objects \ {owner} : set'[other] = set[other]
        /\ owner \in Objects => set'[owner] = Unset
    BY <1>2, <2>1
  <2>3. Types'
    BY <2>1, <2>2 DEF Inv, Types
  <2>4. \A other \in Objects \ {owner} : set'[other] # Unset => Written(other)'
    BY <1>3, <1>6, <2>1, <2>2, DestroyEffect
  <2> QED
    BY <1>6, <2>2, <2>3, <2>4, DestroyEffect DEF Inv
<1>7. ASSUME NEW object \in Objects, NEW call \in Calls,
             SetMetadata(object, call) \/ SetMessageId(object, call)
      PROVE  Inv'
  <2>1. PICK key, value, other : WritesFor(object, key, value, other)
    BY <1>7, SetterWrites
  <2>2. /\ other \in Call /\ set' = [set EXCEPT ![object] = other] /\ part' = part
        /\ Write(object, key, value) /\ key \in Keys /\ value \in Kept
    BY <2>1 DEF WritesFor, Write
  <2>3. /\ set' \in [Objects -> Call \cup {Unset}]
        /\ \A one \in Objects \ {object} : set'[one] = set[one]
    BY <1>2, <2>2
  <2>4. Types'
    BY <2>2, <2>3 DEF Inv, Types
  <2>5. Refer(section', heap') /\ Sound(heap') /\ OthersKeep(object)
    BY <2>2, WriteEffect
  <2>6. \A one \in Objects \ {object} : set'[one] # Unset => Written(one)'
    BY <1>1, <1>3, <2>2, <2>3, <2>5
  <2>7. Written(object)'
    BY <2>1, WriteIsWritten
  <2> QED
    BY <2>4, <2>5, <2>6, <2>7 DEF Inv
<1>8. CASE UNCHANGED vars
  BY <1>8 DEF vars, Inv, Types, Written, Formed, Decoded
<1> QED
  BY <1>4, <1>5, <1>6, <1>7, <1>8 DEF Next

\* It holds in every reachable state.
LEMMA InvHolds == Spec => []Inv
  BY InitiallyInv, InvKept, PTL DEF Spec

-----------------------------------------------------------------------------
(* The theorems. *)

\* TypeOK: sections refer to addresses in use, and nothing stored there refers to
\* another.
THEOREM TypeCorrect == Spec => []TypeOK
<1>1. Inv => TypeOK
  BY DEF Inv, Types, Refer, Sound, Stored, TypeOK
<1> QED
  BY <1>1, InvHolds, PTL

\* WrappedOnce, for any objects, delivered maps and values: what set_metadata and
\* setMessageId store is described once for annotations and not at all otherwise.
THEOREM WrapsOnce == Spec => []WrappedOnce
<1>1. Inv => WrappedOnce
  BY DEF Inv, Written, Formed, WrappedOnce
<1> QED
  BY <1>1, InvHolds, PTL

\* ReadsBackWhatWasSet, for any calls: the getters show what the last setter was given,
\* on clones too, and over entries that have the same name under another type of key;
\* all of it if it fits, and else the low 32 bits and what comes before a NUL.
THEOREM ReadsBack == Spec => []ReadsBackWhatWasSet
<1>1. Inv => ReadsBackWhatWasSet
  <2> SUFFICES ASSUME Inv, NEW object \in Objects, set[object] # Unset
               PROVE  LET call == set[object]
                          shown == Decoded(object).at
                      IN /\ shown[UpToNul(call.name)] = Converted(call)
                         /\ StoredWhole(call)
                               => shown[call.name] = [number |-> call.number, text |-> call.text]
    BY DEF ReadsBackWhatWasSet
  <2>1. set[object] \in Call
    BY DEF Inv, Types
  <2>2. Decoded(object).at[UpToNul(set[object].name)] = Converted(set[object])
    BY DEF Inv, Written
  <2>3. ASSUME StoredWhole(set[object])
        PROVE  /\ UpToNul(set[object].name) = set[object].name
               /\ Converted(set[object])
                     = [number |-> set[object].number, text |-> set[object].text]
    BY <2>1, <2>3, WholeIsKept
  <2> QED
    BY <2>2, <2>3
<1> QED
  BY <1>1, InvHolds, PTL

\* Nothing is seen in a message that does not exist yet.
LEMMA InitIsMapped == Init => Values!Init
<1> SUFFICES ASSUME Init, NEW object \in Objects
             PROVE  [owner \in Owners |-> Decoded(owner)][object] = Values!Absent
  BY DEF Values!Init
<1>1. object \in Owners /\ section[object] = NoMessage
  BY ObjectsAssumption DEF Init, Owners
<1>2. Decoded(object) = [is |-> "absent"]
  BY <1>1 DEF Decoded, Null, NoMessage
<1> QED
  BY <1>1, <1>2 DEF Values!Absent

\* Every step is one of the values, or shows nothing.
LEMMA StepIsMapped ==
    ASSUME Inv, [Next]_vars
    PROVE  [Values!Next]_([owner \in Owners |-> Decoded(owner)])
<1> DEFINE value == [owner \in Owners |-> Decoded(owner)]
           after == [owner \in Owners |-> Decoded(owner)']
<1>1. Objects \subseteq Owners /\ Owners = Objects \cup {Delivery}
  BY DEF Owners
<1>2. ASSUME NEW object \in Owners, OthersKeep(object)
      PROVE  after = [value EXCEPT ![object] = Decoded(object)']
  <2>1. \A other \in Owners \ {object} : Decoded(other)' = Decoded(other)
    BY <1>2, LooksTheSame DEF OthersKeep
  <2> QED
    BY <2>1
<1>3. ASSUME NEW object \in Objects, New(object)
      PROVE  Values!Next
  <2>1. value[object] = Values!Absent
    BY <1>1, <1>3 DEF New, Decoded, Null, NoMessage, Values!Absent
  <2>2. after = [value EXCEPT ![object] = Values!Empty]
    BY <1>1, <1>2, <1>3, NewEffect DEF Values!Empty
  <2>3. Values!Appear(object)
    BY <2>1, <2>2 DEF Values!Appear
  <2> QED
    BY <2>3 DEF Values!Next
<1>4. ASSUME NEW object \in Objects, NEW source \in Owners, SetMessageHandler(object, source)
      PROVE  Values!Next
  <2>1. value[object] = Values!Absent
    BY <1>1, <1>4 DEF SetMessageHandler, Decoded, Null, NoMessage, Values!Absent
  <2>2. Decoded(object)' = value[source]
    BY <1>1, <1>4, HandlerEffect, LooksTheSame
  <2>3. after = [value EXCEPT ![object] = value[source]]
    BY <1>1, <1>2, <1>4, <2>2, HandlerEffect
  <2>4. Values!Appear(object)
    BY <1>1, <2>1, <2>3 DEF Values!Appear
  <2> QED
    BY <2>4 DEF Values!Next
<1>5. ASSUME NEW owner \in Owners, Destroy(owner)
      PROVE  Values!Next
  <2>1. after = [value EXCEPT ![owner] = Values!Absent]
    BY <1>2, <1>5, DestroyEffect DEF Values!Absent
  <2>2. Values!Disappear(owner)
    BY <2>1 DEF Values!Disappear
  <2> QED
    BY <1>1, <2>2 DEF Values!Next
<1>6. ASSUME NEW object \in Objects, NEW call \in Calls,
             SetMetadata(object, call) \/ SetMessageId(object, call)
      PROVE  Values!Next
  <2>0. PICK key, new, other :
            /\ WritesFor(object, key, new, other)
            /\ key[2] \in {UpToNul(one.name) : one \in Calls} \cup {MessageId[2]}
            /\ new \in {Converted(one) : one \in Calls}
    BY <1>6, SetterWrites
  <2>01. Write(object, key, new) /\ key \in Keys /\ new \in Kept
    BY <2>0 DEF WritesFor
  <2>1. /\ value[object] = Decoded(object)
        /\ Decoded(object) = [is |-> "map", at |-> Decoded(object).at]
    BY <1>1, <2>01, WriteEffect
  <2>2. after = [value EXCEPT ![object] =
                     [is |-> "map", at |-> Values!Assigned(Decoded(object).at, key[2], new)]]
    <3>1. /\ OthersKeep(object)
          /\ Decoded(object)' = [is |-> "map",
                                 at |-> Values!Assigned(Decoded(object).at, key[2], new)]
      BY <2>01, WriteEffect
    <3>2. after = [value EXCEPT ![object] = Decoded(object)']
      BY <1>1, <1>2, <3>1
    <3> QED
      BY <3>1, <3>2
  <2>3. after = [value EXCEPT ![object].at = Values!Assigned(@, key[2], new)]
    <3>1. value[object] = [is |-> "map", at |-> Decoded(object).at]
      BY <2>1
    <3> DEFINE old == Decoded(object).at
               entry == Values!Assigned(old, key[2], new)
    <3>2. value[object].at = old
      BY <3>1
    <3>3. [value EXCEPT ![object].at = Values!Assigned(@, key[2], new)]
              = [value EXCEPT ![object].at = entry]
      BY <3>2
    <3>4. after = [value EXCEPT ![object] = [is |-> "map", at |-> entry]]
      BY <2>2
    <3> HIDE DEF value, after, old, entry
    <3>5. [value EXCEPT ![object].at = entry]
              = [value EXCEPT ![object] = [is |-> "map", at |-> entry]]
      <4>1. [value[object] EXCEPT !.at = entry] = [is |-> "map", at |-> entry]
        BY <3>1
      <4> QED
        BY <4>1
    <3> QED
      BY <3>3, <3>4, <3>5
  <2>4. value[object].is = "map"
    BY <2>1
  <2> HIDE DEF value, after
  <2>5. Values!Set(object, key[2], new)
    BY <2>3, <2>4 DEF Values!Set, value, after
  <2> QED
    BY <2>0, <2>5 DEF Values!Next
<1>7. CASE UNCHANGED vars
  BY <1>7 DEF vars, Decoded
<1> QED
  BY <1>3, <1>4, <1>5, <1>6, <1>7 DEF Next

\* ActsAsValues, the refinement of MessageValues: objects that share sections act as
\* if each had a copy of its own, whoever sets, clones, receives or is destroyed.
THEOREM ActAsValues == Spec => ActsAsValues
<1>1. Spec => []Inv
  BY InvHolds
<1>2. Init => Values!Init
  BY InitIsMapped
<1>3. Inv /\ [Next]_vars => [Values!Next]_([owner \in Owners |-> Decoded(owner)])
  BY StepIsMapped
<1> QED
  BY <1>1, <1>2, <1>3, PTL DEF Spec, ActsAsValues, Values!Spec

-----------------------------------------------------------------------------
(* The text of a body. *)

\* The concatenation of the first pieces, for any number of them.
Concatenates(total, pieces, n) ==
    /\ total[0] = <<>>
    /\ \A i \in 1 .. n : total[i] = total[i - 1] \o pieces[i]

\* Pieces can be concatenated.
LEMMA ConcatenationExists ==
    ASSUME NEW n \in Nat, NEW S, NEW pieces, \A i \in 1 .. n : pieces[i] \in Seq(S)
    PROVE  \E total \in [0 .. n -> Seq(S)] : Concatenates(total, pieces, n)
<1> DEFINE Reached == {m \in Nat : \E total \in [0 .. m -> Seq(S)] : Concatenates(total, pieces, m)}
<1>1. 0 \in Reached
  <2>1. [i \in 0 .. 0 |-> <<>>] \in [0 .. 0 -> Seq(S)]
    OBVIOUS
  <2>2. Concatenates([i \in 0 .. 0 |-> <<>>], pieces, 0)
    BY DEF Concatenates
  <2> QED
    BY <2>1, <2>2
<1>2. ASSUME NEW m \in 0 .. n - 1, m \in Reached
      PROVE  m + 1 \in Reached
  <2>1. PICK total \in [0 .. m -> Seq(S)] : Concatenates(total, pieces, m)
    BY <1>2
  <2> DEFINE last == total[m] \o pieces[m + 1]
             longer == [i \in 0 .. m + 1 |-> IF i = m + 1 THEN last ELSE total[i]]
  <2>2. last \in Seq(S)
    <3>1. total[m] \in Seq(S) /\ pieces[m + 1] \in Seq(S)
      BY <2>1
    <3> QED
      BY <3>1, ConcatProperties
  <2>3. longer \in [0 .. m + 1 -> Seq(S)]
    <3> HIDE DEF last
    <3> QED
      BY <2>1, <2>2
  <2>4. longer[0] = <<>>
    BY <2>1 DEF Concatenates
  <2>5. ASSUME NEW i \in 1 .. m + 1
        PROVE  longer[i] = longer[i - 1] \o pieces[i]
    <3>1. CASE i = m + 1
      <4>1. longer[i] = last /\ longer[i - 1] = total[m]
        BY <3>1
      <4> QED
        BY <3>1, <4>1
    <3>2. CASE i \in 1 .. m
      <4>1. longer[i] = total[i] /\ longer[i - 1] = total[i - 1]
        BY <3>2
      <4> HIDE DEF longer
      <4> QED
        BY <2>1, <3>2, <4>1 DEF Concatenates
    <3>3. i = m + 1 \/ i \in 1 .. m
      OBVIOUS
    <3> HIDE DEF longer
    <3> QED
      BY <3>1, <3>2, <3>3
  <2> HIDE DEF longer
  <2>6. Concatenates(longer, pieces, m + 1)
    BY <2>4, <2>5 DEF Concatenates
  <2> QED
    BY <2>3, <2>6
<1>3. n \in Reached
  <2> HIDE DEF Reached
  <2>1. Reached \in SUBSET Nat
    BY DEF Reached
  <2>2. \A i \in 0 .. n : i \in Reached
    BY <1>1, <1>2, <2>1, CountingUp
  <2> QED
    BY <2>2
<1> QED
  BY <1>3

\* FlattenSeq computes it.
LEMMA FlattenConcatenates ==
    ASSUME NEW S, NEW seqs \in Seq(Seq(S)),
           NEW total \in [0 .. Len(seqs) -> Seq(S)], Concatenates(total, seqs, Len(seqs))
    PROVE  FlattenSeq(seqs) = total[Len(seqs)]
<1> DEFINE n == Len(seqs)
           Round(F) == [i \in 1 .. n |-> IF i = 1 THEN seqs[i] ELSE F[i - 1] \o seqs[i]]
           chosen == CHOOSE F : F = Round(F)
<1>1. n \in Nat /\ \A i \in 1 .. n : seqs[i] \in Seq(S)
  OBVIOUS
<1>2. CASE n = 0
  <2>1. FlattenSeq(seqs) = seqs /\ seqs = <<>>
    BY <1>2 DEF FlattenSeq
  <2> QED
    BY <1>2, <2>1 DEF Concatenates
<1>3. CASE n # 0
  <2>1. FlattenSeq(seqs) = chosen[n]
    BY <1>3 DEF FlattenSeq
  <2>2. 1 \in 1 .. n /\ total[1] = seqs[1]
    <3>1. 1 \in 1 .. n
      BY <1>1, <1>3
    <3>2. total[1] = total[1 - 1] \o seqs[1] /\ seqs[1] \in Seq(S)
      BY <1>1, <3>1 DEF Concatenates
    <3>3. 1 - 1 = 0 /\ total[0] = <<>>
      BY DEF Concatenates
    <3> QED
      BY <3>1, <3>2, <3>3, ConcatEmptySeq
  <2>3. \E F : F = Round(F)
    <3> DEFINE some == [i \in 1 .. n |-> total[i]]
    <3>1. ASSUME NEW i \in 1 .. n
          PROVE  some[i] = IF i = 1 THEN seqs[i] ELSE some[i - 1] \o seqs[i]
      <4>1. CASE i = 1
        BY <2>2, <4>1
      <4>2. CASE i # 1
        <5>1. i - 1 \in 1 .. n
          BY <4>2
        <5>2. total[i] = total[i - 1] \o seqs[i]
          BY DEF Concatenates
        <5> QED
          BY <4>2, <5>1, <5>2
      <4> QED
        BY <4>1, <4>2
    <3>2. some = Round(some)
      <4> SUFFICES \A i \in 1 .. n : some[i] = IF i = 1 THEN seqs[i] ELSE some[i - 1] \o seqs[i]
        OBVIOUS
      <4> QED
        BY <3>1
    <3> QED
      BY <3>2
  <2>4. chosen = Round(chosen)
    BY <2>3
  <2> HIDE DEF chosen
  <2>5. \A i \in 1 .. n : chosen[i] = IF i = 1 THEN seqs[i] ELSE chosen[i - 1] \o seqs[i]
    BY <2>4
  <2> DEFINE Equal == {i \in Nat : i \in 1 .. n => chosen[i] = total[i]}
  <2>6. ASSUME NEW i \in 0 .. n - 1, i \in Equal
        PROVE  i + 1 \in Equal
    <3>1. i + 1 \in 1 .. n /\ (i + 1) - 1 = i
      BY <1>1
    <3>2. CASE i = 0
      BY <2>2, <2>5, <3>2
    <3>3. CASE i # 0
      <4>1. i \in 1 .. n /\ chosen[i] = total[i]
        BY <1>1, <2>6, <3>3
      <4>2. chosen[i + 1] = chosen[(i + 1) - 1] \o seqs[i + 1]
        <5>1. i + 1 # 1
          BY <1>1, <3>3
        <5> QED
          BY <2>5, <3>1, <5>1
      <4>3. total[i + 1] = total[(i + 1) - 1] \o seqs[i + 1]
        BY <3>1 DEF Concatenates
      <4>4. chosen[i + 1] = total[i + 1]
        BY <3>1, <4>1, <4>2, <4>3
      <4> QED
        BY <4>4
    <3> QED
      BY <3>2, <3>3
  <2>7. \A i \in 0 .. n : i \in Equal
    <3>1. 0 \in Equal /\ Equal \in SUBSET Nat
      OBVIOUS
    <3> HIDE DEF Equal
    <3> QED
      BY <1>1, <2>6, <3>1, CountingUp
  <2>8. chosen[n] = total[n]
    <3>1. n \in 0 .. n /\ n \in 1 .. n
      BY <1>1, <1>3
    <3>2. n \in Equal
      BY <2>7, <3>1
    <3> QED
      BY <3>1, <3>2
  <2> QED
    BY <2>1, <2>8
<1> QED
  BY <1>2, <1>3

\* What separates a section from the one before it, and from the one after it.
SeparatorBefore(native, i) == IF native.type = "sequence" /\ i > 1 THEN <<"nl">> ELSE <<>>
SeparatorAfter(native, i) ==
    IF native.type = "sequence" /\ i # Len(native.parts) THEN <<"nl">> ELSE <<>>

\* The sections as getBody takes them.
Portions(native) ==
    [i \in 1 .. Len(native.parts) |-> SeparatorBefore(native, i) \o native.parts[i]]

\* Three sequences may be grouped either way.
Regroups(S) == \A a, b, c \in Seq(S) : (a \o b) \o c = a \o (b \o c)

\* Concatenation is associative.
LEMMA Associates ==
    ASSUME NEW S
    PROVE  Regroups(S)
<1> SUFFICES ASSUME NEW a \in Seq(S), NEW b \in Seq(S), NEW c \in Seq(S)
             PROVE  (a \o b) \o c = a \o (b \o c)
  BY DEF Regroups
<1> QED
  BY ConcatAssociative

\* What getBody finds: sections of texts, which concatenate to a total.
ReadsInto(object, S, native, total) ==
    /\ "nl" \in S
    /\ message[object].native = native
    /\ native.parts \in Seq(Seq(S))
    /\ total \in [0 .. Len(native.parts) -> Seq(S)]
    /\ Concatenates(total, Portions(native), Len(native.parts))

\* The loop of getBody concatenates sections, each behind its separator.
LEMMA ReadConcatenates ==
    ASSUME NEW object, NEW S, NEW native, NEW total, ReadsInto(object, S, native, total)
    PROVE  Body!Read(object, Len(native.parts)) = total[Len(native.parts)]
<1> USE DEF ReadsInto
<1>0. Regroups(S)
  BY Associates
<1> DEFINE n == Len(native.parts)
           parts == native.parts
           Grown(before, i) == (before \o SeparatorBefore(native, i)) \o parts[i]
           Round(F) == [i \in 0 .. n |-> IF i = 0 THEN Body!Cleared(object) ELSE Grown(F[i - 1], i)]
           chosen == CHOOSE F : F = Round(F)
<1>1. n \in Nat /\ \A i \in 1 .. n : parts[i] \in Seq(S)
  OBVIOUS
<1>2. \A i : SeparatorBefore(native, i) \in Seq(S)
  BY DEF SeparatorBefore
<1>3. Body!Read(object, n) = chosen[n]
  BY DEF Body!Read, SeparatorBefore
<1>4. total[0] = <<>>
  BY DEF Concatenates
<1>5. ASSUME NEW i \in 1 .. n
      PROVE  total[i] = Grown(total[i - 1], i)
  <2>1. total[i] = total[i - 1] \o (SeparatorBefore(native, i) \o parts[i])
    BY DEF Concatenates, Portions
  <2>2. total[i - 1] \in Seq(S) /\ parts[i] \in Seq(S)
    <3>1. i - 1 \in 0 .. n
      BY <1>1
    <3> QED
      BY <1>1, <3>1
  <2>3. SeparatorBefore(native, i) \in Seq(S)
    BY <1>2
  <2> DEFINE before == total[i - 1]
             separator == SeparatorBefore(native, i)
             section_i == parts[i]
  <2>4. (before \o separator) \o section_i = before \o (separator \o section_i)
    <3>1. before \in Seq(S) /\ separator \in Seq(S) /\ section_i \in Seq(S)
      BY <2>2, <2>3
    <3> HIDE DEF before, separator, section_i
    <3> QED
      BY <1>0, <3>1, Zenon DEF Regroups
  <2> QED
    BY <2>1, <2>4
<1> HIDE DEF Grown
<1>6. chosen = Round(chosen)
  <2>1. ASSUME NEW i \in 0 .. n
        PROVE  total[i] = IF i = 0 THEN Body!Cleared(object) ELSE Grown(total[i - 1], i)
    <3>1. CASE i = 0
      BY <1>4, <3>1 DEF Body!Cleared
    <3>2. CASE i # 0
      BY <1>5, <3>2
    <3> QED
      BY <3>1, <3>2
  <2>2. total = Round(total)
    BY <2>1
  <2> QED
    BY <2>2
<1> HIDE DEF chosen
<1> DEFINE Equal == {i \in Nat : i \in 0 .. n => chosen[i] = total[i]}
<1>7. 0 \in Equal
  <2>1. chosen[0] = <<>>
    BY <1>1, <1>6 DEF Body!Cleared
  <2> QED
    BY <1>4, <2>1
<1>8. ASSUME NEW i \in 0 .. n - 1, i \in Equal
      PROVE  i + 1 \in Equal
  <2>1. i \in 0 .. n /\ i + 1 \in 1 .. n /\ i + 1 \in 0 .. n /\ i + 1 # 0 /\ (i + 1) - 1 = i
    BY <1>1
  <2>2. chosen[i + 1] = Grown(chosen[(i + 1) - 1], i + 1)
    BY <1>6, <2>1
  <2>3. total[i + 1] = Grown(total[(i + 1) - 1], i + 1)
    BY <1>5, <2>1
  <2>4. chosen[i] = total[i]
    BY <1>8, <2>1
  <2>5. chosen[i + 1] = total[i + 1]
    BY <2>1, <2>2, <2>3, <2>4
  <2> QED
    BY <2>5
<1>9. \A i \in 0 .. n : i \in Equal
  <2>1. Equal \in SUBSET Nat
    OBVIOUS
  <2> HIDE DEF Equal
  <2> QED
    BY <1>1, <1>7, <1>8, <2>1, CountingUp
<1>10. chosen[n] = total[n]
  BY <1>1, <1>9
<1> QED
  BY <1>3, <1>10

\* Separators before the sections, or after them, make the same text.
LEMMA SameText ==
    ASSUME NEW object, NEW S, "nl" \in S, NEW native, message[object].native = native,
           native.parts \in Seq(Seq(S))
    PROVE  Body!Read(object, Len(native.parts)) = Body!Documented(native)
<1>0. Regroups(S)
  BY Associates
<1> DEFINE n == Len(native.parts)
           parts == native.parts
           before(i) == SeparatorBefore(native, i)
           behind(i) == SeparatorAfter(native, i)
           first == [i \in 1 .. n |-> before(i) \o parts[i]]
           second == [i \in DOMAIN parts |-> parts[i] \o behind(i)]
<1>1. n \in Nat /\ DOMAIN parts = 1 .. n /\ \A i \in 1 .. n : parts[i] \in Seq(S)
  OBVIOUS
<1>2. \A i : before(i) \in Seq(S) /\ behind(i) \in Seq(S)
  BY DEF SeparatorBefore, SeparatorAfter
<1>3. \A i \in 1 .. n : first[i] \in Seq(S) /\ second[i] \in Seq(S)
  <2> HIDE DEF n, parts, before, behind
  <2> QED
    BY <1>1, <1>2, ConcatProperties
<1>4. second \in Seq(Seq(S)) /\ Len(second) = n
  <2> HIDE DEF n, parts, behind
  <2> QED
    BY <1>1, <1>3
<1>5. Body!Documented(native) = FlattenSeq(second)
  BY DEF Body!Documented, SeparatorAfter, FlattenSeq, Body!FlattenSeq
<1> HIDE DEF first, second
<1>6. PICK read \in [0 .. n -> Seq(S)] : Concatenates(read, first, n)
  <2> HIDE DEF n
  <2> QED
    BY <1>1, <1>3, ConcatenationExists
<1>7. PICK told \in [0 .. n -> Seq(S)] : Concatenates(told, second, n)
  <2> HIDE DEF n
  <2> QED
    BY <1>1, <1>3, ConcatenationExists
<1>8. Body!Read(object, n) = read[n]
  <2>1. Concatenates(read, Portions(native), n)
    BY <1>6 DEF first, Portions
  <2>2. ReadsInto(object, S, native, read)
    BY <2>1 DEF ReadsInto
  <2> QED
    BY <2>2, ReadConcatenates
<1>9. Body!Documented(native) = told[n]
  BY <1>4, <1>5, <1>7, FlattenConcatenates
<1>10. CASE n = 0
  BY <1>6, <1>7, <1>8, <1>9, <1>10 DEF Concatenates
<1>11. CASE n # 0
  <2> DEFINE Keeps == {i \in Nat : i \in 1 .. n => told[i] = read[i] \o behind(i)}
  <2>1. told[0] = <<>> /\ read[0] = <<>>
    BY <1>6, <1>7 DEF Concatenates
  <2>2. \A i \in 1 .. n : /\ read[i] = read[i - 1] \o (before(i) \o parts[i])
                          /\ told[i] = told[i - 1] \o (parts[i] \o behind(i))
    BY <1>1, <1>6, <1>7 DEF Concatenates, first, second
  <2>3. before(1) = <<>>
    BY DEF SeparatorBefore
  <2>4. \A i \in 1 .. n - 1 : before(i + 1) = behind(i)
    BY <1>1 DEF SeparatorBefore, SeparatorAfter
  <2>5. behind(n) = <<>>
    BY DEF SeparatorAfter
  <2> HIDE DEF n, parts, before, behind
  <2>6. ASSUME NEW i \in 0 .. n - 1, i \in Keeps
        PROVE  i + 1 \in Keeps
    <3>1. i + 1 \in 1 .. n /\ (i + 1) - 1 = i /\ i \in 0 .. n
      BY <1>1
    <3> DEFINE piece == parts[i + 1]
               sep == before(i + 1)
               end == behind(i + 1)
    <3>2. /\ read[i + 1] = read[i] \o (sep \o piece)
          /\ told[i + 1] = told[i] \o (piece \o end)
      BY <2>2, <3>1
    <3>3. /\ piece \in Seq(S) /\ sep \in Seq(S) /\ end \in Seq(S)
          /\ read[i] \in Seq(S)
      BY <1>1, <1>2, <1>6, <3>1
    <3>4. told[i] = read[i] \o sep
      <4>1. CASE i = 0
        <5>1. <<>> \o <<>> = <<>>
          OBVIOUS
        <5>2. told[0] = read[0] \o before(1)
          BY <2>1, <2>3, <5>1
        <5>3. 0 + 1 = 1
          OBVIOUS
        <5> QED
          BY <4>1, <5>2, <5>3
      <4>2. CASE i # 0
        <5>1. i \in 1 .. n /\ i \in 1 .. n - 1
          BY <1>1, <4>2
        <5>2. told[i] = read[i] \o behind(i)
          BY <2>6, <5>1
        <5> QED
          BY <2>4, <5>1, <5>2
      <4> QED
        BY <4>1, <4>2
    <3>5. (read[i] \o sep) \o (piece \o end) = (read[i] \o (sep \o piece)) \o end
      <4> DEFINE now == read[i]
      <4>1. now \in Seq(S) /\ piece \in Seq(S) /\ sep \in Seq(S) /\ end \in Seq(S)
        BY <3>3
      <4> HIDE DEF now, piece, sep, end
      <4>2. now \o sep \in Seq(S)
        BY <4>1, ConcatProperties
      <4>3. (now \o sep) \o (piece \o end) = ((now \o sep) \o piece) \o end
        BY <1>0, <4>1, <4>2, Zenon DEF Regroups
      <4>4. (now \o sep) \o piece = now \o (sep \o piece)
        <5>1. now \in Seq(S) /\ sep \in Seq(S) /\ piece \in Seq(S)
          BY <4>1
        <5>2. \A c \in Seq(S) : (now \o sep) \o c = now \o (sep \o c)
          BY <1>0, <5>1, Zenon DEF Regroups
        <5> QED
          BY <5>1, <5>2, Zenon
      <4> QED
        BY <4>3, <4>4 DEF now
    <3> HIDE DEF piece, sep, end
    <3>6. told[i + 1] = read[i + 1] \o end
      BY <3>2, <3>4, <3>5
    <3>7. told[i + 1] = read[i + 1] \o behind(i + 1)
      BY <3>6 DEF end
    <3>8. i + 1 \in Nat
      OBVIOUS
    <3> QED
      BY <3>7, <3>8
  <2>7. \A i \in 0 .. n : i \in Keeps
    <3>1. 0 \in Keeps /\ Keeps \in SUBSET Nat
      OBVIOUS
    <3> HIDE DEF Keeps
    <3> QED
      BY <1>1, <2>6, <3>1, CountingUp
  <2>8. told[n] = read[n] \o behind(n) /\ read[n] \in Seq(S)
    BY <1>1, <1>6, <1>11, <2>7
  <2>9. told[n] = read[n]
    BY <2>5, <2>8, ConcatEmptySeq
  <2> QED
    BY <1>8, <1>9, <2>9 DEF n
<1> QED
  BY <1>10, <1>11

-----------------------------------------------------------------------------
(* The invariant of the bodies. *)

TextLetters == UNION {Range(text) : text \in Texts}
Letters == TextLetters \cup {"nl"}

IsBody(native) ==
    /\ native \in [type : Body!Types, parts : Seq(Seq(Letters))]
    /\ native.type = "none" <=> native.parts = <<>>

\* An object with a message; unless __construct found sections there, a text that it
\* keeps as decoded is the one the sections make.
Held(it) ==
    /\ DOMAIN it = {"exists", "native", "body", "bodyDecoded", "rebuilt"}
    /\ it.exists /\ it.bodyDecoded \in BOOLEAN /\ it.rebuilt \in BOOLEAN
    /\ IsBody(it.native)
    /\ it.bodyDecoded /\ ~it.rebuilt => it.body = Body!Documented(it.native)

BodyInv ==
    /\ message = [object \in Objects |-> message[object]]
    /\ IsBody(delivery)
    /\ \A object \in Objects : message[object] = Body!NoMessage \/ Held(message[object])

\* Texts are made of letters.
LEMMA TextsOfLetters == Texts \subseteq Seq(Letters)
<1> SUFFICES ASSUME NEW text \in Texts
             PROVE  text \in Seq(Letters)
  OBVIOUS
<1>1. text \in Seq(Range(text))
  BY TextsAssumption
<1>2. Range(text) \subseteq Letters
  BY DEF TextLetters, Letters
<1> QED
  BY <1>1, <1>2

\* What uAMQP allows is a body.
LEMMA BodiesAreBodies ==
    ASSUME NEW native \in Body!Bodies
    PROVE  IsBody(native)
<1>1. CASE native = [type |-> "none", parts |-> <<>>]
  BY <1>1 DEF IsBody, Body!Types
<1>2. CASE native \in [type : {"value"}, parts : {<<text>> : text \in Texts}]
  <2>1. PICK text \in Texts : native.parts = <<text>>
    BY <1>2
  <2>2. text \in Seq(Letters)
    BY TextsOfLetters
  <2>3. <<text>> \in Seq(Seq(Letters)) /\ <<text>> # <<>>
    BY <2>2
  <2> QED
    BY <1>2, <2>1, <2>3 DEF IsBody, Body!Types
<1>3. CASE native \in [type : {"data", "sequence"},
                       parts : Body!BoundedSeq(Texts, MaxParts) \ {<<>>}]
  <2>1. PICK m \in 0 .. MaxParts : native.parts \in [1 .. m -> Texts]
    BY <1>3 DEF Body!BoundedSeq, Body!SeqOf
  <2>2. m \in Nat
    BY MaxPartsAssumption
  <2>3. native.parts \in [1 .. m -> Seq(Letters)]
    BY <2>1, TextsOfLetters
  <2>4. native.parts \in Seq(Seq(Letters))
    BY <2>2, <2>3
  <2> QED
    BY <1>3, <2>4 DEF IsBody, Body!Types
<1> QED
  BY <1>1, <1>2, <1>3 DEF Body!Bodies

\* One data section is the text itself.
LEMMA OneSection ==
    ASSUME NEW text \in Seq(Letters)
    PROVE  Body!Documented([type |-> "data", parts |-> <<text>>]) = text
<1> DEFINE native == [type |-> "data", parts |-> <<text>>]
           told == [i \in DOMAIN native.parts |-> native.parts[i] \o SeparatorAfter(native, i)]
<1>1. told = <<text \o <<>>>>
  BY DEF SeparatorAfter
<1>2. text \o <<>> = text
  BY ConcatEmptySeq
<1>3. told = <<text>>
  BY <1>1, <1>2
<1>4. Body!Documented(native) = FlattenSeq(told)
  BY DEF Body!Documented, SeparatorAfter, FlattenSeq, Body!FlattenSeq
<1> DEFINE total == [i \in 0 .. 1 |-> IF i = 0 THEN <<>> ELSE text]
<1>5. total \in [0 .. Len(<<text>>) -> Seq(Letters)] /\ <<text>> \in Seq(Seq(Letters))
  OBVIOUS
<1>6. Concatenates(total, <<text>>, Len(<<text>>))
  <2>1. <<>> \o text = text
    BY ConcatEmptySeq
  <2> QED
    BY <2>1 DEF Concatenates
<1>7. total[Len(<<text>>)] = text
  OBVIOUS
<1>8. FlattenSeq(<<text>>) = text
  <2> HIDE DEF total
  <2> QED
    BY <1>5, <1>6, <1>7, FlattenConcatenates
<1> QED
  BY <1>3, <1>4, <1>8

\* A body stays one when data is added, or refused.
LEMMA AddDataKeepsBody ==
    ASSUME NEW native, IsBody(native), NEW text \in Seq(Letters)
    PROVE  IsBody(Body!AddData(native, text))
<1>1. CASE native.type \in {"none", "data"}
  <2> DEFINE parts == native.parts
  <2>1. Append(parts, text) \in Seq(Seq(Letters)) /\ Append(parts, text) # <<>>
    <3>1. parts \in Seq(Seq(Letters))
      BY DEF IsBody
    <3> DEFINE T == Seq(Letters)
    <3>2. parts \in Seq(T) /\ text \in T
      BY <3>1
    <3> HIDE DEF parts, T
    <3>3. Append(parts, text) \in Seq(T) /\ Append(parts, text) # <<>>
      BY <3>2
    <3> QED
      BY <3>3 DEF T
  <2> QED
    BY <1>1, <2>1 DEF IsBody, Body!AddData, Body!Types
<1>2. CASE native.type \notin {"none", "data"}
  BY <1>2 DEF Body!AddData
<1> QED
  BY <1>1, <1>2

\* A message whose body has not been decoded is held.
LEMMA UndecodedIsHeld ==
    ASSUME NEW native, IsBody(native)
    PROVE  Held(Body!Holding(native))
BY DEF Held, Body!Holding

\* It is enough to look at the object that acts.
LEMMA OneObjectActs ==
    ASSUME BodyInv, NEW object \in Objects, NEW it,
           message' = [message EXCEPT ![object] = it], delivery' = delivery,
           it = Body!NoMessage \/ Held(it)
    PROVE  BodyInv'
<1>1. message'[object] = it /\ \A other \in Objects \ {object} : message'[other] = message[other]
  BY DEF BodyInv
<1>2. message' = [other \in Objects |-> message'[other]]
  BY DEF BodyInv
<1>3. ASSUME NEW other \in Objects
      PROVE  message'[other] = Body!NoMessage \/ Held(message'[other])
  BY <1>1 DEF BodyInv
<1> QED
  BY <1>2, <1>3 DEF BodyInv

\* Initially nothing is held.
LEMMA BodyInvInit == Body!Init => BodyInv
BY BodiesAreBodies DEF Body!Init, BodyInv

\* The cached text of __construct: the only section, or marked as rebuilt.
LEMMA SetBodyKeeps ==
    ASSUME BodyInv, NEW object \in Objects, NEW text \in Texts, Body!SetBody(object, text)
    PROVE  BodyInv'
<1> DEFINE old == message[object]
           it == [old EXCEPT !.body = text, !.bodyDecoded = TRUE,
                             !.native = Body!AddData(old.native, text),
                             !.rebuilt = old.rebuilt \/ old.native.parts # <<>>]
<1>1. Held(old)
  BY DEF BodyInv, Body!SetBody, Body!NoMessage
<1>2. text \in Seq(Letters)
  BY TextsOfLetters
<1>3. message' = [message EXCEPT ![object] = it] /\ delivery' = delivery
  BY DEF Body!SetBody
<1>4. /\ DOMAIN it = {"exists", "native", "body", "bodyDecoded", "rebuilt"}
      /\ it.exists = old.exists /\ it.bodyDecoded = TRUE /\ it.body = text
      /\ it.native = Body!AddData(old.native, text)
      /\ it.rebuilt = (old.rebuilt \/ old.native.parts # <<>>)
  BY <1>1 DEF Held
<1> HIDE DEF it
<1>5. IsBody(it.native)
  BY <1>1, <1>2, <1>4, AddDataKeepsBody DEF Held
<1>6. ASSUME ~it.rebuilt
      PROVE  it.body = Body!Documented(it.native)
  <2>1. old.native.parts = <<>> /\ old.native.type = "none"
    BY <1>1, <1>4, <1>6 DEF Held, IsBody
  <2>2. it.native = [type |-> "data", parts |-> <<text>>]
    <3>1. Append(<<>>, text) = <<text>>
      OBVIOUS
    <3> QED
      BY <1>4, <2>1, <3>1 DEF Body!AddData
  <2> QED
    BY <1>2, <1>4, <2>2, OneSection
<1>7. Held(it)
  BY <1>1, <1>4, <1>5, <1>6 DEF Held
<1> QED
  BY <1>3, <1>7, OneObjectActs

\* getBody, which may fail half-way: what it keeps as decoded is what all sections make.
LEMMA GetBodyKeeps ==
    ASSUME BodyInv, NEW object \in Objects, Body!GetBody(object)
    PROVE  BodyInv'
<1> DEFINE old == message[object]
           native == old.native
           all == Len(native.parts)
<1>1. Held(old)
  BY DEF BodyInv, Body!GetBody, Body!NoMessage
<1>2. PICK count \in 0 .. all, failed \in BOOLEAN :
          /\ ~failed => count = all
          /\ message' = [message EXCEPT ![object].body = Body!Read(object, count),
                                        ![object].bodyDecoded = ~failed]
  BY DEF Body!GetBody
<1> DEFINE it == [old EXCEPT !.body = Body!Read(object, count), !.bodyDecoded = ~failed]
<1>3. message' = [message EXCEPT ![object] = it] /\ delivery' = delivery
  BY <1>2 DEF Body!GetBody, BodyInv
<1>4. /\ DOMAIN it = {"exists", "native", "body", "bodyDecoded", "rebuilt"}
      /\ it.exists = old.exists /\ it.bodyDecoded = ~failed
      /\ it.body = Body!Read(object, count)
      /\ it.native = native /\ it.rebuilt = old.rebuilt
  BY <1>1 DEF Held
<1> HIDE DEF it
<1>5. ~failed => it.body = Body!Documented(native)
  <2>1. native.parts \in Seq(Seq(Letters))
    BY <1>1 DEF Held, IsBody
  <2>2. "nl" \in Letters
    BY DEF Letters
  <2>3. Body!Read(object, all) = Body!Documented(native)
    BY <2>1, <2>2, SameText
  <2> QED
    BY <1>2, <1>4, <2>3
<1>6. Held(it)
  BY <1>1, <1>4, <1>5 DEF Held
<1> QED
  BY <1>3, <1>6, OneObjectActs

\* BodyInv is inductive.
LEMMA BodyInvStep == BodyInv /\ [Body!Next]_(Body!vars) => BodyInv'
<1> SUFFICES ASSUME BodyInv, [Body!Next]_(Body!vars)
             PROVE  BodyInv'
  OBVIOUS
<1>1. ASSUME NEW object \in Objects, Body!New(object)
      PROVE  BodyInv'
  <2>1. Held(Body!Holding([type |-> "none", parts |-> <<>>]))
    <3>1. IsBody([type |-> "none", parts |-> <<>>])
      BY DEF IsBody, Body!Types
    <3> QED
      BY <3>1, UndecodedIsHeld
  <2> QED
    BY <1>1, <2>1, OneObjectActs DEF Body!New
<1>2. ASSUME NEW object \in Objects, NEW source \in Objects, Body!Clone(object, source)
      PROVE  BodyInv'
  <2>1. IsBody(message[source].native)
    BY <1>2 DEF BodyInv, Held, Body!Clone, Body!NoMessage
  <2>2. Held(Body!Holding(message[source].native))
    BY <2>1, UndecodedIsHeld
  <2> QED
    BY <1>2, <2>2, OneObjectActs DEF Body!Clone
<1>3. ASSUME NEW object \in Objects, Body!Receive(object)
      PROVE  BodyInv'
  <2>1. Held(Body!Holding(delivery))
    BY UndecodedIsHeld DEF BodyInv
  <2> QED
    BY <1>3, <2>1, OneObjectActs DEF Body!Receive
<1>4. ASSUME NEW object \in Objects, Body!Destroy(object)
      PROVE  BodyInv'
  BY <1>4, OneObjectActs DEF Body!Destroy
<1>5. ASSUME NEW object \in Objects, NEW text \in Texts, Body!SetBody(object, text)
      PROVE  BodyInv'
  BY <1>5, SetBodyKeeps
<1>6. ASSUME NEW object \in Objects, Body!GetBody(object)
      PROVE  BodyInv'
  BY <1>6, GetBodyKeeps
<1>7. CASE UNCHANGED Body!vars
  BY <1>7 DEF Body!vars, BodyInv
<1> QED
  BY <1>1, <1>2, <1>3, <1>4, <1>5, <1>6, <1>7 DEF Body!Next

\* BodyIsWhatIsSent: what getBody returns, on received and cloned messages, from the
\* cache or not, and after calls that failed half-way, is what is sent.
THEOREM BodyIsSent == Body!Spec => []BodyIsWhatIsSent
<1>1. BodyInv => BodyIsWhatIsSent
  BY DEF BodyInv, Held, Body!NoMessage, BodyIsWhatIsSent, Body!BodyIsWhatIsSent
<1> QED
  BY <1>1, BodyInvInit, BodyInvStep, PTL DEF Body!Spec
=============================================================================
