------------------------------ MODULE LoaderProofs ------------------------------
(*****************************************************************************)
(* What a load leaves behind, for every file system and instrument: which    *)
(* regions the Synth keeps, what its voices can rely on in them, and that    *)
(* they are what the opcodes of their headers say.                           *)
(*****************************************************************************)
EXTENDS Loader, FiniteSetTheorems, SequenceTheorems, NaturalsInduction,
        WellFoundedInduction, TLAPS

-----------------------------------------------------------------------------
(* Numbers.                                                                  *)

\* A set of numbers has a first one.
LEMMA HasFirst ==
    ASSUME NEW T \in SUBSET Nat, T # {}
    PROVE  \E i \in T : \A j \in T : i <= j
<1> DEFINE less == {pair \in Nat \X Nat : pair[1] < pair[2]}
<1>1. OpToRel(<, Nat) = less
  BY Zenon DEF OpToRel
<1>2. IsWellFoundedOn(less, Nat)
  BY <1>1, NatLessThanWellFounded, Zenon
<1>3. \A i, j \in Nat : j < i => <<j, i>> \in less
  OBVIOUS
<1> HIDE DEF less
<1>4. PICK i \in T : \A j \in T : ~ (<<j, i>> \in less)
  BY <1>2, WFMin
<1>5. \A j \in T : ~ (j < i)
  BY <1>3, <1>4
<1> QED BY <1>5

\* Induction up to n, for the set of the numbers of which something is known.
LEMMA UpTo ==
    ASSUME NEW n \in Nat, NEW T, 0 \in T, \A k \in 1 .. n : k - 1 \in T => k \in T
    PROVE  0 .. n \subseteq T
<1> DEFINE Missed == (0 .. n) \ T
<1>1. SUFFICES ASSUME Missed # {} PROVE FALSE
  OBVIOUS
<1>2. Missed \in SUBSET Nat
  OBVIOUS
<1> HIDE DEF Missed
<1>3. PICK k \in Missed : \A j \in Missed : k <= j
  BY <1>1, <1>2, HasFirst
<1> USE DEF Missed
<1>4. k \in 1 .. n /\ k - 1 \in 0 .. n /\ ~ (k <= k - 1)
  BY <1>3
<1>5. k - 1 \notin Missed
  BY <1>3, <1>4
<1> QED BY <1>3, <1>4, <1>5

-----------------------------------------------------------------------------
(* Lists of regions.                                                         *)

\* A list that holds some of ids, each once.
OnceEach(list, ids) ==
    /\ list \in Seq(ids)
    /\ \A i, j \in 1 .. Len(list) : list[i] = list[j] => i = j

\* The lists of the keys and controllers hold some of ids.
ListsHold(ids) ==
    /\ DOMAIN lists.notes = Notes /\ \A k \in Notes : OnceEach(lists.notes[k], ids)
    /\ DOMAIN lists.ccs = CCs /\ \A c \in CCs : OnceEach(lists.ccs[c], ids)

\* A sequence without repetitions has as many elements as places.
LEMMA OnceEachCounts ==
    ASSUME NEW n \in Nat, NEW f, \A i, j \in 1 .. n : f[i] = f[j] => i = j
    PROVE  Cardinality({f[i] : i \in 1 .. n}) = n
<1> DEFINE g == [i \in 1 .. n |-> f[i]]
           S == {f[i] : i \in 1 .. n}
<1>1. g \in [1 .. n -> S] /\ \A i \in 1 .. n : g[i] = f[i]
  OBVIOUS
<1>2. \A s \in S : \E i \in 1 .. n : g[i] = s
  OBVIOUS
<1>3. g \in Bijection(1 .. n, S)
  BY <1>1, <1>2 DEF Bijection, Injection, Surjection, IsInjective
<1>4. ExistsBijection(1 .. n, S)
  BY <1>3 DEF ExistsBijection
<1> QED BY <1>4, FS_CountingElements

\* A list takes one that it does not hold.
LEMMA AppendOnce ==
    ASSUME NEW ids, NEW list, OnceEach(list, ids), NEW x, x \notin ids
    PROVE  OnceEach(Append(list, x), ids \cup {x})
<1>1. list \in Seq(ids \cup {x}) /\ x \in ids \cup {x}
  BY DEF OnceEach
<1>2. /\ Append(list, x) \in Seq(ids \cup {x}) /\ Len(Append(list, x)) = Len(list) + 1
      /\ \A i \in 1 .. Len(list) : Append(list, x)[i] = list[i]
      /\ Append(list, x)[Len(list) + 1] = x
  BY <1>1, AppendProperties
<1>3. \A i \in 1 .. Len(list) : list[i] # x
  BY DEF OnceEach
<1>4. Len(list) \in Nat
  BY DEF OnceEach
<1> QED BY <1>2, <1>3, <1>4 DEF OnceEach

\* A list that holds some of ids holds some of more ids.
LEMMA OnceEachOfMore ==
    ASSUME NEW ids, NEW more, ids \subseteq more, NEW list, OnceEach(list, ids)
    PROVE  OnceEach(list, more)
  BY DEF OnceEach

-----------------------------------------------------------------------------
(* The invariant of the regions.                                             *)

\* While headers are parsed, the regions are those that were built, in order.
Building ==
    /\ \E S : regions \in Seq(S)
    /\ built = regions
    /\ \A i \in 1 .. Len(regions) : "id" \in DOMAIN regions[i] /\ regions[i].id = i
    /\ lists = NoLists

\* The vector has each of the N regions that were built, in some order.
AllOnce(N) ==
    /\ N \in Nat /\ N = Len(regions) /\ N = Len(built)
    /\ \E S : regions \in Seq(S)
    /\ \E S : built \in Seq(S)
    /\ \A i \in 1 .. N : "id" \in DOMAIN regions[i] /\ regions[i].id \in 1 .. N
    /\ \A i, j \in 1 .. N : regions[i].id = regions[j].id => i = j
    /\ \A n \in 1 .. N : \E i \in 1 .. N : regions[i].id = n

\* The regions before c, the current one, can play, those after l, the last one, cannot,
\* and none but the former is in a list.
RegisteringAt(N, c, l) ==
    /\ l \in 0 .. N /\ c \in 1 .. l + 1
    /\ \A i \in c .. N : regions[i] = built[regions[i].id]
    /\ \A i \in 1 .. c - 1 : IsPlayable(built[regions[i].id])
    /\ \A i \in l + 1 .. N : ~ IsPlayable(built[regions[i].id])
    /\ ListsHold({regions[i].id : i \in 1 .. c - 1})

Registering ==
    AllOnce(Len(regions)) /\ RegisteringAt(Len(regions), currentRegion, lastRegion)

\* What a load that returned true leaves.
Complete ==
    /\ \E S : regions \in Seq(S)
    /\ \E S : built \in Seq(S)
    /\ \A i \in 1 .. Len(regions) :
          regions[i].id \in 1 .. Len(built) /\ IsPlayable(built[regions[i].id])
    /\ \A i, j \in 1 .. Len(regions) : regions[i].id = regions[j].id => i = j
    /\ \A n \in 1 .. Len(built) :
          IsPlayable(built[n]) => \E i \in 1 .. Len(regions) : regions[i].id = n
    /\ ListsHold({regions[i].id : i \in 1 .. Len(regions)})

LoadInv ==
    /\ \E S : past \in Seq(S)
    /\ phase \in {"idle", "reading", "parsing", "registering"}
    /\ phase \in {"reading", "parsing"} => Building
    /\ phase = "registering" => Registering
    /\ Loaded => Complete

LEMMA CompleteIsComplete == LoadInv => InstrumentIsComplete
<1> SUFFICES ASSUME LoadInv, Loaded
             PROVE  LET kept == {regions[i].id : i \in DOMAIN regions} IN
                    /\ kept = {n \in DOMAIN built : IsPlayable(built[n])}
                    /\ Cardinality(kept) = Len(regions)
                    /\ \A list \in {lists.notes[k] : k \in Notes} \cup {lists.ccs[c] : c \in CCs} :
                        /\ {list[i] : i \in DOMAIN list} \subseteq kept
                        /\ Cardinality({list[i] : i \in DOMAIN list}) = Len(list)
  BY DEF InstrumentIsComplete
<1>1. Complete
  BY DEF LoadInv
<1>2. DOMAIN regions = 1 .. Len(regions) /\ DOMAIN built = 1 .. Len(built) /\ Len(regions) \in Nat
  BY <1>1 DEF Complete
<1> DEFINE kept == {regions[i].id : i \in 1 .. Len(regions)}
<1>3. kept = {n \in 1 .. Len(built) : IsPlayable(built[n])}
  <2>1. \A i \in 1 .. Len(regions) :
            regions[i].id \in 1 .. Len(built) /\ IsPlayable(built[regions[i].id])
    BY <1>1 DEF Complete
  <2>2. \A n \in 1 .. Len(built) :
            IsPlayable(built[n]) => \E i \in 1 .. Len(regions) : regions[i].id = n
    BY <1>1 DEF Complete
  <2> QED BY <2>1, <2>2
<1>4. Cardinality(kept) = Len(regions)
  <2> DEFINE f == [i \in 1 .. Len(regions) |-> regions[i].id]
  <2>1. \A i, j \in 1 .. Len(regions) : f[i] = f[j] => i = j
    BY <1>1 DEF Complete
  <2>2. kept = {f[i] : i \in 1 .. Len(regions)}
    OBVIOUS
  <2> HIDE DEF f, kept
  <2> QED BY <1>2, <2>1, <2>2, OnceEachCounts
<1>a. ListsHold(kept)
  BY <1>1 DEF Complete
<1>b. kept = {regions[i].id : i \in DOMAIN regions}
  BY <1>2
<1> HIDE DEF kept
<1>5. ASSUME NEW list, OnceEach(list, kept)
      PROVE  /\ {list[i] : i \in DOMAIN list} \subseteq kept
             /\ Cardinality({list[i] : i \in DOMAIN list}) = Len(list)
  <2>1. list \in Seq(kept) /\ DOMAIN list = 1 .. Len(list) /\ Len(list) \in Nat
    BY <1>5 DEF OnceEach
  <2>2. \A i, j \in 1 .. Len(list) : list[i] = list[j] => i = j
    BY <1>5 DEF OnceEach
  <2>3. Cardinality({list[i] : i \in 1 .. Len(list)}) = Len(list)
    BY <2>1, <2>2, OnceEachCounts
  <2>4. {list[i] : i \in DOMAIN list} = {list[i] : i \in 1 .. Len(list)}
    BY <2>1
  <2>5. \A i \in DOMAIN list : list[i] \in kept
    BY <2>1
  <2> QED BY <2>3, <2>4, <2>5
<1>6. \A list \in {lists.notes[k] : k \in Notes} \cup {lists.ccs[c] : c \in CCs} :
         OnceEach(list, kept)
  BY <1>a DEF ListsHold
<1> QED BY <1>2, <1>3, <1>4, <1>5, <1>6, <1>b

-----------------------------------------------------------------------------
(* The steps of the regions.                                                 *)

\* What can play depends on the disk and the directory only.
LEMMA PlayableStays ==
    ASSUME UNCHANGED <<disk, rootDirectory>>
    PROVE  \A r : IsPlayable(r)' <=> IsPlayable(r)
  BY DEF IsPlayable, SamplesFor, SamplePath, SampleUnder, Resolved, Under, Absolute

LEMMA ReturnAppends ==
    ASSUME LoadInv, NEW result \in BOOLEAN, Returns(result)
    PROVE  /\ phase' = "idle" /\ \E S : past' \in Seq(S)
           /\ Loaded' <=> result
<1> DEFINE record == [file |-> file', returned |-> result, met |-> leftover'.met,
                      root |-> rootDirectory', regions |-> regions', lists |-> lists',
                      cc |-> cc', defaultSwitch |-> defaultSwitch']
<1>1. phase' = "idle" /\ past' = Append(past, record) /\ record.returned = result
  BY DEF Returns
<1> HIDE DEF record
<1>2. PICK S : past \in Seq(S)
  BY DEF LoadInv
<1>3. past \in Seq(S \cup {record}) /\ record \in S \cup {record}
  BY <1>2
<1>4. /\ past' \in Seq(S \cup {record}) /\ Len(past') = Len(past) + 1
      /\ past'[Len(past) + 1] = record /\ Len(past) \in Nat
  BY <1>1, <1>3, AppendProperties
<1>5. past' # << >> /\ past'[Len(past')] = record
  BY <1>4
<1> QED BY <1>1, <1>4, <1>5 DEF Loaded

LEMMA InitIsBefore == Init => LoadInv
<1> SUFFICES ASSUME Init PROVE LoadInv
  OBVIOUS
<1>1. past = << >> /\ phase = "idle"
  BY DEF Init
<1>2. past \in Seq({})
  BY <1>1
<1> QED BY <1>1, <1>2 DEF LoadInv, Loaded

LEMMA BeginKeeps ==
    ASSUME LoadInv, NEW path, Begin(path)
    PROVE  LoadInv'
<1>1. regions' = << >> /\ lists' = NoLists /\ built' = << >>
  BY DEF Begin, Clear
<1>2. Building'
  <2>1. << >> \in Seq({}) /\ Len(<< >>) = 0
    OBVIOUS
  <2>2. regions' \in Seq({}) /\ Len(regions') = 0
    BY <1>1, <2>1
  <2> QED BY <1>1, <2>2 DEF Building, NoLists
<1>3. CASE phase' = "reading" /\ UNCHANGED past
  BY <1>2, <1>3 DEF LoadInv, Loaded
<1>4. CASE Returns(FALSE)
  <2>1. phase' = "idle" /\ (\E S : past' \in Seq(S)) /\ ~ Loaded'
    BY <1>4, ReturnAppends
  <2> QED BY <2>1 DEF LoadInv
<1> QED BY <1>3, <1>4 DEF Begin

\* Steps that neither make a region nor list one.
LEMMA ReadingKeeps ==
    ASSUME LoadInv, phase \in {"reading", "parsing"}, phase' \in {"reading", "parsing"},
           UNCHANGED <<regions, built, lists, past>>
    PROVE  LoadInv'
<1>1. Building'
  BY DEF LoadInv, Building, NoLists
<1> QED BY <1>1 DEF LoadInv, Loaded

LEMMA BuildKeeps ==
    ASSUME LoadInv, BuildRegion
    PROVE  LoadInv'
<1>1. phase = "parsing" /\ phase' = phase /\ UNCHANGED <<lists, past>> /\ Building
  BY DEF BuildRegion, ParsesHeader, LoadInv
<1>2. PICK S : regions \in Seq(S)
  BY <1>1 DEF Building
<1>3. PICK r : /\ r = With(r, "id", Len(regions) + 1)
               /\ regions' = Append(regions, r) /\ built' = Append(built, r)
  <2>1. PICK result : LET r == With(result.region, "id", Len(regions) + 1) IN
            regions' = Append(regions, r) /\ built' = Append(built, r)
    BY DEF BuildRegion
  <2>2. PICK r : /\ r = With(result.region, "id", Len(regions) + 1)
                 /\ regions' = Append(regions, r) /\ built' = Append(built, r)
    BY <2>1
  <2>3. r = With(r, "id", Len(regions) + 1)
    BY <2>2 DEF With
  <2> QED BY <2>2, <2>3
<1>4. "id" \in DOMAIN r /\ r.id = Len(regions) + 1
  BY <1>3 DEF With
<1>5. regions \in Seq(S \cup {r}) /\ r \in S \cup {r}
  BY <1>2
<1>6. /\ regions' \in Seq(S \cup {r}) /\ Len(regions') = Len(regions) + 1
      /\ \A i \in 1 .. Len(regions) : regions'[i] = regions[i]
      /\ regions'[Len(regions) + 1] = r /\ Len(regions) \in Nat
  BY <1>3, <1>5, AppendProperties
<1>7. built' = regions'
  BY <1>1, <1>3 DEF Building
<1>8. \A i \in 1 .. Len(regions') : "id" \in DOMAIN regions'[i] /\ regions'[i].id = i
  BY <1>1, <1>4, <1>6 DEF Building
<1>9. lists' = NoLists
  BY <1>1 DEF Building
<1>10. Building'
  BY <1>6, <1>7, <1>8, <1>9 DEF Building, NoLists
<1> QED BY <1>1, <1>10 DEF LoadInv, Loaded

LEMMA ParseEndKeeps ==
    ASSUME LoadInv, EndOfParse
    PROVE  LoadInv'
<1>1. phase = "parsing" /\ Building /\ UNCHANGED <<regions, lists, built, disk, rootDirectory>>
  BY DEF EndOfParse, LoadInv, parser, instrument, environment
<1>2. CASE regions = << >>
  <2>1. Returns(FALSE)
    BY <1>2 DEF EndOfParse
  <2>2. phase' = "idle" /\ (\E S : past' \in Seq(S)) /\ ~ Loaded'
    BY <2>1, ReturnAppends
  <2> QED BY <2>2 DEF LoadInv
<1>3. CASE regions # << >>
  <2>1. /\ phase' = "registering" /\ currentRegion' = 1 /\ lastRegion' = Len(regions)
        /\ UNCHANGED past
    BY <1>3 DEF EndOfParse
  <2>2. Len(regions) \in Nat
    BY <1>1 DEF Building
  <2>3. PICK N \in Nat : N = Len(regions)
    BY <2>2
  <2>4. AllOnce(N)'
    <3>1. /\ \E S : regions \in Seq(S)
          /\ \E S : built \in Seq(S)
          /\ \A i \in 1 .. N : "id" \in DOMAIN regions[i] /\ regions[i].id = i
          /\ Len(built) = N
      BY <1>1, <2>3 DEF Building
    <3>2. \A n \in 1 .. N : \E i \in 1 .. N : regions[i].id = n
      BY <3>1
    <3> QED BY <1>1, <2>3, <3>1, <3>2 DEF AllOnce
  <2>5. \A ids : OnceEach(<< >>, ids)
    BY DEF OnceEach
  <2>6. \A ids : ListsHold(ids)'
    BY <1>1, <2>5 DEF Building, ListsHold, NoLists
  <2>7. ListsHold({regions[i].id : i \in 1 .. 1 - 1})'
    BY <2>6
  <2>8. \A i \in 1 .. N : regions[i] = built[regions[i].id]
    BY <1>1, <2>3 DEF Building
  <2>9. RegisteringAt(N, 1, N)'
    BY <1>1, <2>3, <2>7, <2>8 DEF RegisteringAt
  <2>10. Registering'
    BY <1>1, <2>1, <2>3, <2>4, <2>9 DEF Registering
  <2> QED BY <2>1, <2>10 DEF LoadInv, Loaded
<1> QED BY <1>2, <1>3

\* A sequence in which one element is replaced.
LEMMA OneReplaced ==
    ASSUME NEW S, NEW s \in Seq(S), NEW i \in 1 .. Len(s), NEW x
    PROVE  /\ [s EXCEPT ![i] = x] \in Seq(S \cup {x}) /\ Len([s EXCEPT ![i] = x]) = Len(s)
           /\ \A j \in 1 .. Len(s) : [s EXCEPT ![i] = x][j] = IF j = i THEN x ELSE s[j]
<1> DEFINE t == [s EXCEPT ![i] = x]
<1>1. s \in [1 .. Len(s) -> S] /\ Len(s) \in Nat
  OBVIOUS
<1>2. t \in [1 .. Len(s) -> S \cup {x}]
  BY <1>1
<1>3. \A j \in 1 .. Len(s) : t[j] = IF j = i THEN x ELSE s[j]
  BY <1>1
<1> HIDE DEF t
<1>4. t \in Seq(S \cup {x}) /\ Len(t) = Len(s)
  BY <1>1, <1>2
<1> QED BY <1>3, <1>4 DEF t

LEMMA RegisterKeeps ==
    ASSUME LoadInv, RegisterRegion
    PROVE  LoadInv'
<1>1. /\ phase = "registering" /\ phase' = phase /\ Registering
      /\ currentRegion <= lastRegion /\ IsPlayable(Current)
      /\ UNCHANGED <<disk, rootDirectory, built, past>>
      /\ currentRegion' = currentRegion + 1 /\ lastRegion' = lastRegion
  BY DEF RegisterRegion, Registers, LoadInv, environment, parser, history
<1>2. PICK N, c, l : N = Len(regions) /\ c = currentRegion /\ l = lastRegion
  OBVIOUS
<1>a. /\ N \in Nat /\ N = Len(built)
      /\ \E S : regions \in Seq(S)
      /\ \E S : built \in Seq(S)
      /\ \A i \in 1 .. N : "id" \in DOMAIN regions[i] /\ regions[i].id \in 1 .. N
      /\ \A i, j \in 1 .. N : regions[i].id = regions[j].id => i = j
      /\ \A n \in 1 .. N : \E i \in 1 .. N : regions[i].id = n
  BY <1>1, <1>2 DEF Registering, AllOnce
<1>b. /\ c \in 1 .. N /\ l \in c .. N
      /\ \A i \in c .. N : regions[i] = built[regions[i].id]
      /\ \A i \in 1 .. c - 1 : IsPlayable(built[regions[i].id])
      /\ \A i \in l + 1 .. N : ~ IsPlayable(built[regions[i].id])
      /\ ListsHold({regions[i].id : i \in 1 .. c - 1})
  BY <1>1, <1>2, <1>a DEF Registering, RegisteringAt
<1>c. /\ c \in Nat /\ l \in Nat /\ 1 <= c /\ c <= l /\ l <= N /\ N \in Nat
  <2>1. N \in Nat /\ c \in 1 .. N /\ l \in c .. N
    BY <1>a, <1>b
  <2> QED BY <2>1
<1>3. PICK S : regions \in Seq(S)
  BY <1>a
<1>4. "id" \in DOMAIN regions[c] /\ Current = regions[c]
  BY <1>2, <1>a, <1>b DEF Current
<1>5. PICK r : regions' = [regions EXCEPT ![c] = r] /\ "id" \in DOMAIN r /\ r.id = regions[c].id
  <2>1. PICK region \in WithSample(Current), points \in ByVelocity(Current.velocityPoints) :
            regions' = [regions EXCEPT ![currentRegion] =
                With([region EXCEPT !.velocityPoints = WithEndpoints(points, region.ampVeltrack)],
                     "state", Registered(region, ParsedState(region), cc, defaultSwitch))]
    BY DEF RegisterRegion
  <2>2. "id" \in DOMAIN region /\ region.id = Current.id
    BY <1>4, <2>1 DEF WithSample
  <2> DEFINE curved == [region EXCEPT !.velocityPoints = WithEndpoints(points, region.ampVeltrack)]
  <2>3. "id" \in DOMAIN curved /\ curved.id = Current.id
    BY <2>2
  <2> HIDE DEF curved
  <2>4. \A x : "id" \in DOMAIN With(curved, "state", x) /\ With(curved, "state", x).id = Current.id
    BY <2>3 DEF With
  <2> QED BY <1>2, <1>4, <2>1, <2>4 DEF curved
<1>6. /\ regions' \in Seq(S \cup {r}) /\ Len(regions') = N
      /\ \A i \in 1 .. N : regions'[i] = IF i = c THEN r ELSE regions[i]
  <2>1. c \in 1 .. Len(regions)
    BY <1>2, <1>c
  <2> QED BY <1>2, <1>3, <1>5, <2>1, OneReplaced
<1>7. \A i \in 1 .. N : "id" \in DOMAIN regions'[i] /\ regions'[i].id = regions[i].id
  <2>1. \A i \in 1 .. N : "id" \in DOMAIN regions[i]
    BY <1>a
  <2>2. \A i \in 1 .. N : regions'[i] = IF i = c THEN r ELSE regions[i]
    BY <1>6
  <2> QED BY <1>5, <2>1, <2>2
<1>8. AllOnce(N)'
  BY <1>1, <1>6, <1>7, <1>a DEF AllOnce
<1>9. regions[c] = built[regions[c].id]
  BY <1>b
<1>10. \A i \in c + 1 .. N : regions'[i] = built[regions'[i].id]
  <2>1. \A i \in c + 1 .. N : i \in c .. N /\ i \in 1 .. N /\ i # c
    BY <1>c
  <2> QED BY <1>6, <1>b, <2>1
<1>11. \A b : IsPlayable(b)' <=> IsPlayable(b)
  BY <1>1, PlayableStays
<1>d. \A i \in 1 .. c : regions'[i].id = regions[i].id
  <2>1. \A i \in 1 .. c : i \in 1 .. N
    BY <1>c
  <2> QED BY <1>7, <2>1
<1>12. \A i \in 1 .. c : IsPlayable(built[regions'[i].id])
  <2>1. IsPlayable(built[regions[c].id])
    BY <1>1, <1>4, <1>9
  <2>2. \A i \in 1 .. c : i \in 1 .. c - 1 \/ i = c
    BY <1>c
  <2> QED BY <1>b, <1>d, <2>1, <2>2
<1>13. \A i \in l + 1 .. N : ~ IsPlayable(built[regions'[i].id])
  <2>1. \A i \in l + 1 .. N : i \in 1 .. N
    BY <1>c
  <2> QED BY <1>7, <1>b, <2>1
<1> DEFINE before == {regions[i].id : i \in 1 .. c - 1}
           listed == {regions'[i].id : i \in 1 .. c}
<1>14. listed = before \cup {regions[c].id} /\ regions[c].id \notin before
  <2>1. \A i \in 1 .. c - 1 : i \in 1 .. N /\ i # c /\ c \in 1 .. N
    BY <1>c
  <2>2. \A i \in 1 .. c - 1 : regions[i].id # regions[c].id
    BY <1>a, <2>1
  <2>3. 1 .. c = (1 .. c - 1) \cup {c}
    BY <1>c
  <2> QED BY <1>d, <2>2, <2>3
<1>15. ListsHold(before)
  BY <1>b
<1>16. listed = {regions'[i].id : i \in 1 .. (c + 1) - 1}
  BY <1>b
<1>17. \A list : OnceEach(list, before) =>
          OnceEach(list, listed) /\ OnceEach(Append(list, regions[c].id), listed)
  <2> HIDE DEF before, listed
  <2> QED BY <1>14, AppendOnce, OnceEachOfMore
<1>18. ListsHold({regions[i].id : i \in 1 .. (c + 1) - 1})'
  <2> HIDE DEF before
  <2>1. lists' = [notes |-> Listed(lists.notes, {k \in Notes : InNoteList(Current, k)}, Current),
                  ccs |-> Listed(lists.ccs, {k \in CCs : InCCList(Current, k)}, Current)]
    BY DEF RegisterRegion
  <2>2. /\ lists'.notes = Listed(lists.notes, {k \in Notes : InNoteList(Current, k)}, Current)
        /\ lists'.ccs = Listed(lists.ccs, {k \in CCs : InCCList(Current, k)}, Current)
    BY <2>1
  <2>3. ASSUME NEW list, NEW keys, NEW all, DOMAIN list = all,
               \A k \in all : OnceEach(list[k], before)
        PROVE  /\ DOMAIN Listed(list, keys, Current) = all
               /\ \A k \in all : OnceEach(Listed(list, keys, Current)[k], listed)
    <3> HIDE DEF listed
    <3> QED BY <1>4, <1>17, <2>3 DEF Listed
  <2>4. /\ DOMAIN lists.notes = Notes /\ \A k \in Notes : OnceEach(lists.notes[k], before)
        /\ DOMAIN lists.ccs = CCs /\ \A k \in CCs : OnceEach(lists.ccs[k], before)
    BY <1>15 DEF ListsHold
  <2>5. DOMAIN lists'.notes = Notes /\ \A k \in Notes : OnceEach(lists'.notes[k], listed)
    <3> HIDE DEF listed
    <3> QED BY <2>2, <2>3, <2>4
  <2>6. DOMAIN lists'.ccs = CCs /\ \A k \in CCs : OnceEach(lists'.ccs[k], listed)
    <3> HIDE DEF listed
    <3> QED BY <2>2, <2>3, <2>4
  <2> HIDE DEF listed
  <2>7. \A ids : ids = listed => ListsHold(ids)'
    BY <2>5, <2>6 DEF ListsHold
  <2> QED BY <1>16, <2>7
<1>19. RegisteringAt(N, c + 1, l)'
  <2>1. l \in 0 .. N /\ c + 1 \in 1 .. l + 1 /\ (c + 1) - 1 = c
    BY <1>c
  <2> QED BY <1>1, <1>10, <1>11, <1>12, <1>13, <1>18, <2>1 DEF RegisteringAt
<1>20. Registering'
  BY <1>1, <1>2, <1>6, <1>8, <1>19 DEF Registering
<1> QED BY <1>1, <1>20 DEF LoadInv, Loaded

LEMMA RemoveKeeps ==
    ASSUME LoadInv, RemoveRegion
    PROVE  LoadInv'
<1>1. /\ phase = "registering" /\ phase' = phase /\ Registering
      /\ currentRegion <= lastRegion /\ ~ IsPlayable(Current)
      /\ UNCHANGED <<disk, rootDirectory, built, past, lists, currentRegion>>
      /\ lastRegion' = lastRegion - 1
      /\ regions' = [regions EXCEPT ![currentRegion] = regions[lastRegion],
                                    ![lastRegion] = Current]
  BY DEF RemoveRegion, Registers, LoadInv, environment, parser, history
<1>2. PICK N, c, l : N = Len(regions) /\ c = currentRegion /\ l = lastRegion
  OBVIOUS
<1>a. /\ N \in Nat /\ N = Len(built)
      /\ \E S : regions \in Seq(S)
      /\ \E S : built \in Seq(S)
      /\ \A i \in 1 .. N : "id" \in DOMAIN regions[i] /\ regions[i].id \in 1 .. N
      /\ \A i, j \in 1 .. N : regions[i].id = regions[j].id => i = j
      /\ \A n \in 1 .. N : \E i \in 1 .. N : regions[i].id = n
  BY <1>1, <1>2 DEF Registering, AllOnce
<1>b. /\ c \in 1 .. N /\ l \in c .. N
      /\ \A i \in c .. N : regions[i] = built[regions[i].id]
      /\ \A i \in 1 .. c - 1 : IsPlayable(built[regions[i].id])
      /\ \A i \in l + 1 .. N : ~ IsPlayable(built[regions[i].id])
      /\ ListsHold({regions[i].id : i \in 1 .. c - 1})
  BY <1>1, <1>2, <1>a DEF Registering, RegisteringAt
<1>c. /\ c \in Nat /\ l \in Nat /\ 1 <= c /\ c <= l /\ l <= N /\ N \in Nat
  <2>1. N \in Nat /\ c \in 1 .. N /\ l \in c .. N
    BY <1>a, <1>b
  <2> QED BY <2>1
<1>3. PICK S : regions \in Seq(S)
  BY <1>a
<1>4. Current = regions[c]
  BY <1>2 DEF Current
<1> DEFINE other == [i \in 1 .. N |-> IF i = c THEN l ELSE IF i = l THEN c ELSE i]
<1>5. /\ \A i \in 1 .. N : other[i] \in 1 .. N /\ other[other[i]] = i
      /\ \A i \in 1 .. c - 1 : other[i] = i
      /\ \A i \in c .. N : other[i] \in c .. N
      /\ other[l] = c /\ l \in 1 .. N /\ \A i \in l + 1 .. N : other[i] = i
  BY <1>c
<1>6. /\ regions' \in Seq(S) /\ Len(regions') = N
      /\ \A i \in 1 .. N : regions'[i] = regions[other[i]]
  <2>1. regions' = [regions EXCEPT ![c] = regions[l], ![l] = regions[c]]
    BY <1>1, <1>2, <1>4
  <2>2. l \in 1 .. N /\ c \in 1 .. N
    BY <1>c
  <2>3. regions[l] \in S /\ regions[c] \in S
    BY <1>2, <1>3, <2>2
  <2> DEFINE one == [regions EXCEPT ![c] = regions[l]]
  <2>4. /\ one \in Seq(S \cup {regions[l]}) /\ Len(one) = N
        /\ \A j \in 1 .. N : one[j] = IF j = c THEN regions[l] ELSE regions[j]
    BY <1>2, <1>3, <2>2, OneReplaced
  <2>5. S \cup {regions[l]} = S /\ S \cup {regions[c]} = S
    BY <2>3
  <2>6. regions' = [one EXCEPT ![l] = regions[c]]
    BY <2>1
  <2> HIDE DEF one
  <2>7. one \in Seq(S)
    BY <2>4, <2>5
  <2>8. /\ regions' \in Seq(S) /\ Len(regions') = N
        /\ \A j \in 1 .. N : regions'[j] = IF j = l THEN regions[c] ELSE one[j]
    BY <2>2, <2>4, <2>5, <2>6, <2>7, OneReplaced
  <2>9. \A j \in 1 .. N : other[j] = IF j = c THEN l ELSE IF j = l THEN c ELSE j
    OBVIOUS
  <2> HIDE DEF other
  <2> QED BY <2>4, <2>8, <2>9
<1> HIDE DEF other
<1>7. AllOnce(N)'
  <2>a. \A i \in 1 .. N : other[i] \in 1 .. N /\ regions'[i] = regions[other[i]]
    BY <1>5, <1>6
  <2>b. \A j \in 1 .. N : "id" \in DOMAIN regions[j] /\ regions[j].id \in 1 .. N
    BY <1>a
  <2>1. \A i \in 1 .. N : "id" \in DOMAIN regions'[i] /\ regions'[i].id \in 1 .. N
    BY <2>a, <2>b
  <2>2. ASSUME NEW i \in 1 .. N, NEW j \in 1 .. N, regions'[i].id = regions'[j].id
        PROVE  i = j
    <3>1. other[i] = other[j]
      <4>1. /\ other[i] \in 1 .. N /\ other[j] \in 1 .. N
            /\ regions[other[i]].id = regions[other[j]].id
        BY <2>2, <2>a
      <4>2. \A m, k \in 1 .. N : regions[m].id = regions[k].id => m = k
        BY <1>a
      <4> QED BY <4>1, <4>2
    <3> QED BY <1>5, <3>1
  <2>3. ASSUME NEW n \in 1 .. N
        PROVE  \E i \in 1 .. N : regions'[i].id = n
    <3>1. PICK i \in 1 .. N : regions[i].id = n
      BY <1>a
    <3>2. other[i] \in 1 .. N /\ regions'[other[i]] = regions[i]
      BY <1>5, <1>6
    <3> QED BY <3>1, <3>2
  <2> QED BY <1>1, <1>6, <1>a, <2>1, <2>2, <2>3 DEF AllOnce
<1>8. \A i \in c .. N : regions'[i] = built[regions'[i].id]
  <2>1. \A i \in c .. N : i \in 1 .. N
    BY <1>b
  <2> QED BY <1>5, <1>6, <1>b, <2>1
<1>9. \A b : IsPlayable(b)' <=> IsPlayable(b)
  BY <1>1, PlayableStays
<1>10. \A i \in 1 .. c - 1 : regions'[i] = regions[i]
  <2>1. \A i \in 1 .. c - 1 : i \in 1 .. N
    BY <1>a, <1>b
  <2> QED BY <1>5, <1>6, <2>1
<1>11. \A i \in 1 .. c - 1 : IsPlayable(built[regions'[i].id])
  BY <1>10, <1>b
<1>12. \A i \in (l - 1) + 1 .. N : ~ IsPlayable(built[regions'[i].id])
  <2>1. regions'[l] = regions[c]
    BY <1>5, <1>6
  <2>2. regions[c] = built[regions[c].id]
    BY <1>a, <1>b
  <2>3. ~ IsPlayable(built[regions'[l].id])
    BY <1>1, <1>4, <2>1, <2>2
  <2>4. \A i \in l + 1 .. N : regions'[i] = regions[i]
    <3>1. \A i \in l + 1 .. N : i \in 1 .. N
      BY <1>a, <1>b
    <3> QED BY <1>5, <1>6, <3>1
  <2>5. (l - 1) + 1 .. N = {l} \cup (l + 1 .. N)
    BY <1>c
  <2> QED BY <1>b, <2>3, <2>4, <2>5
<1>13. ListsHold({regions[i].id : i \in 1 .. c - 1})'
  <2>1. {regions'[i].id : i \in 1 .. c - 1} = {regions[i].id : i \in 1 .. c - 1}
    BY <1>10
  <2>2. ListsHold({regions'[i].id : i \in 1 .. c - 1})
    BY <1>b, <2>1
  <2> QED BY <1>1, <2>2 DEF ListsHold
<1>14. RegisteringAt(N, c, l - 1)'
  <2>1. l - 1 \in 0 .. N /\ c \in 1 .. (l - 1) + 1
    BY <1>c
  <2> QED BY <1>1, <1>8, <1>9, <1>11, <1>12, <1>13, <2>1 DEF RegisteringAt
<1>15. Registering'
  BY <1>1, <1>2, <1>6, <1>7, <1>14 DEF Registering
<1> QED BY <1>1, <1>15 DEF LoadInv, Loaded

LEMMA LoadEndKeeps ==
    ASSUME LoadInv, EndOfLoad
    PROVE  LoadInv'
<1>1. /\ phase = "registering" /\ Registering /\ currentRegion > lastRegion
      /\ UNCHANGED <<disk, rootDirectory, built, lists>>
      /\ regions' = SubSeq(regions, 1, lastRegion) /\ Returns(TRUE)
  BY DEF EndOfLoad, LoadInv, environment, parser
<1>2. phase' = "idle" /\ \E S : past' \in Seq(S)
  BY <1>1, ReturnAppends
<1>3. PICK N, l : N = Len(regions) /\ l = lastRegion
  OBVIOUS
<1>a. /\ N \in Nat /\ N = Len(built)
      /\ \E S : regions \in Seq(S)
      /\ \E S : built \in Seq(S)
      /\ \A i \in 1 .. N : "id" \in DOMAIN regions[i] /\ regions[i].id \in 1 .. N
      /\ \A i, j \in 1 .. N : regions[i].id = regions[j].id => i = j
      /\ \A n \in 1 .. N : \E i \in 1 .. N : regions[i].id = n
  BY <1>1, <1>3 DEF Registering, AllOnce
<1>b. /\ l \in 0 .. N /\ currentRegion - 1 = l
      /\ \A i \in 1 .. l : IsPlayable(built[regions[i].id])
      /\ \A i \in l + 1 .. N : ~ IsPlayable(built[regions[i].id])
      /\ ListsHold({regions[i].id : i \in 1 .. l})
  <2>1. PICK c : c = currentRegion
    OBVIOUS
  <2>2. RegisteringAt(N, c, l) /\ c > l
    BY <1>1, <1>3, <2>1 DEF Registering
  <2>3. l \in 0 .. N /\ c \in 1 .. l + 1
    BY <2>2 DEF RegisteringAt
  <2>4. c - 1 = l
    BY <1>a, <2>2, <2>3
  <2>5. /\ RegisteringAt(N, c, l)
        /\ {regions[i].id : i \in 1 .. c - 1} = {regions[i].id : i \in 1 .. l}
    BY <2>2, <2>4
  <2> QED BY <2>1, <2>3, <2>4, <2>5 DEF RegisteringAt
<1>4. PICK S : regions \in Seq(S)
  BY <1>a
<1>5. /\ regions' \in Seq(S) /\ Len(regions') = l
      /\ \A i \in 1 .. l : regions'[i] = regions[i]
  <2>1. regions' = SubSeq(regions, 1, l) /\ l \in 0 .. Len(regions)
    BY <1>1, <1>3, <1>b
  <2> QED BY <1>4, <2>1
<1>6. \A b : IsPlayable(b)' <=> IsPlayable(b)
  BY <1>1, PlayableStays
<1>7. Complete'
  <2>0. \A i \in 1 .. l : i \in 1 .. N
    BY <1>a, <1>b
  <2>1. \A i \in 1 .. l :
            regions'[i].id \in 1 .. N /\ IsPlayable(built[regions'[i].id])
    BY <1>5, <1>a, <1>b, <2>0
  <2>2. \A i, j \in 1 .. l : regions'[i].id = regions'[j].id => i = j
    BY <1>5, <1>a, <2>0
  <2>3. ASSUME NEW n \in 1 .. N, IsPlayable(built[n])
        PROVE  \E i \in 1 .. l : regions'[i].id = n
    <3>1. PICK i \in 1 .. N : regions[i].id = n
      BY <1>a
    <3>2. i \notin l + 1 .. N
      BY <1>b, <2>3, <3>1
    <3>3. i \in 1 .. l
      BY <1>a, <1>b, <3>2
    <3> QED BY <1>5, <3>1, <3>3
  <2>4. {regions'[i].id : i \in 1 .. l} = {regions[i].id : i \in 1 .. l}
    BY <1>5
  <2>5. ListsHold({regions[i].id : i \in 1 .. Len(regions)})'
    <3>1. ListsHold({regions'[i].id : i \in 1 .. l})
      BY <1>b, <2>4
    <3> QED BY <1>1, <1>5, <3>1 DEF ListsHold
  <2> QED BY <1>1, <1>5, <1>6, <1>a, <2>1, <2>2, <2>3, <2>5 DEF Complete
<1> QED BY <1>2, <1>7 DEF LoadInv

LEMMA StutterKeeps ==
    ASSUME LoadInv, UNCHANGED vars
    PROVE  LoadInv'
<1>1. UNCHANGED <<disk, rootDirectory>> /\ UNCHANGED <<phase, past, regions, built, lists,
                                                       currentRegion, lastRegion>>
  BY DEF vars, environment, parser, instrument, registration, history
<1>2. \A b : IsPlayable(b)' <=> IsPlayable(b)
  BY <1>1, PlayableStays
<1>3. \A ids, more : ListsHold(ids) /\ more = ids => ListsHold(more)'
  BY <1>1 DEF ListsHold
<1>4. \A N : {regions'[i].id : i \in 1 .. N} = {regions[i].id : i \in 1 .. N}
  BY <1>1
<1>5. Building => Building'
  BY <1>1 DEF Building, NoLists
<1>6. Registering => Registering'
  <2>1. PICK N, c, l : N = Len(regions) /\ c = currentRegion /\ l = lastRegion
    OBVIOUS
  <2>2. AllOnce(N) => AllOnce(N)'
    BY <1>1 DEF AllOnce
  <2>3. RegisteringAt(N, c, l) => RegisteringAt(N, c, l)'
    BY <1>1, <1>2, <1>3, <1>4 DEF RegisteringAt
  <2> QED BY <1>1, <2>1, <2>2, <2>3 DEF Registering
<1>7. Complete => Complete'
  <2>1. PICK N : N = Len(regions)
    OBVIOUS
  <2> QED BY <1>1, <1>2, <1>3, <1>4, <2>1 DEF Complete
<1> QED BY <1>1, <1>5, <1>6, <1>7 DEF LoadInv, Loaded

LEMMA StepKeeps == LoadInv /\ [Next]_vars => LoadInv'
<1> SUFFICES ASSUME LoadInv, [Next]_vars PROVE LoadInv'
  OBVIOUS
<1>1. ASSUME NEW path \in HostFiles, Begin(path)
      PROVE  LoadInv'
  BY <1>1, BeginKeeps
<1>2. CASE Include \/ Define \/ ReadTokens
  <2>1. /\ phase = "reading" /\ phase' = "reading"
        /\ UNCHANGED <<regions, built, lists, past>>
    BY <1>2 DEF Include, Define, ReadTokens, ReadsLine, instrument
  <2> QED BY <2>1, ReadingKeeps
<1>3. CASE EndOfFile
  <2>1. /\ phase = "reading" /\ phase' = "reading"
        /\ UNCHANGED <<regions, built, lists, past>>
    BY <1>3 DEF EndOfFile, instrument, history
  <2> QED BY <2>1, ReadingKeeps
<1>4. CASE EndOfText
  <2>1. /\ phase = "reading" /\ phase' = "parsing"
        /\ UNCHANGED <<regions, built, lists, past>>
    BY <1>4 DEF EndOfText, instrument
  <2> QED BY <2>1, ReadingKeeps
<1>5. CASE ParseInherited \/ ParseControl \/ ParseOther
  <2>1. /\ phase = "parsing" /\ phase' = "parsing"
        /\ UNCHANGED <<regions, built, lists, past>>
    BY <1>5 DEF ParseInherited, ParseControl, ParseOther, ParsesHeader
  <2> QED BY <2>1, ReadingKeeps
<1>6. CASE BuildRegion
  BY <1>6, BuildKeeps
<1>7. CASE EndOfParse
  BY <1>7, ParseEndKeeps
<1>8. CASE RegisterRegion
  BY <1>8, RegisterKeeps
<1>9. CASE RemoveRegion
  BY <1>9, RemoveKeeps
<1>10. CASE EndOfLoad
  BY <1>10, LoadEndKeeps
<1>11. CASE UNCHANGED vars
  BY <1>11, StutterKeeps
<1> QED BY <1>1, <1>2, <1>3, <1>4, <1>5, <1>6, <1>7, <1>8, <1>9, <1>10, <1>11 DEF Next, Step

\* A load builds its regions in order, and registers or removes each of them once.
THEOREM LoadInvariant == Spec => []LoadInv
  BY InitIsBefore, StepKeeps, PTL DEF Spec

\* After a load the Synth has exactly the regions that can play, each once, and its
\* lists of notes and controllers hold no other (Synth::loadSfzFile), for every file
\* system, file and number of loads: the region that takes the place of a removed one is
\* looked at too.
THEOREM InstrumentIsCompleteHolds == Spec => []InstrumentIsComplete
  BY LoadInvariant, CompleteIsComplete, PTL

-----------------------------------------------------------------------------
(* What is read: sequences of tokens.                                        *)

\* Sequences of tokens, and of opcodes: tokens that are no header.
AreTokens(s) == \E S : s \in Seq(S) /\ \A t \in S : IsToken(t)

IsOpcode(token) == IsValue(token.value) /\ token.parameter \in Nat \cup {Null}

AreOpcodes(s) == \E S : s \in Seq(S) /\ \A t \in S : IsOpcode(t)

LEMMA TokensJoin ==
    /\ AreTokens(<< >>)
    /\ AreOpcodes(<< >>)
    /\ \A s, t : AreTokens(s) /\ AreTokens(t) => AreTokens(s \o t)
    /\ \A s, t : AreOpcodes(s) /\ AreOpcodes(t) => AreOpcodes(s \o t)
<1>1. << >> \in Seq({})
  OBVIOUS
<1>2. ASSUME NEW s, NEW t, NEW S, NEW T, s \in Seq(S), t \in Seq(T)
      PROVE  s \o t \in Seq(S \cup T)
  <2>1. s \in Seq(S \cup T) /\ t \in Seq(S \cup T)
    BY <1>2
  <2> QED BY <2>1, ConcatProperties
<1>3. ASSUME NEW s, NEW t, AreTokens(s), AreTokens(t)
      PROVE  AreTokens(s \o t)
  <2>1. PICK S, T : /\ s \in Seq(S) /\ t \in Seq(T)
                    /\ \A x \in S \cup T : IsToken(x)
    BY <1>3 DEF AreTokens
  <2>2. s \o t \in Seq(S \cup T)
    BY <1>2, <2>1
  <2> QED BY <2>1, <2>2 DEF AreTokens
<1>4. ASSUME NEW s, NEW t, AreOpcodes(s), AreOpcodes(t)
      PROVE  AreOpcodes(s \o t)
  <2>1. PICK S, T : /\ s \in Seq(S) /\ t \in Seq(T)
                    /\ \A x \in S \cup T : IsOpcode(x)
    BY <1>4 DEF AreOpcodes
  <2>2. s \o t \in Seq(S \cup T)
    BY <1>2, <2>1
  <2> QED BY <2>1, <2>2 DEF AreOpcodes
<1>5. AreTokens(<< >>) /\ AreOpcodes(<< >>)
  <2>1. PICK S : S = {}
    OBVIOUS
  <2>2. << >> \in Seq(S) /\ \A t \in S : IsToken(t) /\ IsOpcode(t)
    BY <1>1, <2>1
  <2> QED BY <2>2 DEF AreTokens, AreOpcodes
<1> QED BY <1>3, <1>4, <1>5

\* A variable that is replaced leaves a token.
LEMMA ExpansionIsToken ==
    ASSUME \A name \in DOMAIN defines : IsValue(defines[name]),
           NEW token, IsToken(token)
    PROVE  AreTokens(Expansion(token))
<1>1. \A t : IsToken(t) => AreTokens(<<t>>)
  <2> TAKE t
  <2> HAVE IsToken(t)
  <2>1. PICK S : S = {t}
    OBVIOUS
  <2>2. <<t>> \in Seq(S) /\ \A x \in S : IsToken(x)
    BY <2>1
  <2> QED BY <2>2 DEF AreTokens
<1>2. CASE Variables(token) = {}
  BY <1>1, <1>2 DEF Expansion
<1>3. CASE Variables(token) # {} /\ Variables(token) \subseteq DOMAIN defines
  <2>1. /\ Variables(token) = {token.value[2]} /\ "header" \notin DOMAIN token
    BY <1>3 DEF Variables, IsHeader
  <2>2. /\ DOMAIN token = {"name", "parameter", "value"}
        /\ token.parameter \in Nat \cup {Null} /\ IsValue(defines[token.value[2]])
    BY <1>3, <2>1 DEF IsToken
  <2> DEFINE t == [token EXCEPT !.value = defines[token.value[2]]]
  <2>3. IsToken(t)
    BY <2>2 DEF IsToken
  <2>4. Expansion(token) = <<t>>
    BY <1>3 DEF Expansion
  <2> HIDE DEF t
  <2> QED BY <1>1, <2>3, <2>4
<1>4. CASE Variables(token) # {} /\ ~ Variables(token) \subseteq DOMAIN defines
  BY <1>4, TokensJoin DEF Expansion
<1> QED BY <1>2, <1>3, <1>4

\* The tokens of a line are tokens when their variables are replaced.
LEMMA ExpandedAreTokens ==
    ASSUME \A name \in DOMAIN defines : IsValue(defines[name]),
           NEW tokens, NEW N \in Nat, Len(tokens) = N, \A i \in 1 .. N : IsToken(tokens[i])
    PROVE  AreTokens(Expanded(tokens))
<1> DEFINE body(f, m) ==
               [i \in 0 .. m |-> IF i = 0 THEN << >> ELSE f[i - 1] \o Expansion(tokens[i])]
           upTo == CHOOSE f : f = body(f, N)
<1>1. Expanded(tokens) = upTo[N]
  BY DEF Expanded
<1>2. upTo = body(upTo, N)
  <2> DEFINE Reached == {m \in 0 .. N : \E f : f = body(f, m)}
  <2>1. 0 \in Reached
    <3> DEFINE f == [k \in 0 .. 0 |-> << >>]
    <3>1. f = body(f, 0)
      OBVIOUS
    <3> HIDE DEF f, body
    <3> QED BY <3>1
  <2>2. \A m \in 1 .. N : m - 1 \in Reached => m \in Reached
    <3> TAKE m \in 1 .. N
    <3> HAVE m - 1 \in Reached
    <3>1. PICK h : h = body(h, m - 1)
      OBVIOUS
    <3> DEFINE f == body(h, m)
    <3>2. m \in Nat /\ m \in 0 .. N /\ m >= 1
      OBVIOUS
    <3>3. \A k \in 0 .. m - 1 : f[k] = h[k]
      <4>1. \A k \in 0 .. m - 1 :
                h[k] = IF k = 0 THEN << >> ELSE h[k - 1] \o Expansion(tokens[k])
        BY <3>1
      <4>2. \A k \in 0 .. m - 1 : k \in 0 .. m
        BY <3>2
      <4> QED BY <4>1, <4>2
    <3>4. \A k \in 0 .. m : k # 0 => f[k - 1] = h[k - 1]
      <4>1. \A k \in 0 .. m : k # 0 => k - 1 \in 0 .. m - 1
        BY <3>2
      <4> QED BY <3>3, <4>1
    <3>5. f = body(f, m)
      BY <3>4
    <3> HIDE DEF f, body
    <3> QED BY <3>2, <3>5
  <2> HIDE DEF Reached
  <2>3. 0 .. N \subseteq Reached
    BY <2>1, <2>2, UpTo
  <2>4. N \in Reached
    BY <2>3
  <2>5. \E f : f = body(f, N)
    BY <2>4 DEF Reached
  <2> HIDE DEF body
  <2> QED BY <2>5
<1> HIDE DEF upTo
<1> DEFINE T == {k \in 0 .. N : AreTokens(upTo[k])}
<1>3. 0 \in T
  BY <1>2, TokensJoin
<1>4. \A k \in 1 .. N : k - 1 \in T => k \in T
  <2> TAKE k \in 1 .. N
  <2> HAVE k - 1 \in T
  <2>1. upTo[k] = upTo[k - 1] \o Expansion(tokens[k])
    BY <1>2
  <2>2. AreTokens(Expansion(tokens[k]))
    BY ExpansionIsToken
  <2>3. AreTokens(upTo[k])
    BY <2>1, <2>2, TokensJoin
  <2> QED BY <2>3
<1> HIDE DEF T
<1>5. N \in T
  BY <1>3, <1>4, UpTo
<1> QED BY <1>1, <1>5 DEF T

\* The calls of readSfzFile, each at a line of a file that there is.
IsCall(c) ==
    /\ DOMAIN c = {"path", "line"}
    /\ Resolved(c.path) \in DOMAIN disk.texts /\ c.line \in Nat \ {0}

AreCalls(s) == \E S : s \in Seq(S) /\ \A c \in S : IsCall(c)

Kinds == {"global", "master", "group"}

\* What the parser has read are tokens, and the opcodes that regions inherit are opcodes.
SourceInv ==
    /\ disk \in Disks
    /\ \A name \in DOMAIN defines : IsValue(defines[name])
    /\ AreTokens(aggregatedContent)
    /\ AreCalls(stack)
    /\ phase = "parsing" => position \in 1 .. Len(aggregatedContent) + 1
    /\ DOMAIN opcodes = Kinds /\ \A kind \in Kinds : AreOpcodes(opcodes[kind])

LEMMA CallsJoin ==
    /\ AreCalls(<< >>)
    /\ \A s, t : AreCalls(s) /\ AreCalls(t) => AreCalls(s \o t)
<1>1. AreCalls(<< >>)
  <2>1. PICK S : S = {}
    OBVIOUS
  <2>2. << >> \in Seq(S) /\ \A c \in S : IsCall(c)
    BY <2>1
  <2> QED BY <2>2 DEF AreCalls
<1>2. ASSUME NEW s, NEW t, AreCalls(s), AreCalls(t)
      PROVE  AreCalls(s \o t)
  <2>1. PICK S, T : /\ s \in Seq(S) /\ t \in Seq(T)
                    /\ \A c \in S \cup T : IsCall(c)
    BY <1>2 DEF AreCalls
  <2>2. s \in Seq(S \cup T) /\ t \in Seq(S \cup T)
    BY <2>1
  <2>3. s \o t \in Seq(S \cup T)
    BY <2>2, ConcatProperties
  <2> QED BY <2>1, <2>3 DEF AreCalls
<1> QED BY <1>1, <1>2

LEMMA OpenedAreCalls ==
    ASSUME NEW path
    PROVE  AreCalls(Opened(path))
<1>1. CASE Resolved(path) \in DOMAIN disk.texts
  <2> DEFINE c == [path |-> path, line |-> 1]
  <2>1. IsCall(c) /\ Opened(path) = <<c>>
    BY <1>1 DEF IsCall, Opened
  <2> HIDE DEF c
  <2>2. PICK S : S = {c}
    OBVIOUS
  <2>3. <<c>> \in Seq(S) /\ \A x \in S : IsCall(x)
    BY <2>1, <2>2
  <2> QED BY <2>1, <2>3 DEF AreCalls
<1>2. CASE ~ Resolved(path) \in DOMAIN disk.texts
  BY <1>2, CallsJoin DEF Opened
<1> QED BY <1>1, <1>2

LEMMA AdvancedAreCalls ==
    ASSUME AreCalls(stack), stack # << >>
    PROVE  AreCalls(Advanced)
<1>1. PICK S : stack \in Seq(S) /\ \A c \in S : IsCall(c)
  BY DEF AreCalls
<1>2. PICK n : n = Len(stack)
  OBVIOUS
<1>3. n \in 1 .. Len(stack) /\ stack[n] \in S
  BY <1>1, <1>2
<1> DEFINE x == [stack[n] EXCEPT !.line = @ + 1]
<1>4. IsCall(x)
  <2>1. IsCall(stack[n])
    BY <1>1, <1>3
  <2> QED BY <2>1 DEF IsCall
<1>5. Advanced = [stack EXCEPT ![n] = x]
  BY <1>2 DEF Advanced
<1> HIDE DEF x
<1>6. Advanced \in Seq(S \cup {x})
  BY <1>1, <1>3, <1>5, OneReplaced
<1>7. \A c \in S \cup {x} : IsCall(c)
  BY <1>1, <1>4
<1> QED BY <1>6, <1>7 DEF AreCalls

\* The line that is read is one of a file.
LEMMA LineIsLine ==
    ASSUME SourceInv, NEW kind, ReadsLine(kind)
    PROVE  IsLine(Line) /\ kind \in DOMAIN Line /\ stack # << >>
<1>1. stack # << >> /\ Top.line <= Len(Lines) /\ kind \in DOMAIN Line
  BY DEF ReadsLine
<1>2. PICK S : stack \in Seq(S) /\ \A c \in S : IsCall(c)
  BY DEF SourceInv, AreCalls
<1>3. Top \in S
  BY <1>1, <1>2 DEF Top
<1>4. Resolved(Top.path) \in DOMAIN disk.texts /\ Top.line \in Nat \ {0}
  BY <1>2, <1>3 DEF IsCall
<1>5. PICK path : path = Resolved(Top.path)
  OBVIOUS
<1>6. /\ disk.texts[path] \in Seq({disk.texts[path][i] : i \in DOMAIN disk.texts[path]})
      /\ \A i \in DOMAIN disk.texts[path] : IsLine(disk.texts[path][i])
  BY <1>4, <1>5, DisksAssumption DEF SourceInv
<1>7. Lines = disk.texts[path]
  BY <1>5 DEF Lines
<1>8. DOMAIN Lines = 1 .. Len(Lines)
  BY <1>6, <1>7
<1>9. Top.line \in DOMAIN Lines
  BY <1>1, <1>4, <1>8
<1> QED BY <1>1, <1>6, <1>7, <1>9 DEF Line

\* There is a header, or the end of the text, from any place on.
LEMMA NextHeaderFound ==
    ASSUME NEW N \in Nat, Len(aggregatedContent) = N, NEW i \in 1 .. N + 1
    PROVE  /\ NextHeader(i) \in i .. N + 1
           /\ NextHeader(i) <= N => IsHeader(aggregatedContent[NextHeader(i)])
           /\ \A k \in i .. NextHeader(i) - 1 : ~ IsHeader(aggregatedContent[k])
<1> DEFINE T == {j \in i .. N + 1 : j <= N => IsHeader(aggregatedContent[j])}
           Found(j) == /\ j <= N => IsHeader(aggregatedContent[j])
                       /\ \A k \in i .. j - 1 : ~ IsHeader(aggregatedContent[k])
<1>1. T \in SUBSET Nat /\ N + 1 \in T
  OBVIOUS
<1> HIDE DEF T
<1>2. PICK j \in T : \A k \in T : j <= k
  BY <1>1, HasFirst
<1> USE DEF T
<1>3. j \in i .. N + 1
  OBVIOUS
<1>4. \A k \in i .. j - 1 : ~ IsHeader(aggregatedContent[k])
  <2> TAKE k \in i .. j - 1
  <2>1. k \in i .. N + 1 /\ k <= N /\ ~ (j <= k)
    BY <1>3
  <2>2. k \notin T
    BY <1>2, <2>1
  <2> QED BY <2>1, <2>2
<1>5. Found(j)
  BY <1>4
<1>6. NextHeader(i) = CHOOSE k \in i .. N + 1 : Found(k)
  BY DEF NextHeader
<1> HIDE DEF Found
<1>7. NextHeader(i) \in i .. N + 1 /\ Found(NextHeader(i))
  BY <1>3, <1>5, <1>6
<1> QED BY <1>7 DEF Found

\* The tokens between headers are opcodes.
LEMMA MembersAreOpcodes ==
    ASSUME AreTokens(aggregatedContent), NEW i \in 1 .. Len(aggregatedContent)
    PROVE  AreOpcodes(Members(i))
<1>1. PICK S : aggregatedContent \in Seq(S) /\ \A t \in S : IsToken(t)
  BY DEF AreTokens
<1>2. PICK N \in Nat : N = Len(aggregatedContent)
  BY <1>1
<1>3. i + 1 \in 1 .. N + 1 /\ i \in Nat
  BY <1>2
<1>4. PICK n : n = NextHeader(i + 1) - 1
  OBVIOUS
<1>5. n \in i .. N /\ \A k \in i + 1 .. n : ~ IsHeader(aggregatedContent[k])
  <2>1. PICK h : h = NextHeader(i + 1)
    OBVIOUS
  <2>2. /\ h \in i + 1 .. N + 1
        /\ \A k \in i + 1 .. h - 1 : ~ IsHeader(aggregatedContent[k])
    BY <1>2, <1>3, <2>1, NextHeaderFound
  <2> QED BY <1>3, <1>4, <2>1, <2>2
<1>6. Members(i) = SubSeq(aggregatedContent, i + 1, n)
  BY <1>4 DEF Members
<1> DEFINE m == Members(i)
<1>7. /\ Len(m) = n - i /\ m \in Seq(S)
      /\ \A k \in 1 .. n - i : m[k] = aggregatedContent[i + k]
  BY <1>1, <1>2, <1>3, <1>5, <1>6
<1> HIDE DEF m
<1>8. PICK O : O = {t \in S : IsOpcode(t)}
  OBVIOUS
<1>9. \A k \in 1 .. n - i : m[k] \in O
  <2> TAKE k \in 1 .. n - i
  <2>1. i + k \in 1 .. N /\ i + k \in i + 1 .. n
    BY <1>3, <1>5
  <2>2. ~ IsHeader(m[k])
    BY <1>5, <1>7, <2>1
  <2>3. m[k] \in S
    BY <1>1, <1>2, <1>7, <2>1
  <2>4. IsOpcode(m[k])
    BY <1>1, <2>2, <2>3 DEF IsToken, IsHeader, IsOpcode
  <2> QED BY <1>8, <2>3, <2>4
<1>10. m \in Seq(O)
  <2>1. DOMAIN m = 1 .. n - i /\ m = [k \in 1 .. n - i |-> m[k]] /\ n - i \in Nat
    BY <1>3, <1>5, <1>7
  <2>2. m \in [1 .. n - i -> O]
    BY <1>9, <2>1
  <2> QED BY <2>1, <2>2
<1> QED BY <1>8, <1>10 DEF m, AreOpcodes

LEMMA NoOpcodesKept ==
    /\ DOMAIN NoOpcodes = Kinds
    /\ \A kind \in Kinds : AreOpcodes(NoOpcodes[kind])
  BY TokensJoin DEF NoOpcodes, Kinds

LEMMA SourceInit == Init => SourceInv
<1> SUFFICES ASSUME Init PROVE SourceInv
  OBVIOUS
<1>1. /\ disk \in Disks /\ DOMAIN defines = {} /\ aggregatedContent = << >>
      /\ stack = << >> /\ opcodes = NoOpcodes /\ phase = "idle"
  BY DEF Init
<1> QED BY <1>1, NoOpcodesKept, TokensJoin, CallsJoin DEF SourceInv

LEMMA SourceBegins ==
    ASSUME SourceInv, NEW path, Begin(path)
    PROVE  SourceInv'
<1>1. /\ UNCHANGED <<disk, defines>> /\ opcodes' = NoOpcodes
      /\ phase' \in {"idle", "reading"}
      /\ stack' = Opened(path) \/ stack' = stack
      /\ aggregatedContent' = << >> \/ aggregatedContent' = aggregatedContent
  BY DEF Begin, Clear, Returns, environment
<1>2. AreCalls(stack')
  BY <1>1, OpenedAreCalls DEF SourceInv
<1>3. AreCalls(stack)'
  BY <1>1, <1>2 DEF AreCalls, IsCall
<1>4. AreTokens(aggregatedContent)'
  BY <1>1, TokensJoin DEF SourceInv, AreTokens
<1> QED BY <1>1, <1>3, <1>4, NoOpcodesKept DEF SourceInv

\* Reading a line.
LEMMA SourceRead ==
    ASSUME SourceInv, phase = "reading", phase' = "reading", UNCHANGED <<disk, opcodes>>,
           \A name \in DOMAIN defines' : IsValue(defines'[name]),
           AreTokens(aggregatedContent'), AreCalls(stack')
    PROVE  SourceInv'
<1>1. AreCalls(stack)'
  BY DEF AreCalls, IsCall
<1>2. AreTokens(aggregatedContent)'
  BY DEF AreTokens
<1> QED BY <1>1, <1>2 DEF SourceInv

LEMMA IncludeRead ==
    ASSUME SourceInv, Include
    PROVE  SourceInv'
<1>1. /\ phase = "reading" /\ phase' = "reading" /\ UNCHANGED <<disk, opcodes>>
      /\ UNCHANGED <<defines, aggregatedContent>>
  BY DEF Include, ReadsLine, environment, parser
<1>2. stack # << >>
  BY DEF Include, ReadsLine
<1>3. \E path : stack' = Advanced \o Opened(path) \/ stack' = Advanced
  BY DEF Include
<1>4. AreCalls(stack')
  BY <1>2, <1>3, AdvancedAreCalls, OpenedAreCalls, CallsJoin DEF SourceInv
<1> QED BY <1>1, <1>4, SourceRead DEF SourceInv

LEMMA DefineRead ==
    ASSUME SourceInv, Define
    PROVE  SourceInv'
<1>1. ReadsLine("define") /\ stack' = Advanced /\ UNCHANGED aggregatedContent
      /\ defines' = With(defines, Line.define, Line.as)
  BY DEF Define
<1>2. phase = "reading" /\ phase' = "reading" /\ UNCHANGED <<disk, opcodes>>
  BY <1>1 DEF ReadsLine, environment, parser
<1>3. IsLine(Line) /\ "define" \in DOMAIN Line /\ stack # << >>
  BY <1>1, LineIsLine
<1>4. IsValue(Line.as)
  BY <1>3 DEF IsLine
<1>5. \A name \in DOMAIN defines' : IsValue(defines'[name])
  BY <1>1, <1>4 DEF SourceInv, With
<1>6. AreCalls(stack')
  BY <1>1, <1>3, AdvancedAreCalls DEF SourceInv
<1> QED BY <1>1, <1>2, <1>5, <1>6, SourceRead DEF SourceInv

LEMMA TokensRead ==
    ASSUME SourceInv, ReadTokens
    PROVE  SourceInv'
<1>1. ReadsLine("tokens") /\ stack' = Advanced /\ UNCHANGED defines
      /\ aggregatedContent' = aggregatedContent \o Expanded(Line.tokens)
  BY DEF ReadTokens
<1>2. phase = "reading" /\ phase' = "reading" /\ UNCHANGED <<disk, opcodes>>
  BY <1>1 DEF ReadsLine, environment, parser
<1>3. IsLine(Line) /\ "tokens" \in DOMAIN Line /\ stack # << >>
  BY <1>1, LineIsLine
<1>4. PICK tokens : tokens = Line.tokens
  OBVIOUS
<1>5. /\ tokens \in Seq({tokens[i] : i \in DOMAIN tokens})
      /\ \A i \in DOMAIN tokens : IsToken(tokens[i])
  BY <1>3, <1>4 DEF IsLine
<1>6. PICK N \in Nat : N = Len(tokens) /\ DOMAIN tokens = 1 .. N
  BY <1>5
<1>7. AreTokens(Expanded(tokens))
  BY <1>5, <1>6, ExpandedAreTokens DEF SourceInv
<1>8. AreTokens(aggregatedContent')
  BY <1>1, <1>4, <1>7, TokensJoin DEF SourceInv
<1>9. AreCalls(stack')
  BY <1>1, <1>3, AdvancedAreCalls DEF SourceInv
<1> QED BY <1>1, <1>2, <1>8, <1>9, SourceRead DEF SourceInv

LEMMA FileEndRead ==
    ASSUME SourceInv, EndOfFile
    PROVE  SourceInv'
<1>1. /\ phase = "reading" /\ phase' = "reading" /\ UNCHANGED <<disk, opcodes>>
      /\ UNCHANGED <<defines, aggregatedContent>>
      /\ stack # << >> /\ stack' = SubSeq(stack, 1, Len(stack) - 1)
  BY DEF EndOfFile, environment, parser
<1>2. PICK S : stack \in Seq(S) /\ \A c \in S : IsCall(c)
  BY DEF SourceInv, AreCalls
<1>3. stack' \in Seq(S)
  BY <1>1, <1>2
<1>4. AreCalls(stack')
  BY <1>2, <1>3 DEF AreCalls
<1> QED BY <1>1, <1>4, SourceRead DEF SourceInv

LEMMA TextEndRead ==
    ASSUME SourceInv, EndOfText
    PROVE  SourceInv'
<1>1. /\ UNCHANGED <<disk, opcodes, stack, defines, aggregatedContent>>
      /\ position' = NextHeader(1)
  BY DEF EndOfText, environment, reader
<1>2. PICK N \in Nat : N = Len(aggregatedContent)
  BY DEF SourceInv, AreTokens
<1>3. NextHeader(1) \in 1 .. N + 1
  BY <1>2, NextHeaderFound
<1>4. position' \in 1 .. Len(aggregatedContent') + 1
  BY <1>1, <1>2, <1>3
<1>5. AreCalls(stack)' /\ AreTokens(aggregatedContent)'
  BY <1>1 DEF SourceInv, AreCalls, IsCall, AreTokens
<1> QED BY <1>1, <1>4, <1>5 DEF SourceInv

\* Parsing a header.
LEMMA HeaderParsed ==
    ASSUME SourceInv, NEW names, ParsesHeader(names),
           \/ UNCHANGED opcodes
           \/ \E kind \in Kinds : opcodes' = [opcodes EXCEPT ![kind] = Members(position)]
    PROVE  SourceInv'
<1>1. /\ UNCHANGED <<disk, stack, defines, aggregatedContent>>
      /\ phase = "parsing" /\ position <= Len(aggregatedContent)
      /\ position' = NextHeader(position + 1)
  BY DEF ParsesHeader, environment, reader
<1>2. PICK N, p : /\ N \in Nat /\ N = Len(aggregatedContent)
                  /\ p = position /\ p \in 1 .. N
  BY <1>1 DEF SourceInv, AreTokens
<1>3. NextHeader(p + 1) \in 1 .. N + 1
  <2>1. PICK q : q = p + 1 /\ q \in 1 .. N + 1
    BY <1>2
  <2>2. NextHeader(q) \in q .. N + 1
    BY <1>2, <2>1, NextHeaderFound
  <2> QED BY <1>2, <2>1, <2>2
<1>4. position' \in 1 .. Len(aggregatedContent') + 1
  BY <1>1, <1>2, <1>3
<1>5. AreCalls(stack)' /\ AreTokens(aggregatedContent)'
  BY <1>1 DEF SourceInv, AreCalls, IsCall, AreTokens
<1>6. AreOpcodes(Members(p))
  BY <1>2, MembersAreOpcodes DEF SourceInv
<1>7. DOMAIN opcodes' = Kinds /\ \A kind \in Kinds : AreOpcodes(opcodes'[kind])
  BY <1>2, <1>6 DEF SourceInv
<1> QED BY <1>1, <1>4, <1>5, <1>7 DEF SourceInv, AreOpcodes

\* Steps that neither read nor parse.
LEMMA SourceStays ==
    ASSUME SourceInv, UNCHANGED <<disk, stack, defines, aggregatedContent, opcodes, position>>,
           phase' = phase \/ phase' # "parsing"
    PROVE  SourceInv'
<1>1. AreCalls(stack)' /\ AreTokens(aggregatedContent)'
  BY DEF SourceInv, AreCalls, IsCall, AreTokens
<1> QED BY <1>1 DEF SourceInv, AreOpcodes

LEMMA SourceKeeps == SourceInv /\ [Next]_vars => SourceInv'
<1> SUFFICES ASSUME SourceInv, [Next]_vars PROVE SourceInv'
  OBVIOUS
<1>1. ASSUME NEW path \in HostFiles, Begin(path)
      PROVE  SourceInv'
  BY <1>1, SourceBegins
<1>2. CASE ParseInherited
  <2>1. PICK names : ParsesHeader(names) /\ names = Kinds
    BY <1>2 DEF ParseInherited, Kinds
  <2>2. Header \in Kinds /\ opcodes' = [opcodes EXCEPT ![Header] = Members(position)]
    BY <1>2, <2>1 DEF ParseInherited, ParsesHeader
  <2> QED BY <2>1, <2>2, HeaderParsed
<1>3. CASE ParseControl \/ ParseOther \/ BuildRegion
  <2>1. UNCHANGED opcodes /\ \E names : ParsesHeader(names)
    BY <1>3 DEF ParseControl, ParseOther, BuildRegion
  <2> QED BY <2>1, HeaderParsed
<1>4. CASE EndOfParse \/ RegisterRegion \/ RemoveRegion \/ EndOfLoad \/ UNCHANGED vars
  <2>1. /\ UNCHANGED <<disk, stack, defines, aggregatedContent, opcodes, position>>
        /\ phase' = phase \/ phase' # "parsing"
    BY <1>4 DEF EndOfParse, RegisterRegion, RemoveRegion, EndOfLoad, Registers, Returns,
                vars, environment, reader, parser
  <2> QED BY <2>1, SourceStays
<1> QED BY <1>1, <1>2, <1>3, <1>4, IncludeRead, DefineRead, TokensRead, FileEndRead, TextEndRead
        DEF Next, Step

\* What the parser takes from the files are tokens, and what it keeps for the regions are
\* opcodes.
THEOREM SourceInvariant == Spec => []SourceInv
  BY SourceInit, SourceKeeps, PTL DEF Spec

-----------------------------------------------------------------------------
(* What opcodes make of a region.                                            *)

\* The settings of the members that a sound relies on.
Fits(s) ==
    /\ s.member \in {"offset", "offsetRandom", "sampleEnd"} =>
          s.kind = "value" /\ s.lo = 0 /\ s.hi = Largest
    /\ s.member = "loopRange" => s.kind \in {"start", "end"} /\ s.lo = 0 /\ s.hi = Largest
    /\ s.member = "velocityPoints" => s.kind = "point"

LEMMA SettingsFit == \A name \in DOMAIN Settings : Fits(Settings[name])
<1>1. \A f, g : (\A x \in DOMAIN f : Fits(f[x])) /\ (\A x \in DOMAIN g : Fits(g[x]))
                    => \A x \in DOMAIN Joined(f, g) : Fits(Joined(f, g)[x])
  BY DEF Joined
<1>2. \A name \in DOMAIN SoundSource : Fits(SoundSource[name])
  BY DEF SoundSource, Fits, Value, Start, End, Choice, Setting
<1>3. \A name \in DOMAIN Conditions : Fits(Conditions[name])
  BY DEF Conditions, Fits, Value, Start, End, StartOfCC, EndOfCC, Choice, Switch, Setting
<1>4. \A name \in DOMAIN Amplifier : Fits(Amplifier[name])
  BY DEF Amplifier, Fits, Value, Start, End, Pair, StartOfCC, EndOfCC, Choice, Setting
<1>5. \A name \in DOMAIN Pitch : Fits(Pitch[name])
  BY DEF Pitch, Fits, Value, Setting
<1>6. \A name \in DOMAIN EnvelopeTimes : Fits(EnvelopeTimes[name])
  BY DEF EnvelopeTimes, Fits, Value, Pair, Setting
<1> QED BY <1>1, <1>2, <1>3, <1>4, <1>5, <1>6 DEF Settings

SoundMembers == {"sample", "offset", "offsetRandom", "sampleEnd", "loopRange", "preloadedData",
                 "velocityPoints", "ampVeltrack"}

ArePoints(s) == \E S : s \in Seq(S) /\ \A p \in S : p[1] \in 0 .. 127

\* A region that has been parsed.
IsSound(r) ==
    /\ SoundMembers \subseteq DOMAIN r
    /\ r.offset \in Nat /\ r.offsetRandom \in Nat /\ r.sampleEnd \in Int
    /\ r.loopRange[1] \in Int /\ r.loopRange[2] \in Int
    /\ ArePoints(r.velocityPoints)

\* Before any opcode a region is a sound.
LEMMA NewRegionIsSound == IsSound(NewRegion)
<1>1. \A m : \A f, g : m \in DOMAIN f => m \in DOMAIN Joined(f, g) /\ Joined(f, g)[m] = f[m]
  BY DEF Joined
<1>2. \A m : \A f, g : m \notin DOMAIN f /\ m \in DOMAIN g
                           => m \in DOMAIN Joined(f, g) /\ Joined(f, g)[m] = g[m]
  BY DEF Joined
<1>3. \A m \in SoundMembers \ {"velocityPoints", "ampVeltrack"} :
          m \in DOMAIN NewRegion /\ NewRegion[m] = SoundDefaults[m]
  <2>1. \A m \in SoundMembers \ {"velocityPoints", "ampVeltrack"} : m \in DOMAIN SoundDefaults
    BY DEF SoundDefaults, SoundMembers
  <2> QED BY <1>1, <2>1 DEF NewRegion
<1>4. \A m \in {"velocityPoints", "ampVeltrack"} :
          m \in DOMAIN NewRegion /\ NewRegion[m] = AmplifierDefaults[m]
  <2> TAKE m \in {"velocityPoints", "ampVeltrack"}
  <2>1. m \in DOMAIN AmplifierDefaults
    BY DEF AmplifierDefaults
  <2>2. m \notin DOMAIN SoundDefaults
    BY DEF SoundDefaults
  <2>3. m \notin DOMAIN ConditionDefaults
    BY DEF ConditionDefaults
  <2>4. m \notin DOMAIN SwitchDefaults
    BY DEF SwitchDefaults
  <2> QED BY <1>1, <1>2, <2>1, <2>2, <2>3, <2>4 DEF NewRegion
<1>5. ArePoints(<< >>)
  <2>1. PICK S : S = {}
    OBVIOUS
  <2>2. << >> \in Seq(S) /\ \A p \in S : p[1] \in 0 .. 127
    BY <2>1
  <2> QED BY <2>2 DEF ArePoints
<1>6. /\ SoundDefaults.offset = 0 /\ SoundDefaults.offsetRandom = 0
      /\ SoundDefaults.sampleEnd = Largest /\ SoundDefaults.loopRange = <<0, Largest>>
  BY DEF SoundDefaults
<1>7. AmplifierDefaults.velocityPoints = << >>
  BY DEF AmplifierDefaults
<1>8. SoundMembers \subseteq DOMAIN NewRegion
  BY <1>3, <1>4
<1> QED BY <1>3, <1>4, <1>5, <1>6, <1>7, <1>8, LargestAssumption DEF IsSound, SoundMembers

\* A number is clamped, and a note is in the range of a uint32_t.
LEMMA ReadIsInRange ==
    ASSUME NEW value, IsValue(value), Read(value, 0, Largest) # Null
    PROVE  Read(value, 0, Largest) \in 0 .. Largest
<1>1. CASE value[1] = "number"
  BY <1>1, LargestAssumption DEF Read, IsValue, Clamp, Least, Greatest
<1>2. CASE value[1] = "note"
  BY <1>2, LargestAssumption DEF Read, IsValue
<1> QED BY <1>1, <1>2 DEF Read

\* A new point of the velocity curve.
LEMMA PointsGrow ==
    ASSUME NEW s, ArePoints(s), NEW p, p[1] \in 0 .. 127
    PROVE  ArePoints(Append(s, p))
<1>1. PICK S : s \in Seq(S) /\ \A q \in S : q[1] \in 0 .. 127
  BY DEF ArePoints
<1>2. Append(s, p) \in Seq(S \cup {p}) /\ \A q \in S \cup {p} : q[1] \in 0 .. 127
  <2>1. s \in Seq(S \cup {p}) /\ p \in S \cup {p}
    BY <1>1
  <2> QED BY <1>1, <2>1, AppendProperties
<1> QED BY <1>2 DEF ArePoints

\* An opcode leaves a sound a sound.
LEMMA ParsedIsSound ==
    ASSUME NEW r, IsSound(r), NEW opcode, IsOpcode(opcode)
    PROVE  IsSound(ParseOpcode(r, opcode))
<1>1. CASE ~ Recognised(opcode) \/ opcode.name \in Ignored
  BY <1>1 DEF ParseOpcode
<1>2. CASE Recognised(opcode) /\ opcode.name \notin Ignored
  <2>1. opcode.name \in DOMAIN Settings
    BY <1>2 DEF Recognised
  <2>2. PICK s : s = Settings[opcode.name] /\ Fits(s)
    BY <2>1, SettingsFit
  <2> DEFINE set == [r EXCEPT ![s.member] = NewValue(s, opcode, r[s.member])]
             x == Read(opcode.value, s.lo, s.hi)
  <2>3. ParseOpcode(r, opcode) = KeyCentred(Switched(set, opcode), opcode)
    BY <1>2, <2>2 DEF ParseOpcode
  <2>4. IsSound(set)
    <3>1. SoundMembers \subseteq DOMAIN set
      BY DEF IsSound
    <3>2. \A m \in SoundMembers : set[m] = IF m = s.member THEN NewValue(s, opcode, r[m]) ELSE r[m]
      BY DEF IsSound
    <3>a. s.lo = 0 /\ s.hi = Largest /\ x # Null => x \in 0 .. Largest
      BY ReadIsInRange DEF IsOpcode
    <3> HIDE DEF set, x
    <3>3. \A m \in {"offset", "offsetRandom", "sampleEnd"} :
              s.member = m => set[m] = r[m] \/ set[m] \in 0 .. Largest
      <4> TAKE m \in {"offset", "offsetRandom", "sampleEnd"}
      <4> HAVE s.member = m
      <4>1. s.kind = "value" /\ s.lo = 0 /\ s.hi = Largest /\ set[m] = NewValue(s, opcode, r[m])
        BY <2>2, <3>2 DEF Fits, SoundMembers
      <4>2. NewValue(s, opcode, r[m]) = IF x = Null THEN r[m] ELSE x
        BY <4>1 DEF NewValue, x
      <4> QED BY <3>a, <4>1, <4>2
    <3>4. set.loopRange[1] \in Int /\ set.loopRange[2] \in Int
      <4>1. CASE s.member = "loopRange"
        <5>1. /\ s.kind \in {"start", "end"} /\ s.lo = 0 /\ s.hi = Largest
              /\ set.loopRange = NewValue(s, opcode, r.loopRange)
          BY <2>2, <3>2, <4>1 DEF Fits, SoundMembers
        <5>2. \/ set.loopRange = r.loopRange
              \/ x # Null /\ set.loopRange \in {SetStart(r.loopRange, x), SetEnd(r.loopRange, x)}
          BY <5>1 DEF NewValue, x
        <5> QED BY <3>a, <5>1, <5>2, LargestAssumption
            DEF IsSound, SetStart, SetEnd, Least, Greatest
      <4>2. CASE s.member # "loopRange"
        BY <3>2, <4>2 DEF IsSound, SoundMembers
      <4> QED BY <4>1, <4>2
    <3>5. ArePoints(set.velocityPoints)
      <4>1. CASE s.member = "velocityPoints"
        <5>1. s.kind = "point" /\ set.velocityPoints = NewValue(s, opcode, r.velocityPoints)
          BY <2>2, <3>2, <4>1 DEF Fits, SoundMembers
        <5>2. \/ set.velocityPoints = r.velocityPoints
              \/ /\ Parameter(opcode) # Null
                 /\ set.velocityPoints = Append(r.velocityPoints, <<Parameter(opcode), x>>)
          BY <5>1 DEF NewValue, x
        <5>3. Parameter(opcode) # Null => Parameter(opcode) \in 0 .. 127
          <6>1. ASSUME NEW n \in Nat PROVE n % 256 \in Nat
            OBVIOUS
          <6> QED BY <1>2, <6>1 DEF Recognised, Parameter, IsOpcode
        <5> QED BY <5>2, <5>3, PointsGrow DEF IsSound
      <4>2. CASE s.member # "velocityPoints"
        BY <3>2, <4>2 DEF IsSound, SoundMembers
      <4> QED BY <4>1, <4>2
    <3>6. set.offset \in Nat /\ set.offsetRandom \in Nat /\ set.sampleEnd \in Int
      BY <3>2, <3>3, LargestAssumption DEF IsSound, SoundMembers
    <3> QED BY <3>1, <3>4, <3>5, <3>6 DEF IsSound
  <2> HIDE DEF set
  <2>5. \A m \in SoundMembers :
            ParseOpcode(r, opcode)[m] = set[m] /\ m \in DOMAIN ParseOpcode(r, opcode)
    <3>1. \A m \in SoundMembers :
              Switched(set, opcode)[m] = set[m] /\ m \in DOMAIN Switched(set, opcode)
      BY <2>4 DEF Switched, IsSound, SoundMembers
    <3> DEFINE one == Switched(set, opcode)
    <3> HIDE DEF one
    <3>2. \A m \in SoundMembers :
              KeyCentred(one, opcode)[m] = one[m] /\ m \in DOMAIN KeyCentred(one, opcode)
      BY <3>1 DEF KeyCentred, SoundMembers, one
    <3> QED BY <2>3, <3>1, <3>2 DEF one
  <2>6. ASSUME NEW t, \A m \in SoundMembers : t[m] = set[m] /\ m \in DOMAIN t
        PROVE  IsSound(t)
    BY <2>4, <2>6 DEF IsSound, SoundMembers
  <2> QED BY <2>5, <2>6
<1> QED BY <1>1, <1>2

\* buildRegion gives each opcode to the region in turn.
LEMMA CollectedInTurn ==
    ASSUME NEW given, NEW N \in Nat, N = Len(given)
    PROVE  \E after : /\ Collected(given) = after[N]
                      /\ after[0] = [region |-> NewRegion, unknown |-> unknownOpcodes]
                      /\ \A k \in 1 .. N : after[k] = Handed(after[k - 1], given[k])
<1> DEFINE first == [region |-> NewRegion, unknown |-> unknownOpcodes]
           body(f, m) == [i \in 0 .. m |-> IF i = 0 THEN first ELSE Handed(f[i - 1], given[i])]
           after == CHOOSE f : f = body(f, N)
<1>1. Collected(given) = after[N]
  BY DEF Collected
<1> HIDE DEF first
<1>2. after = body(after, N)
  <2> DEFINE Reached == {m \in 0 .. N : \E f : f = body(f, m)}
  <2>1. 0 \in Reached
    <3> DEFINE f == [k \in 0 .. 0 |-> first]
    <3>1. f = body(f, 0)
      OBVIOUS
    <3> HIDE DEF f, body
    <3> QED BY <3>1
  <2>2. \A m \in 1 .. N : m - 1 \in Reached => m \in Reached
    <3> TAKE m \in 1 .. N
    <3> HAVE m - 1 \in Reached
    <3>1. PICK h : h = body(h, m - 1)
      OBVIOUS
    <3> DEFINE f == body(h, m)
    <3>2. m \in Nat /\ m \in 0 .. N /\ m >= 1
      OBVIOUS
    <3>3. \A k \in 0 .. m - 1 : f[k] = h[k]
      <4>1. \A k \in 0 .. m - 1 :
                h[k] = IF k = 0 THEN first ELSE Handed(h[k - 1], given[k])
        BY <3>1
      <4>2. \A k \in 0 .. m - 1 : k \in 0 .. m
        BY <3>2
      <4> QED BY <4>1, <4>2
    <3>4. \A k \in 0 .. m : k # 0 => f[k - 1] = h[k - 1]
      <4>1. \A k \in 0 .. m : k # 0 => k - 1 \in 0 .. m - 1
        BY <3>2
      <4> QED BY <3>3, <4>1
    <3>5. f = body(f, m)
      BY <3>4
    <3> HIDE DEF f, body
    <3> QED BY <3>2, <3>5
  <2> HIDE DEF Reached
  <2>3. 0 .. N \subseteq Reached
    BY <2>1, <2>2, UpTo
  <2>4. N \in Reached
    BY <2>3
  <2>5. \E f : f = body(f, N)
    BY <2>4 DEF Reached
  <2> HIDE DEF body
  <2> QED BY <2>5
<1> HIDE DEF after
<1>3. after[0] = first
  BY <1>2
<1>4. \A k \in 1 .. N : after[k] = Handed(after[k - 1], given[k])
  BY <1>2
<1> QED BY <1>1, <1>3, <1>4 DEF first

LEMMA CollectedIsSound ==
    ASSUME NEW given, AreOpcodes(given)
    PROVE  IsSound(Collected(given).region)
<1>1. PICK N, S : /\ N \in Nat /\ N = Len(given)
                  /\ given \in Seq(S) /\ \A t \in S : IsOpcode(t)
  BY DEF AreOpcodes
<1>2. \A i \in 1 .. N : IsOpcode(given[i])
  BY <1>1
<1> DEFINE first == [region |-> NewRegion, unknown |-> unknownOpcodes]
           Good(acc) == DOMAIN acc = {"region", "unknown"} /\ IsSound(acc.region)
<1>3. Good(first)
  BY NewRegionIsSound
<1>4. \A acc, opcode : Good(acc) /\ IsOpcode(opcode) => Good(Handed(acc, opcode))
  BY ParsedIsSound DEF Handed
<1> HIDE DEF Good
<1>5. PICK after : /\ Collected(given) = after[N] /\ after[0] = first
                   /\ \A k \in 1 .. N : after[k] = Handed(after[k - 1], given[k])
  BY <1>1, CollectedInTurn
<1> HIDE DEF first
<1> DEFINE T == {k \in 0 .. N : Good(after[k])}
<1>6. 0 \in T
  BY <1>1, <1>3, <1>5
<1>7. \A k \in 1 .. N : k - 1 \in T => k \in T
  <2> TAKE k \in 1 .. N
  <2> HAVE k - 1 \in T
  <2>1. after[k] = Handed(after[k - 1], given[k])
    BY <1>1, <1>5
  <2>2. Good(after[k])
    BY <1>2, <1>4, <2>1
  <2> QED BY <2>2
<1> HIDE DEF T
<1>8. N \in T
  <2>1. N \in Nat
    BY <1>1
  <2>2. 0 .. N \subseteq T
    BY <1>6, <1>7, <2>1, UpTo
  <2> QED BY <2>1, <2>2
<1> QED BY <1>5, <1>8 DEF T, Good

-----------------------------------------------------------------------------
(* Velocity curves.                                                          *)

IsSorted(points) == \A i \in 1 .. Len(points) - 1 : points[i][1] <= points[i + 1][1]

\* What sorting makes of points.
LEMMA SortedPoints ==
    ASSUME NEW points, ArePoints(points), NEW sorted \in ByVelocity(points)
    PROVE  ArePoints(sorted) /\ IsSorted(sorted) /\ (sorted = << >> <=> points = << >>)
<1>a. PICK S : points \in Seq(S) /\ \A p \in S : p[1] \in 0 .. 127
  BY DEF ArePoints
<1>b. PICK n \in Nat : n = Len(points)
  BY <1>a
<1>1. /\ points \in Seq(S) /\ \A p \in S : p[1] \in 0 .. 127
      /\ n = Len(points) /\ n \in Nat
  BY <1>a, <1>b
<1>2. DOMAIN points = 1 .. n
  BY <1>1
<1>3. PICK order \in [1 .. n -> 1 .. n] :
          /\ \A i, j \in 1 .. n : i < j => points[order[i]][1] <= points[order[j]][1]
          /\ sorted = [i \in 1 .. n |-> points[order[i]]]
  BY <1>2 DEF ByVelocity
<1>4. sorted \in [1 .. n -> S]
  <2>1. \A k \in 1 .. n : points[k] \in S
    BY <1>1
  <2>2. \A i \in 1 .. n : order[i] \in 1 .. n
    OBVIOUS
  <2> QED BY <1>3, <2>1, <2>2
<1>5. sorted \in Seq(S) /\ Len(sorted) = n
  BY <1>1, <1>4
<1>6. ArePoints(sorted)
  BY <1>1, <1>5 DEF ArePoints
<1>7. \A i \in 1 .. n - 1 : sorted[i][1] <= sorted[i + 1][1]
  <2>1. \A i \in 1 .. n - 1 : i \in 1 .. n /\ i + 1 \in 1 .. n /\ i < i + 1
    BY <1>1
  <2> QED BY <1>3, <2>1
<1>8. sorted = << >> <=> points = << >>
  BY <1>1, <1>5
<1> QED BY <1>5, <1>6, <1>7, <1>8 DEF IsSorted

\* A curve that has a value for each velocity.
IsCovering(points) ==
    points # << >> => /\ points[1][1] = 0 /\ points[Len(points)][1] = 127
                      /\ \A j \in 1 .. Len(points) - 1 : points[j][1] <= points[j + 1][1]

\* A curve with endpoints, with positive tracking.
LEMMA EndpointsCover ==
    ASSUME NEW points, ArePoints(points), IsSorted(points), NEW track, track > 0
    PROVE  IsCovering(WithEndpoints(points, track))
<1>1. CASE points = << >>
  BY <1>1 DEF WithEndpoints, IsCovering
<1>2. CASE points # << >>
  <2> DEFINE all == WithEndpoints(points, track)
             low == <<0, 0>>
             high == <<127, RandOne>>
             before == IF points[1][1] = 0 THEN << >> ELSE <<low>>
             behind == IF points[Len(points)][1] = 127 THEN << >> ELSE <<high>>
  <2>1. all = before \o points \o behind
    BY <1>2 DEF WithEndpoints
  <2>a. PICK S : points \in Seq(S) /\ \A p \in S : p[1] \in 0 .. 127
    BY DEF ArePoints
  <2>b. PICK n \in Nat : n = Len(points)
    BY <2>a
  <2>2. /\ points \in Seq(S) /\ \A p \in S : p[1] \in 0 .. 127
        /\ n = Len(points) /\ n \in Nat
    BY <2>a, <2>b
  <2>3. n >= 1
    BY <1>2, <2>2
  <2>4. \A i \in 1 .. n : points[i][1] \in 0 .. 127
    BY <2>2
  <2>5. \A i \in 1 .. n - 1 : points[i][1] <= points[i + 1][1]
    BY <2>2 DEF IsSorted
  <2>6. low[1] = 0 /\ high[1] = 127
    OBVIOUS
  <2> HIDE DEF all, low, high
  <2>7. PICK R : R = S \cup {low, high}
    OBVIOUS
  <2>c. points \in Seq(R) /\ low \in R /\ high \in R
    BY <2>2, <2>7
  <2>d. before \in Seq(R) /\ behind \in Seq(R)
    BY <2>c
  <2>8. points \in Seq(R) /\ before \in Seq(R) /\ behind \in Seq(R) /\ before \o points \in Seq(R)
    BY <2>c, <2>d, ConcatProperties
  <2>9. /\ Len(before) = IF points[1][1] = 0 THEN 0 ELSE 1
        /\ points[1][1] # 0 => before[1] = low
        /\ Len(behind) = IF points[n][1] = 127 THEN 0 ELSE 1
        /\ points[n][1] # 127 => behind[1] = high
    BY <2>2
  <2> HIDE DEF before, behind
  <2>10. PICK b, e : b = Len(before) /\ e = Len(behind)
    OBVIOUS
  <2>11. b \in {0, 1} /\ e \in {0, 1}
    BY <2>9, <2>10
  <2>12. /\ Len(all) = b + n + e
         /\ \A i \in 1 .. b : all[i] = before[i]
         /\ \A i \in b + 1 .. b + n : all[i] = points[i - b]
         /\ \A i \in b + n + 1 .. b + n + e : all[i] = behind[i - b - n]
    BY <2>1, <2>2, <2>8, <2>10
  <2>13. \A i \in 1 .. b + n + e : 
             all[i][1] = IF i <= b THEN 0 ELSE IF i <= b + n THEN points[i - b][1] ELSE 127
    <3> TAKE i \in 1 .. b + n + e
    <3>1. CASE i <= b
      <4>1. i = 1 /\ b = 1
        BY <2>2, <2>11, <3>1
      <4> QED BY <2>6, <2>9, <2>10, <2>12, <4>1, <3>1
    <3>2. CASE b < i /\ i <= b + n
      <4>1. i \in b + 1 .. b + n /\ ~ i <= b
        BY <2>2, <2>11, <3>2
      <4> QED BY <2>12, <3>2, <4>1
    <3>3. CASE i > b + n
      <4>1. i - b - n = 1 /\ e = 1 /\ i \in b + n + 1 .. b + n + e /\ ~ i <= b /\ ~ i <= b + n
        BY <2>2, <2>11, <3>3
      <4>2. all[i] = behind[1]
        BY <2>12, <4>1
      <4> QED BY <2>6, <2>9, <2>10, <4>1, <4>2
    <3> QED BY <2>2, <2>11, <3>1, <3>2, <3>3
  <2>14. all[1][1] = 0
    <3>1. 1 \in 1 .. b + n + e /\ (b = 0 => ~ 1 <= b /\ 1 <= b + n /\ 1 - b = 1)
      BY <2>2, <2>3, <2>11
    <3> QED BY <2>9, <2>10, <2>11, <2>13, <3>1
  <2>15. all[b + n + e][1] = 127
    <3>1. PICK i : i = b + n + e
      OBVIOUS
    <3>2. /\ i \in 1 .. b + n + e /\ ~ i <= b
          /\ e = 0 => i <= b + n /\ i - b = n
          /\ e = 1 => ~ i <= b + n
      BY <2>2, <2>3, <2>11, <3>1
    <3>3. all[i][1] = IF i <= b THEN 0 ELSE IF i <= b + n THEN points[i - b][1] ELSE 127
      BY <2>13, <3>2
    <3>4. CASE e = 0
      <4>1. points[n][1] = 127
        BY <2>9, <2>10, <3>4
      <4> QED BY <3>1, <3>2, <3>3, <3>4, <4>1
    <3>5. CASE e = 1
      BY <3>1, <3>2, <3>3, <3>5
    <3> QED BY <2>11, <3>4, <3>5
  <2>16. ASSUME NEW j \in 1 .. b + n + e - 1
         PROVE  all[j][1] <= all[j + 1][1]
    <3>1. j \in 1 .. b + n + e /\ j + 1 \in 1 .. b + n + e
      BY <2>2, <2>11
    <3>a. \A i \in 1 .. b + n + e : i > b /\ i <= b + n => i - b \in 1 .. n
      BY <2>2, <2>11
    <3>b. \A i \in 1 .. b + n + e : all[i][1] \in 0 .. 127
      <4> TAKE i \in 1 .. b + n + e
      <4>1. CASE i <= b
        BY <2>13, <4>1
      <4>2. CASE ~ i <= b /\ i <= b + n
        <5>1. all[i][1] = points[i - b][1]
          BY <2>13, <4>2
        <5>2. i - b \in 1 .. n
          BY <2>2, <2>11, <4>2
        <5> QED BY <2>4, <5>1, <5>2
      <4>3. CASE ~ i <= b /\ ~ i <= b + n
        BY <2>13, <4>3
      <4> QED BY <4>1, <4>2, <4>3
    <3>2. all[j][1] \in 0 .. 127 /\ all[j + 1][1] \in 0 .. 127
      BY <3>1, <3>b
    <3>3. CASE j <= b
      BY <2>13, <3>1, <3>2, <3>3
    <3>4. CASE j + 1 > b + n
      <4>1. ~ j + 1 <= b + n /\ ~ j + 1 <= b
        BY <2>2, <2>11, <3>1, <3>4
      <4> QED BY <2>13, <3>1, <3>2, <4>1
    <3>5. CASE j > b /\ j + 1 <= b + n
      <4>1. PICK i : i = j - b /\ i \in 1 .. n - 1 /\ (j + 1) - b = i + 1
        BY <2>2, <2>11, <3>1, <3>5
      <4>2. /\ ~ j <= b /\ ~ j + 1 <= b /\ j <= b + n
        BY <2>2, <2>11, <3>1, <3>5
      <4> QED BY <2>5, <2>13, <3>1, <3>5, <4>1, <4>2
    <3> QED BY <2>2, <2>11, <3>1, <3>3, <3>4, <3>5
  <2>17. PICK whole : whole = all
    OBVIOUS
  <2>18. PICK m : m = Len(whole) /\ m = b + n + e
    BY <2>12, <2>17
  <2>e. whole[1][1] = 0 /\ whole[m][1] = 127
    BY <2>14, <2>15, <2>17, <2>18
  <2>f. \A j \in 1 .. m - 1 : whole[j][1] <= whole[j + 1][1]
    <3> TAKE j \in 1 .. m - 1
    <3>1. j \in 1 .. b + n + e - 1
      BY <2>2, <2>11, <2>18
    <3>2. all[j][1] <= all[j + 1][1]
      BY <2>16, <3>1
    <3> QED BY <2>17, <3>2
  <2>19. IsCovering(whole)
    BY <2>18, <2>e, <2>f DEF IsCovering
  <2> QED BY <2>17, <2>19 DEF all
<1> QED BY <1>1, <1>2

-----------------------------------------------------------------------------
(* Registering a sound.                                                      *)

\* The heads of the samples are no longer than the samples.
HeadsFit ==
    \A name \in DOMAIN preloadedData :
        /\ preloadedData[name] \in Nat
        /\ LET path == Resolved(Under(rootDirectory, name[2])) IN
           path \in DOMAIN disk.samples => preloadedData[name] <= disk.samples[path].frames

LEMMA SampleOfDisk ==
    ASSUME disk \in Disks, NEW r, NEW s \in SamplesFor(r)
    PROVE  /\ SamplePath(r) \in DOMAIN disk.samples /\ s = disk.samples[SamplePath(r)]
           /\ s.frames \in Nat /\ (s.loop # Null => s.loop \in Nat \X Nat)
<1>1. SamplePath(r) \in DOMAIN disk.samples /\ s = disk.samples[SamplePath(r)]
  BY DEF SamplesFor
<1>2. PICK path : path = SamplePath(r)
  OBVIOUS
<1>3. /\ disk.samples[path].frames \in Nat
      /\ disk.samples[path].loop # Null => disk.samples[path].loop \in Nat \X Nat
  BY <1>1, <1>2, DisksAssumption
<1> QED BY <1>1, <1>2, <1>3

\* The head that a region gets is no longer than the sample, and covers its offsets.
LEMMA HeadCovers ==
    ASSUME disk \in Disks, HeadsFit, NEW r, IsSound(r), NEW s \in SamplesFor(r)
    PROVE  /\ HeadFrames(r, s.frames) \in Nat /\ HeadFrames(r, s.frames) <= s.frames
           /\ LET wanted == r.offset + r.offsetRandom + PreloadSize IN
              wanted <= Largest => HeadFrames(r, s.frames) >= Least(s.frames, wanted)
<1>1. PICK n \in Nat : n = s.frames
  BY SampleOfDisk
<1>2. PICK wanted \in Nat : wanted = r.offset + r.offsetRandom + PreloadSize
  BY LoaderAssumption DEF IsSound
<1>3. /\ wanted % (Largest + 1) \in Nat
      /\ wanted <= Largest => wanted % (Largest + 1) = wanted
  BY LargestAssumption
<1>4. PreloadedSize(r, n) = Least(n, wanted % (Largest + 1))
  BY <1>2 DEF PreloadedSize
<1>5. PICK p : p = PreloadedSize(r, n)
  OBVIOUS
<1>6. p \in Nat /\ p <= n /\ (wanted <= Largest => p >= Least(n, wanted))
  BY <1>3, <1>4, <1>5 DEF Least
<1>7. CASE r.sample \in DOMAIN preloadedData
  <2>1. preloadedData[r.sample] \in Nat /\ preloadedData[r.sample] <= n
    BY <1>1, <1>7, SampleOfDisk DEF HeadsFit, SamplePath, SampleUnder
  <2>2. HeadFrames(r, n) = Greatest(preloadedData[r.sample], p)
    BY <1>5, <1>7 DEF HeadFrames
  <2>3. PICK l \in Nat : l = Least(n, wanted)
    BY DEF Least
  <2> QED BY <1>1, <1>2, <1>6, <2>1, <2>2, <2>3 DEF Greatest
<1>8. CASE r.sample \notin DOMAIN preloadedData
  <2>1. HeadFrames(r, n) = p
    BY <1>5, <1>8 DEF HeadFrames
  <2> QED BY <1>1, <1>2, <1>6, <2>1
<1> QED BY <1>7, <1>8

\* What of the region that RegisterRegion stores is what of the one that it found.
LEMMA StoredRegion ==
    ASSUME NEW r, SoundMembers \subseteq DOMAIN r, NEW points, NEW state
    PROVE  LET new == With([r EXCEPT !.velocityPoints = points], "state", state) IN
           /\ new.velocityPoints = points
           /\ \A m \in SoundMembers \ {"velocityPoints"} : new[m] = r[m]
  BY DEF With, SoundMembers

LEMMA RegisteredIsReady ==
    ASSUME disk \in Disks, HeadsFit, NEW r, IsSound(r), NEW informed \in WithSample(r),
           NEW points \in ByVelocity(r.velocityPoints), NEW state
    PROVE  IsReady(With([informed EXCEPT
                !.velocityPoints = WithEndpoints(points, informed.ampVeltrack)], "state", state))
<1> DEFINE curve == WithEndpoints(points, informed.ampVeltrack)
           new == With([informed EXCEPT !.velocityPoints = curve], "state", state)
<1>1. /\ SoundMembers \subseteq DOMAIN informed
      /\ \A m \in {"sample", "offset", "offsetRandom", "ampVeltrack"} : informed[m] = r[m]
  BY DEF WithSample, IsSound, SoundMembers
<1>2. /\ new.velocityPoints = curve
      /\ \A m \in SoundMembers \ {"velocityPoints"} : new[m] = informed[m]
  BY <1>1, StoredRegion
<1> HIDE DEF new, curve
<1>3. /\ new.sample = r.sample /\ new.offset = r.offset /\ new.offsetRandom = r.offsetRandom
      /\ new.ampVeltrack = informed.ampVeltrack
      /\ new.sampleEnd = informed.sampleEnd /\ new.loopRange = informed.loopRange
      /\ new.preloadedData = informed.preloadedData
  BY <1>1, <1>2 DEF SoundMembers
<1>4. SamplesFor(new) = SamplesFor(r) /\ (IsGenerator(new) <=> IsGenerator(r))
  BY <1>3 DEF SamplesFor, SamplePath, SampleUnder, IsGenerator
<1>5. ASSUME new.ampVeltrack > 0 PROVE IsCovering(new.velocityPoints)
  <2>1. ArePoints(points) /\ IsSorted(points)
    BY SortedPoints DEF IsSound
  <2>2. informed.ampVeltrack > 0
    BY <1>3, <1>5
  <2> QED BY <1>2, <2>1, <2>2, EndpointsCover DEF curve
<1>6. ASSUME NEW s \in SamplesFor(new), ~ IsGenerator(new)
      PROVE  LET wanted == new.offset + new.offsetRandom + PreloadSize IN
             /\ new.sampleEnd <= s.frames /\ new.preloadedData <= s.frames
             /\ wanted <= Largest => new.preloadedData >= Least(s.frames, wanted)
             /\ s.instrument /\ s.loop # Null =>
                   /\ new.loopRange[1] >= Least(s.loop[1], s.loop[2])
                   /\ new.loopRange[2] <= Greatest(s.loop[1], s.loop[2])
  <2>1. s \in SamplesFor(r) /\ ~ IsGenerator(r)
    BY <1>4, <1>6
  <2>2. PICK info \in UNION {{t} \X LoopsOf(t) : t \in SamplesFor(r)} :
            informed = [r EXCEPT !.sampleEnd = Least(@, info[1].frames),
                                 !.loopRange = ShrinkIfSmaller(@, info[2][1], info[2][2]),
                                 !.preloadedData = HeadFrames(r, info[1].frames)]
    BY <2>1 DEF WithSample
  <2>3. info[1] \in SamplesFor(r) /\ info[2] \in LoopsOf(info[1])
    BY <2>2
  <2>4. info[1] = s
    BY <2>1, <2>3, SampleOfDisk
  <2>5. /\ informed.sampleEnd = Least(r.sampleEnd, s.frames)
        /\ informed.loopRange = ShrinkIfSmaller(r.loopRange, info[2][1], info[2][2])
        /\ informed.preloadedData = HeadFrames(r, s.frames)
    BY <2>2, <2>4 DEF IsSound, SoundMembers
  <2>6. s.frames \in Nat /\ (s.loop # Null => s.loop \in Nat \X Nat)
    BY <2>1, SampleOfDisk
  <2>7. new.sampleEnd <= s.frames
    BY <1>3, <2>5, <2>6 DEF Least, IsSound
  <2>8. LET wanted == new.offset + new.offsetRandom + PreloadSize IN
        /\ new.preloadedData <= s.frames
        /\ wanted <= Largest => new.preloadedData >= Least(s.frames, wanted)
    BY <1>3, <2>1, <2>5, HeadCovers
  <2>9. ASSUME s.instrument /\ s.loop # Null
        PROVE  /\ new.loopRange[1] >= Least(s.loop[1], s.loop[2])
               /\ new.loopRange[2] <= Greatest(s.loop[1], s.loop[2])
    <3>1. info[2] = s.loop
      BY <2>3, <2>4, <2>9 DEF LoopsOf
    <3>2. PICK a, b : /\ a \in Nat /\ b \in Nat /\ a = s.loop[1] /\ b = s.loop[2]
      BY <2>6, <2>9
    <3>3. new.loopRange = ShrinkIfSmaller(r.loopRange, a, b)
      BY <1>3, <2>5, <3>1, <3>2
    <3> QED BY <3>2, <3>3 DEF ShrinkIfSmaller, Least, Greatest, IsSound
  <2> QED BY <2>7, <2>8, <2>9
<1>7. IsReady(new)
  BY <1>5, <1>6 DEF IsReady, IsCovering
<1> QED BY <1>7 DEF new, curve

\* The pool keeps the heads that fit.
LEMMA HeadsStillFit ==
    ASSUME disk \in Disks, HeadsFit, NEW r, IsSound(r), NEW informed \in WithSample(r),
           ~ IsGenerator(informed)
    PROVE  LET heads == With(preloadedData, informed.sample, informed.preloadedData) IN
           \A name \in DOMAIN heads :
               /\ heads[name] \in Nat
               /\ LET path == Resolved(Under(rootDirectory, name[2])) IN
                  path \in DOMAIN disk.samples => heads[name] <= disk.samples[path].frames
<1>1. /\ SoundMembers \subseteq DOMAIN informed /\ informed.sample = r.sample
  BY DEF WithSample, IsSound, SoundMembers
<1>2. ~ IsGenerator(r)
  BY <1>1 DEF IsGenerator
<1>3. PICK info \in UNION {{t} \X LoopsOf(t) : t \in SamplesFor(r)} :
          informed = [r EXCEPT !.sampleEnd = Least(@, info[1].frames),
                               !.loopRange = ShrinkIfSmaller(@, info[2][1], info[2][2]),
                               !.preloadedData = HeadFrames(r, info[1].frames)]
  BY <1>2 DEF WithSample
<1>4. PICK s \in SamplesFor(r) : s = info[1]
  BY <1>3
<1>5. informed.preloadedData = HeadFrames(r, s.frames)
  BY <1>3, <1>4 DEF IsSound, SoundMembers
<1>6. PICK h : h = informed.preloadedData /\ h \in Nat /\ h <= s.frames
  BY <1>5, HeadCovers
<1>7. /\ SamplePath(r) = Resolved(Under(rootDirectory, informed.sample[2]))
      /\ s = disk.samples[SamplePath(r)]
  BY <1>1, SampleOfDisk DEF SamplePath, SampleUnder
<1> QED BY <1>6, <1>7 DEF HeadsFit, With

-----------------------------------------------------------------------------
(* The steps of the sounds.                                                  *)

\* Regions that are parsed are sounds, and from the moment that they are registered
\* they are ready.
SoundInv ==
    /\ phase \in {"reading", "parsing"} =>
          /\ preloadedData = NoData
          /\ \A i \in 1 .. Len(regions) : IsSound(regions[i])
    /\ phase = "registering" =>
          /\ HeadsFit
          /\ \A i \in 1 .. Len(regions) :
                IF i < currentRegion THEN IsReady(regions[i]) ELSE IsSound(regions[i])
    /\ Loaded => \A i \in 1 .. Len(regions) : IsReady(regions[i])

LEMMA ReadyStays ==
    ASSUME UNCHANGED <<disk, rootDirectory>>
    PROVE  \A r : IsReady(r)' <=> IsReady(r)
<1>1. \A r : SamplesFor(r)' = SamplesFor(r)
  BY DEF SamplesFor, SamplePath, SampleUnder, Resolved, Under, Absolute
<1>2. \A r : IsGenerator(r)' = IsGenerator(r)
  BY DEF IsGenerator
<1> QED BY <1>1, <1>2 DEF IsReady

LEMMA SoundsInit == Init => SoundInv
<1> SUFFICES ASSUME Init PROVE SoundInv
  OBVIOUS
<1>1. past = << >> /\ phase = "idle"
  BY DEF Init
<1> QED BY <1>1 DEF SoundInv, Loaded

LEMMA SoundsBegin ==
    ASSUME LoadInv, NEW path, Begin(path)
    PROVE  SoundInv'
<1>1. regions' = << >> /\ preloadedData' = NoData
  BY DEF Begin, Clear
<1>2. Len(regions') = 0
  BY <1>1
<1>3. CASE phase' = "reading"
  BY <1>1, <1>2, <1>3 DEF SoundInv, Loaded, NoData
<1>4. CASE Returns(FALSE)
  BY <1>4, ReturnAppends DEF SoundInv
<1> QED BY <1>3, <1>4 DEF Begin

\* Steps that make no region.
LEMMA SoundsRead ==
    ASSUME SoundInv, phase \in {"reading", "parsing"}, phase' \in {"reading", "parsing"},
           UNCHANGED <<regions, preloadedData>>
    PROVE  SoundInv'
  BY DEF SoundInv, Loaded, NoData

LEMMA SoundBuilt ==
    ASSUME LoadInv, SourceInv, SoundInv, BuildRegion
    PROVE  SoundInv'
<1>1. /\ phase = "parsing" /\ phase' = phase /\ UNCHANGED preloadedData /\ Building
      /\ position <= Len(aggregatedContent)
  BY DEF BuildRegion, ParsesHeader, LoadInv
<1>2. PICK S : regions \in Seq(S)
  BY <1>1 DEF Building
<1>3. position \in 1 .. Len(aggregatedContent)
  <2>1. PICK N \in Nat : N = Len(aggregatedContent)
    BY DEF SourceInv, AreTokens
  <2> QED BY <1>1, <2>1 DEF SourceInv
<1>4. AreOpcodes(Inherited \o Members(position))
  <2>1. AreOpcodes(opcodes.global) /\ AreOpcodes(opcodes.master) /\ AreOpcodes(opcodes.group)
    BY DEF SourceInv, Kinds
  <2>2. AreOpcodes(Members(position))
    BY <1>3, MembersAreOpcodes DEF SourceInv
  <2> QED BY <2>1, <2>2, TokensJoin DEF Inherited
<1>5. PICK all : all = Inherited \o Members(position)
  OBVIOUS
<1>6. PICK r : /\ r = With(Collected(all).region, "id", Len(regions) + 1)
               /\ regions' = Append(regions, r)
  BY <1>5 DEF BuildRegion
<1>7. IsSound(r)
  <2>1. IsSound(Collected(all).region)
    BY <1>4, <1>5, CollectedIsSound
  <2>2. /\ SoundMembers \subseteq DOMAIN r
        /\ \A m \in SoundMembers : r[m] = Collected(all).region[m]
    BY <1>6, <2>1 DEF With, IsSound, SoundMembers
  <2> QED BY <2>1, <2>2 DEF IsSound, SoundMembers
<1>8. regions \in Seq(S \cup {r}) /\ r \in S \cup {r}
  BY <1>2
<1>9. /\ Len(regions') = Len(regions) + 1 /\ Len(regions) \in Nat
      /\ \A i \in 1 .. Len(regions) : regions'[i] = regions[i]
      /\ regions'[Len(regions) + 1] = r
  BY <1>6, <1>8, AppendProperties
<1>10. \A i \in 1 .. Len(regions') : IsSound(regions'[i])
  <2>1. \A i \in 1 .. Len(regions) : IsSound(regions[i])
    BY <1>1 DEF SoundInv
  <2> QED BY <1>7, <1>9, <2>1
<1> QED BY <1>1, <1>10 DEF SoundInv, Loaded, NoData

LEMMA SoundsParsed ==
    ASSUME LoadInv, SoundInv, EndOfParse
    PROVE  SoundInv'
<1>1. phase = "parsing" /\ UNCHANGED <<regions, preloadedData, disk, rootDirectory>>
  BY DEF EndOfParse, parser, instrument, environment
<1>2. CASE Returns(FALSE)
  BY <1>2, ReturnAppends DEF SoundInv
<1>3. CASE phase' = "registering" /\ currentRegion' = 1
  <2>1. DOMAIN preloadedData = {} /\ \A i \in 1 .. Len(regions) : IsSound(regions[i])
    BY <1>1 DEF SoundInv, NoData
  <2>2. HeadsFit'
    BY <1>1, <2>1 DEF HeadsFit
  <2>3. \A i \in 1 .. Len(regions) : ~ i < 1
    OBVIOUS
  <2> QED BY <1>1, <1>3, <2>1, <2>2, <2>3 DEF SoundInv, Loaded
<1> QED BY <1>2, <1>3 DEF EndOfParse

\* The numbers of the regions while they are registered.
LEMMA RegionNumbers ==
    ASSUME LoadInv, phase = "registering"
    PROVE  \E N, c, l : /\ N = Len(regions) /\ c = currentRegion /\ l = lastRegion
                        /\ N \in Nat /\ l \in 0 .. N /\ c \in 1 .. l + 1
                        /\ \E S : regions \in Seq(S)
<1>1. PICK N, c, l : N = Len(regions) /\ c = currentRegion /\ l = lastRegion
  OBVIOUS
<1>2. AllOnce(N) /\ RegisteringAt(N, c, l)
  BY <1>1 DEF LoadInv, Registering
<1> QED BY <1>1, <1>2 DEF AllOnce, RegisteringAt

LEMMA SoundRegistered ==
    ASSUME LoadInv, SourceInv, SoundInv, RegisterRegion
    PROVE  SoundInv'
<1>1. /\ phase = "registering" /\ phase' = phase /\ UNCHANGED <<disk, rootDirectory>>
      /\ currentRegion <= lastRegion /\ currentRegion' = currentRegion + 1
  BY DEF RegisterRegion, Registers, environment, parser
<1>2. PICK N, c, l, S : /\ N = Len(regions) /\ c = currentRegion /\ l = lastRegion
                        /\ N \in Nat /\ l \in 0 .. N /\ c \in 1 .. l + 1
                        /\ regions \in Seq(S)
  BY <1>1, RegionNumbers
<1>3. c \in 1 .. N /\ c \in Nat
  <2>1. c <= l
    BY <1>1, <1>2
  <2> QED BY <1>2, <2>1
<1>4. PICK r : r = regions[c] /\ r = Current /\ IsSound(r)
  <2>1. ~ c < c
    BY <1>3
  <2> QED BY <1>1, <1>2, <1>3, <2>1 DEF SoundInv, Current
<1>5. PICK informed \in WithSample(r), points \in ByVelocity(r.velocityPoints) :
          /\ regions' = [regions EXCEPT ![currentRegion] =
                With([informed EXCEPT
                          !.velocityPoints = WithEndpoints(points, informed.ampVeltrack)],
                     "state", Registered(informed, ParsedState(informed), cc, defaultSwitch))]
          /\ preloadedData' = IF IsGenerator(informed) \/ informed.sample \in DOMAIN preloadedData
                              THEN preloadedData
                              ELSE With(preloadedData, informed.sample, informed.preloadedData)
  BY <1>4 DEF RegisterRegion
<1>6. PICK new :
          /\ new = With([informed EXCEPT
                             !.velocityPoints = WithEndpoints(points, informed.ampVeltrack)],
                        "state", Registered(informed, ParsedState(informed), cc, defaultSwitch))
          /\ regions' = [regions EXCEPT ![c] = new]
  BY <1>2, <1>5
<1>7. disk \in Disks /\ HeadsFit
  BY <1>1 DEF SourceInv, SoundInv
<1>8. IsReady(new)
  BY <1>4, <1>5, <1>6, <1>7, RegisteredIsReady
<1>9. HeadsFit'
  <2>1. CASE preloadedData' = preloadedData
    BY <1>1, <1>7, <2>1 DEF HeadsFit, Resolved, Under, Absolute
  <2>2. CASE /\ ~ IsGenerator(informed)
             /\ preloadedData' = With(preloadedData, informed.sample, informed.preloadedData)
    <3>1. \A name \in DOMAIN preloadedData' :
               /\ preloadedData'[name] \in Nat
               /\ LET path == Resolved(Under(rootDirectory, name[2])) IN
                  path \in DOMAIN disk.samples => preloadedData'[name] <= disk.samples[path].frames
      BY <1>4, <1>7, <2>2, HeadsStillFit
    <3> QED BY <1>1, <3>1 DEF HeadsFit, Resolved, Under, Absolute
  <2> QED BY <1>5, <2>1, <2>2
<1>10. /\ Len(regions') = N
       /\ \A i \in 1 .. N : regions'[i] = IF i = c THEN new ELSE regions[i]
  BY <1>2, <1>3, <1>6, OneReplaced
<1>11. \A i \in 1 .. N : IF i < c + 1 THEN IsReady(regions'[i]) ELSE IsSound(regions'[i])
  <2>1. \A i \in 1 .. N : IF i < c THEN IsReady(regions[i]) ELSE IsSound(regions[i])
    BY <1>1, <1>2 DEF SoundInv
  <2>2. \A i \in 1 .. N : i < c + 1 <=> i < c \/ i = c
    BY <1>3
  <2> QED BY <1>8, <1>10, <2>1, <2>2
<1>12. \A x : IsReady(x)' <=> IsReady(x)
  BY <1>1, ReadyStays
<1> QED BY <1>1, <1>2, <1>9, <1>10, <1>11, <1>12 DEF SoundInv, Loaded

LEMMA SoundRemoved ==
    ASSUME LoadInv, SoundInv, RemoveRegion
    PROVE  SoundInv'
<1>1. /\ phase = "registering" /\ phase' = phase
      /\ UNCHANGED <<disk, rootDirectory, currentRegion, preloadedData>>
      /\ currentRegion <= lastRegion
      /\ regions' = [regions EXCEPT ![currentRegion] = regions[lastRegion],
                                    ![lastRegion] = Current]
  BY DEF RemoveRegion, Registers, environment, parser
<1>2. PICK N, c, l, S : /\ N = Len(regions) /\ c = currentRegion /\ l = lastRegion
                        /\ N \in Nat /\ l \in 0 .. N /\ c \in 1 .. l + 1
                        /\ regions \in Seq(S)
  BY <1>1, RegionNumbers
<1>3. c \in 1 .. N /\ l \in 1 .. N /\ c <= l
  <2>1. c <= l
    BY <1>1, <1>2
  <2> QED BY <1>2, <2>1
<1>4. /\ Len(regions') = N
      /\ \A i \in 1 .. N : regions'[i] = IF i = l THEN regions[c]
                                         ELSE IF i = c THEN regions[l] ELSE regions[i]
  <2>1. PICK one : one = [regions EXCEPT ![c] = regions[l]]
    OBVIOUS
  <2>2. /\ one \in Seq(S \cup {regions[l]}) /\ Len(one) = N
        /\ \A i \in 1 .. N : one[i] = IF i = c THEN regions[l] ELSE regions[i]
    BY <1>2, <1>3, <2>1, OneReplaced
  <2>3. regions' = [one EXCEPT ![l] = regions[c]]
    BY <1>1, <1>2, <2>1 DEF Current
  <2>4. /\ Len(regions') = N
        /\ \A i \in 1 .. N : regions'[i] = IF i = l THEN regions[c] ELSE one[i]
    BY <1>3, <2>2, <2>3, OneReplaced
  <2> QED BY <2>2, <2>4
<1>5. \A i \in 1 .. N : IF i < c THEN IsReady(regions'[i]) ELSE IsSound(regions'[i])
  <2>1. \A i \in 1 .. N : IF i < c THEN IsReady(regions[i]) ELSE IsSound(regions[i])
    BY <1>1, <1>2 DEF SoundInv
  <2>2. ~ c < c /\ ~ l < c
    BY <1>2, <1>3
  <2>3. IsSound(regions[c]) /\ IsSound(regions[l])
    BY <1>3, <2>1, <2>2
  <2>4. \A i \in 1 .. N : i < c => i # c /\ i # l
    BY <1>3
  <2> QED BY <1>4, <2>1, <2>3, <2>4
<1>6. \A x : IsReady(x)' <=> IsReady(x)
  BY <1>1, ReadyStays
<1>7. HeadsFit'
  BY <1>1 DEF SoundInv, HeadsFit, Resolved, Under, Absolute
<1> QED BY <1>1, <1>2, <1>4, <1>5, <1>6, <1>7 DEF SoundInv, Loaded

LEMMA SoundsLoaded ==
    ASSUME LoadInv, SoundInv, EndOfLoad
    PROVE  SoundInv'
<1>1. /\ phase = "registering" /\ UNCHANGED <<disk, rootDirectory>>
      /\ currentRegion > lastRegion
      /\ regions' = SubSeq(regions, 1, lastRegion) /\ Returns(TRUE)
  BY DEF EndOfLoad, environment, parser
<1>2. phase' = "idle"
  BY <1>1, ReturnAppends
<1>3. PICK N, c, l, S : /\ N = Len(regions) /\ c = currentRegion /\ l = lastRegion
                        /\ N \in Nat /\ l \in 0 .. N /\ c \in 1 .. l + 1
                        /\ regions \in Seq(S)
  BY <1>1, RegionNumbers
<1>4. c > l
  BY <1>1, <1>3
<1>5. \A i \in 1 .. l : i \in 1 .. N /\ i < c
  BY <1>3, <1>4
<1>6. Len(regions') = l /\ \A i \in 1 .. l : regions'[i] = regions[i]
  BY <1>1, <1>3
<1>7. \A i \in 1 .. l : IsReady(regions[i])
  BY <1>1, <1>3, <1>5 DEF SoundInv
<1>8. \A x : IsReady(x)' <=> IsReady(x)
  BY <1>1, ReadyStays
<1> QED BY <1>2, <1>6, <1>7, <1>8 DEF SoundInv

LEMMA SoundsStay ==
    ASSUME SoundInv, UNCHANGED vars
    PROVE  SoundInv'
<1>1. UNCHANGED <<disk, rootDirectory, phase, regions, preloadedData, currentRegion, past>>
  BY DEF vars, environment, parser, instrument, registration, history
<1>2. \A x : IsReady(x)' <=> IsReady(x)
  BY <1>1, ReadyStays
<1>3. HeadsFit => HeadsFit'
  BY <1>1 DEF HeadsFit, Resolved, Under, Absolute
<1> QED BY <1>1, <1>2, <1>3 DEF SoundInv, Loaded, NoData

LEMMA SoundsKeep == LoadInv /\ SourceInv /\ SoundInv /\ [Next]_vars => SoundInv'
<1> SUFFICES ASSUME LoadInv, SourceInv, SoundInv, [Next]_vars PROVE SoundInv'
  OBVIOUS
<1>1. ASSUME NEW path \in HostFiles, Begin(path)
      PROVE  SoundInv'
  BY <1>1, SoundsBegin
<1>2. CASE Include \/ Define \/ ReadTokens
  <2>1. phase = "reading" /\ phase' = "reading" /\ UNCHANGED <<regions, preloadedData>>
    BY <1>2 DEF Include, Define, ReadTokens, ReadsLine, instrument
  <2> QED BY <2>1, SoundsRead
<1>3. CASE EndOfFile
  <2>1. phase = "reading" /\ phase' = "reading" /\ UNCHANGED <<regions, preloadedData>>
    BY <1>3 DEF EndOfFile, instrument
  <2> QED BY <2>1, SoundsRead
<1>4. CASE EndOfText
  <2>1. phase = "reading" /\ phase' = "parsing" /\ UNCHANGED <<regions, preloadedData>>
    BY <1>4 DEF EndOfText, instrument
  <2> QED BY <2>1, SoundsRead
<1>5. CASE ParseInherited \/ ParseControl \/ ParseOther
  <2>1. phase = "parsing" /\ phase' = "parsing" /\ UNCHANGED <<regions, preloadedData>>
    BY <1>5 DEF ParseInherited, ParseControl, ParseOther, ParsesHeader
  <2> QED BY <2>1, SoundsRead
<1> QED BY <1>1, <1>2, <1>3, <1>4, <1>5, SoundBuilt, SoundsParsed, SoundRegistered,
           SoundRemoved, SoundsLoaded, SoundsStay DEF Next, Step

\* What is parsed are sounds, which are ready once they are registered, and the pool holds
\* no head that is longer than its sample.
THEOREM SoundInvariant == Spec => []SoundInv
  BY SoundsInit, SoundsKeep, LoadInvariant, SourceInvariant, PTL DEF Spec

\* What a voice relies on in a region that Synth::loadSfzFile has registered: it ends within
\* its sample, its head covers its offsets, also if the pool has a shorter one, its loop is
\* within that of the file, and its velocity curve covers all velocities.
THEOREM SoundsAreReadyHolds == Spec => []SoundsAreReady
<1>1. LoadInv /\ SoundInv => SoundsAreReady
  <2> SUFFICES ASSUME LoadInv, SoundInv, Loaded, NEW i \in DOMAIN regions
               PROVE  IsReady(regions[i])
    BY DEF SoundsAreReady
  <2>1. DOMAIN regions = 1 .. Len(regions)
    BY DEF LoadInv, Complete
  <2> QED BY <2>1 DEF SoundInv
<1> QED BY <1>1, LoadInvariant, SoundInvariant, PTL

-----------------------------------------------------------------------------
(* What opcodes say of a region.                                             *)

Ranges == {"loopRange", "keyRange", "velocityRange", "channelRange", "bendRange",
           "keyswitchRange", "aftertouchRange", "bpmRange", "randRange",
           "crossfadeKeyInRange", "crossfadeKeyOutRange", "crossfadeVelInRange",
           "crossfadeVelOutRange"}

\* The members that are not switches.
Said == DOMAIN NewRegion \ DOMAIN SwitchDefaults

\* The settings about one member are of kinds that go together.
Suits(s) ==
    /\ s.kind \in {"start", "end", "key"} <=> s.member \in Ranges
    /\ s.kind \in {"startOfCC", "endOfCC"} <=> s.member \in CCMembers
    /\ s.kind = "point" <=> s.member = "velocityPoints"
    /\ s.member = "pitchKeycenter" => s.kind = "value"
    /\ s.kind \in {"start", "end", "key", "startOfCC", "endOfCC"} => s.lo \in Int /\ s.hi \in Int
    /\ s.kind \in {"text", "choice", "switch", "value", "start", "end", "key", "startOfCC",
                   "endOfCC", "pair", "point"}
    /\ s.member \notin DOMAIN SwitchDefaults

LEMMA SettingsSuit == \A name \in DOMAIN Settings : Suits(Settings[name])
<1>1. \A f, g : (\A x \in DOMAIN f : Suits(f[x])) /\ (\A x \in DOMAIN g : Suits(g[x]))
                    => \A x \in DOMAIN Joined(f, g) : Suits(Joined(f, g)[x])
  BY DEF Joined
<1>2. \A name \in DOMAIN SoundSource : Suits(SoundSource[name])
  BY LargestAssumption
     DEF SoundSource, Suits, Value, Start, End, Choice, Setting, Ranges, CCMembers, SwitchDefaults
<1>3. \A name \in DOMAIN Conditions : Suits(Conditions[name])
  BY SMTT(60) DEF Conditions, Suits, Value, Start, End, StartOfCC, EndOfCC, Choice, Switch,
         Setting, Ranges, CCMembers, SwitchDefaults, RandOne
<1>4. \A name \in DOMAIN Amplifier : Suits(Amplifier[name])
  BY DEF Amplifier, Suits, Value, Start, End, Pair, StartOfCC, EndOfCC, Choice, Setting,
         Ranges, CCMembers, SwitchDefaults, RandOne
<1>5. \A name \in DOMAIN Pitch : Suits(Pitch[name])
  BY DEF Pitch, Suits, Value, Setting, Ranges, CCMembers, SwitchDefaults
<1>6. \A name \in DOMAIN EnvelopeTimes : Suits(EnvelopeTimes[name])
  BY DEF EnvelopeTimes, Suits, Value, Pair, Setting, Ranges, CCMembers, SwitchDefaults
<1> QED BY <1>1, <1>2, <1>3, <1>4, <1>5, <1>6 DEF Settings

\* The opcode key has a setting of its own.
LEMMA KeyIsKey ==
    /\ "key" \in DOMAIN Settings
    /\ Settings["key"] = [kind |-> "key", member |-> "keyRange", lo |-> 0, hi |-> 127]
    /\ \A name \in DOMAIN Settings : Settings[name].kind = "key" => name = "key"
<1>1. \A m : \A f, g : m \in DOMAIN f => m \in DOMAIN Joined(f, g) /\ Joined(f, g)[m] = f[m]
  BY DEF Joined
<1>2. \A m : \A f, g : m \notin DOMAIN f /\ m \in DOMAIN g
                           => m \in DOMAIN Joined(f, g) /\ Joined(f, g)[m] = g[m]
  BY DEF Joined
<1>3. "key" \notin DOMAIN SoundSource
  BY DEF SoundSource
<1>4. /\ "key" \in DOMAIN Conditions
      /\ Conditions["key"] = [kind |-> "key", member |-> "keyRange", lo |-> 0, hi |-> 127]
  BY DEF Conditions
<1> DEFINE Only(f) == \A name \in DOMAIN f : f[name].kind = "key" => name = "key"
<1>5. Only(SoundSource)
  BY DEF SoundSource, Value, Start, End, Choice, Setting
<1>6. Only(Conditions)
  BY DEF Conditions, Value, Start, End, StartOfCC, EndOfCC, Choice, Switch, Setting
<1>7. Only(Amplifier)
  BY DEF Amplifier, Value, Start, End, Pair, StartOfCC, EndOfCC, Choice, Setting
<1>8. Only(Pitch)
  BY DEF Pitch, Value, Setting
<1>9. Only(EnvelopeTimes)
  BY DEF EnvelopeTimes, Value, Pair, Setting
<1>10. \A f, g : Only(f) /\ Only(g) => Only(Joined(f, g))
  BY DEF Joined
<1> HIDE DEF Only
<1>11. Only(Settings)
  BY <1>5, <1>6, <1>7, <1>8, <1>9, <1>10 DEF Settings
<1> QED BY <1>1, <1>2, <1>3, <1>4, <1>11 DEF Settings, Only

IsRange(range) == range[1] \in Int /\ range[2] \in Int

\* A region that opcodes have been given to.
IsParsed(r) ==
    /\ DOMAIN NewRegion \subseteq DOMAIN r
    /\ \A m \in Ranges : IsRange(r[m])
    /\ \A m \in CCMembers : \A c \in DOMAIN r[m] : IsRange(r[m][c])
    /\ ArePoints(r.velocityPoints)

LEMMA NewRegionIsParsed ==
    /\ IsParsed(NewRegion)
    /\ Ranges \cup CCMembers \cup {"velocityPoints", "pitchKeycenter", "keySwitched",
           "previousKeySwitched", "sequenceSwitched"} \subseteq DOMAIN NewRegion
    /\ "id" \notin DOMAIN NewRegion
<1>1. \A m : \A f, g : m \in DOMAIN f => m \in DOMAIN Joined(f, g) /\ Joined(f, g)[m] = f[m]
  BY DEF Joined
<1>2. \A m : \A f, g : m \notin DOMAIN f /\ m \in DOMAIN g
                           => m \in DOMAIN Joined(f, g) /\ Joined(f, g)[m] = g[m]
  BY DEF Joined
<1>3. "loopRange" \in DOMAIN NewRegion /\ NewRegion.loopRange = <<0, Largest>>
  BY <1>1 DEF NewRegion, SoundDefaults
<1> DEFINE Those == {"keyRange", "velocityRange", "channelRange", "bendRange", "ccConditions",
                     "keyswitchRange", "aftertouchRange", "bpmRange", "randRange", "ccTriggers"}
           These == {"crossfadeKeyInRange", "crossfadeKeyOutRange", "crossfadeVelInRange",
                     "crossfadeVelOutRange", "crossfadeCCInRange", "crossfadeCCOutRange",
                     "velocityPoints", "pitchKeycenter"}
<1>4. \A m \in Those : m \in DOMAIN NewRegion /\ NewRegion[m] = ConditionDefaults[m]
  <2>1. \A m \in Those : m \notin DOMAIN SoundDefaults
    BY DEF SoundDefaults
  <2>2. \A m \in Those : m \in DOMAIN ConditionDefaults
    BY DEF ConditionDefaults
  <2> QED BY <1>1, <1>2, <2>1, <2>2 DEF NewRegion
<1>5. \A m \in These : m \in DOMAIN NewRegion /\ NewRegion[m] = AmplifierDefaults[m]
  <2>1. \A m \in These : m \notin DOMAIN SoundDefaults
    BY DEF SoundDefaults
  <2>2. \A m \in These : m \notin DOMAIN ConditionDefaults
    BY DEF ConditionDefaults
  <2>3. \A m \in These : m \notin DOMAIN SwitchDefaults
    BY DEF SwitchDefaults
  <2>4. \A m \in These : m \in DOMAIN AmplifierDefaults
    BY DEF AmplifierDefaults
  <2> HIDE DEF These
  <2> QED BY <1>1, <1>2, <2>1, <2>2, <2>3, <2>4 DEF NewRegion
<1>6. \A m \in DOMAIN SwitchDefaults : m \in DOMAIN NewRegion
  <2>1. \A m : \A f, g : m \in DOMAIN g => m \in DOMAIN Joined(f, g)
    BY DEF Joined
  <2> QED BY <1>1, <2>1 DEF NewRegion
<1>7. "id" \notin DOMAIN NewRegion
  <2>1. \A m : \A f, g : m \notin DOMAIN f /\ m \notin DOMAIN g => m \notin DOMAIN Joined(f, g)
    BY DEF Joined
  <2>2. "id" \notin DOMAIN SoundDefaults
    BY DEF SoundDefaults
  <2>3. "id" \notin DOMAIN ConditionDefaults
    BY DEF ConditionDefaults
  <2>4. "id" \notin DOMAIN AmplifierDefaults
    BY DEF AmplifierDefaults
  <2>5. "id" \notin DOMAIN SwitchDefaults /\ "id" \notin DOMAIN EnvelopeDefaults
    BY DEF SwitchDefaults, EnvelopeDefaults
  <2> QED BY <2>1, <2>2, <2>3, <2>4, <2>5 DEF NewRegion
<1>8. \A m \in Ranges \ {"loopRange"} : IsRange(NewRegion[m])
  <2>1. \A m \in Those \ CCMembers : IsRange(ConditionDefaults[m])
    BY DEF ConditionDefaults, IsRange, RandOne, CCMembers
  <2>2. \A m \in These \cap Ranges : IsRange(AmplifierDefaults[m])
    BY DEF AmplifierDefaults, IsRange, Ranges
  <2>3. \A m \in Ranges \ {"loopRange"} : m \in Those \ CCMembers \/ m \in These \cap Ranges
    BY DEF Ranges, CCMembers
  <2> HIDE DEF Those, These
  <2> QED BY <1>4, <1>5, <2>1, <2>2, <2>3
<1>9. \A m \in CCMembers : DOMAIN NewRegion[m] = {}
  <2>1. DOMAIN NoCC = {}
    BY DEF NoCC
  <2>2. ConditionDefaults.ccConditions = NoCC /\ ConditionDefaults.ccTriggers = NoCC
    BY DEF ConditionDefaults
  <2>3. /\ AmplifierDefaults.crossfadeCCInRange = NoCC
        /\ AmplifierDefaults.crossfadeCCOutRange = NoCC
    BY DEF AmplifierDefaults
  <2> QED BY <1>4, <1>5, <2>1, <2>2, <2>3 DEF CCMembers
<1>10. ArePoints(NewRegion.velocityPoints)
  BY NewRegionIsSound DEF IsSound
<1>11. Ranges \cup CCMembers \cup {"velocityPoints", "pitchKeycenter", "keySwitched",
           "previousKeySwitched", "sequenceSwitched"}
           \subseteq Those \cup These \cup DOMAIN SwitchDefaults \cup {"loopRange"}
  BY DEF Ranges, CCMembers, SwitchDefaults
<1> HIDE DEF Those, These
<1>12. Ranges \cup CCMembers \cup {"velocityPoints", "pitchKeycenter", "keySwitched",
           "previousKeySwitched", "sequenceSwitched"} \subseteq DOMAIN NewRegion
  BY <1>3, <1>4, <1>5, <1>6, <1>11
<1>13. IsRange(NewRegion.loopRange)
  BY <1>3, LargestAssumption DEF IsRange
<1> QED BY <1>7, <1>8, <1>9, <1>10, <1>12, <1>13 DEF IsParsed

\* A value that is of use is a whole number.
LEMMA ReadIsWhole ==
    ASSUME NEW value, IsValue(value), NEW lo \in Int, NEW hi \in Int, Read(value, lo, hi) # Null
    PROVE  Read(value, lo, hi) \in Int
<1>1. CASE value[1] = "number"
  BY <1>1 DEF Read, IsValue, Clamp, Least, Greatest
<1>2. CASE value[1] = "note"
  BY <1>2 DEF Read, IsValue
<1> QED BY <1>1, <1>2 DEF Read

\* What parseOpcode leaves in each member that is not a switch.
LEMMA ParsedMember ==
    ASSUME NEW r, IsParsed(r), NEW o, Recognised(o), o.name \notin Ignored, NEW m \in Said
    PROVE  LET s == Settings[o.name] IN
           /\ m \in DOMAIN ParseOpcode(r, o)
           /\ ParseOpcode(r, o)[m] =
                 IF m = "pitchKeycenter" /\ o.name = "key"
                 THEN IF Read(o.value, 0, 127) # Null THEN Read(o.value, 0, 127) ELSE r[m]
                 ELSE IF m = s.member THEN NewValue(s, o, r[m]) ELSE r[m]
<1>1. o.name \in DOMAIN Settings
  BY DEF Recognised
<1>2. PICK s : s = Settings[o.name] /\ Suits(s)
  BY <1>1, SettingsSuit
<1> DEFINE set == [r EXCEPT ![s.member] = NewValue(s, o, r[s.member])]
           one == Switched(set, o)
<1>3. ParseOpcode(r, o) = KeyCentred(one, o)
  BY <1>2 DEF ParseOpcode
<1>4. m \in DOMAIN r /\ m \notin {"keySwitched", "previousKeySwitched", "sequenceSwitched"}
  BY DEF Said, SwitchDefaults, IsParsed
<1>5. m \in DOMAIN set /\ set[m] = IF m = s.member THEN NewValue(s, o, r[m]) ELSE r[m]
  BY <1>4
<1> HIDE DEF set
<1>6. m \in DOMAIN one /\ one[m] = set[m]
  BY <1>4, <1>5 DEF Switched
<1> HIDE DEF one
<1>7. /\ m \in DOMAIN KeyCentred(one, o)
      /\ KeyCentred(one, o)[m] =
            IF m = "pitchKeycenter" /\ o.name = "key" /\ Read(o.value, 0, 127) # Null
            THEN Read(o.value, 0, 127) ELSE one[m]
  BY <1>6 DEF KeyCentred
<1>8. o.name = "key" /\ m = "pitchKeycenter" => m # s.member
  BY <1>2, KeyIsKey
<1> QED BY <1>2, <1>3, <1>5, <1>6, <1>7, <1>8

\* The opcode says something of the member m.
IsUseful(opcode, m) == m \in About(opcode) /\ IsReadable(opcode)

\* The member has the value that the opcode says.
Says(opcode, m, value) ==
    /\ SaidBy(opcode, m, value)
    /\ m \in CCMembers => Parameter(opcode) \in DOMAIN value

LEMMA MembersApart ==
    ASSUME NEW m \in Ranges \cup CCMembers \cup {"velocityPoints"}
    PROVE  /\ m \in Said /\ m # "pitchKeycenter"
           /\ m \in Ranges => m \notin CCMembers /\ m # "velocityPoints"
           /\ m \in CCMembers => m # "velocityPoints"
  BY NewRegionIsParsed DEF Said, Ranges, CCMembers, SwitchDefaults

\* An opcode that is of use to a member gives it its value.
LEMMA UsefulIsSaid ==
    ASSUME NEW r, IsParsed(r), NEW o, IsOpcode(o), NEW m \in Said, IsUseful(o, m)
    PROVE  Says(o, m, ParseOpcode(r, o)[m])
<1>1. Recognised(o) /\ o.name \notin Ignored /\ o.name \in DOMAIN Settings
  BY DEF IsUseful, About, Recognised
<1>2. PICK s : s = Settings[o.name] /\ Suits(s)
  BY <1>1, SettingsSuit
<1>3. m = s.member \/ (m = "pitchKeycenter" /\ o.name = "key")
  BY <1>1, <1>2 DEF IsUseful, About
<1> DEFINE x == Read(o.value, s.lo, s.hi)
           number == Parameter(o)
           new == ParseOpcode(r, o)[m]
<1>4. s.lo \in Int /\ s.hi \in Int /\ x # Null => x \in Int
  BY ReadIsWhole DEF IsOpcode
<1>5. CASE m = "pitchKeycenter" /\ o.name = "key"
  <2>1. s.kind = "key" /\ s.lo = 0 /\ s.hi = 127 /\ x # Null
    BY <1>2, <1>5, KeyIsKey DEF IsUseful, IsReadable
  <2>2. new = x
    BY <1>1, <1>5, <2>1, ParsedMember
  <2>3. m \notin CCMembers
    BY <1>5 DEF CCMembers
  <2> HIDE DEF x, new
  <2>4. SaidBy(o, m, new)
    BY <1>2, <1>5, <2>1, <2>2 DEF SaidBy, x
  <2> QED BY <2>3, <2>4 DEF Says, new
<1>6. CASE m = s.member /\ ~ (m = "pitchKeycenter" /\ o.name = "key")
  <2>1. new = NewValue(s, o, r[m])
    BY <1>1, <1>2, <1>6, ParsedMember
  <2>2. m \in CCMembers <=> s.kind \in {"startOfCC", "endOfCC"}
    BY <1>2, <1>6 DEF Suits
  <2> HIDE DEF new
  <2> SUFFICES Says(o, m, new)
    BY DEF new
  <2>3. CASE s.kind \in {"start", "end"}
    <3>1. x # Null /\ m \in Ranges /\ s.lo \in Int /\ s.hi \in Int
      BY <1>2, <1>6, <2>3 DEF IsUseful, IsReadable, Suits
    <3>2. new = IF s.kind = "start" THEN SetStart(r[m], x) ELSE SetEnd(r[m], x)
      BY <2>1, <2>3, <3>1 DEF NewValue
    <3>3. IsRange(r[m]) /\ x \in Int
      BY <1>4, <3>1 DEF IsParsed
    <3> HIDE DEF x
    <3>4. /\ s.kind = "start" => new[1] = x /\ new[1] <= new[2]
          /\ s.kind = "end" => new[2] = x /\ new[1] <= new[2]
      BY <2>3, <3>2, <3>3 DEF SetStart, SetEnd, IsRange, Least, Greatest
    <3>5. m # "pitchKeycenter"
      BY <3>1, MembersApart
    <3>6. SaidBy(o, m, new)
      <4>1. CASE s.kind = "start"
        BY <1>2, <3>4, <3>5, <4>1 DEF SaidBy, x
      <4>2. CASE s.kind = "end"
        BY <1>2, <3>4, <3>5, <4>2 DEF SaidBy, x
      <4> QED BY <2>3, <4>1, <4>2
    <3> QED BY <2>2, <2>3, <3>6 DEF Says
  <2>4. CASE s.kind = "key"
    <3>1. x # Null /\ m # "pitchKeycenter" /\ m \in Ranges /\ o.name = "key"
      BY <1>1, <1>2, <1>6, <2>4, KeyIsKey DEF IsUseful, IsReadable, Suits
    <3>2. x \in Int
      BY <1>2, <1>4, <2>4, <3>1 DEF Suits
    <3>3. \A range : NewValue(s, o, range) = <<Least(x, x), x>>
      <4> TAKE range
      <4>1. NewValue(s, o, range) = SetEnd(SetStart(range, x), x)
        BY <2>4, <3>1 DEF NewValue
      <4> HIDE DEF x
      <4> QED BY <4>1 DEF SetStart, SetEnd
    <3>4. new = NewValue(s, o, NewRegion[m])
      BY <2>1, <3>3
    <3>5. SaidBy(o, m, new)
      BY <1>2, <2>4, <3>1, <3>4 DEF SaidBy
    <3> QED BY <2>2, <2>4, <3>5 DEF Says
  <2>5. CASE s.kind \in {"startOfCC", "endOfCC"}
    <3>1. x # Null /\ number # Null /\ m \in CCMembers /\ s.lo \in Int /\ s.hi \in Int
      BY <1>2, <1>6, <2>5 DEF IsUseful, IsReadable, Suits
    <3> DEFINE range == IF number \in DOMAIN r[m] THEN r[m][number] ELSE DefaultOfCC(s.member)
               now == IF s.kind = "startOfCC" THEN SetStart(range, x) ELSE SetEnd(range, x)
    <3>2. new = With(r[m], number, now)
      BY <2>1, <2>5, <3>1 DEF NewValue
    <3>3. IsRange(range)
      BY <3>1 DEF IsParsed, IsRange, DefaultOfCC
    <3>4. x \in Int
      BY <1>4, <3>1
    <3> HIDE DEF range, x
    <3>5. /\ s.kind = "startOfCC" => now[1] = x /\ x <= now[2]
          /\ s.kind = "endOfCC" => now[2] = x /\ x >= now[1]
      BY <2>5, <3>3, <3>4 DEF SetStart, SetEnd, IsRange, Least, Greatest
    <3> HIDE DEF now
    <3>6. number \in DOMAIN new /\ new[number] = now
      BY <3>2 DEF With
    <3>7. m # "pitchKeycenter"
      BY <3>1, MembersApart
    <3>8. SaidBy(o, m, new)
      BY <1>2, <2>5, <3>5, <3>6, <3>7 DEF SaidBy, x
    <3> QED BY <3>6, <3>8 DEF Says
  <2>6. CASE s.kind = "point"
    <3>1. number # Null /\ o.value[1] = "number" /\ m = "velocityPoints"
      BY <1>2, <1>6, <2>6 DEF IsUseful, IsReadable, Suits
    <3>2. new = Append(r[m], <<number, x>>)
      BY <2>1, <2>6, <3>1 DEF NewValue
    <3>3. PICK S : r[m] \in Seq(S)
      BY <3>1 DEF IsParsed, ArePoints
    <3> HIDE DEF x
    <3>4. PICK p : p = <<number, x>>
      OBVIOUS
    <3>5. r[m] \in Seq(S \cup {p})
      BY <3>3
    <3>6. new[Len(new)] = p
      BY <3>2, <3>4, <3>5
    <3>7. SaidBy(o, m, new)
      BY <1>2, <2>6, <3>1, <3>4, <3>6 DEF SaidBy, x
    <3> QED BY <2>2, <2>6, <3>7 DEF Says
  <2>7. CASE s.kind = "value"
    <3>1. x # Null
      BY <1>2, <2>7 DEF IsUseful, IsReadable
    <3>2. \A old : NewValue(s, o, old) = x
      BY <2>7, <3>1 DEF NewValue
    <3>3. SaidBy(o, m, new)
      BY <1>2, <2>1, <2>7, <3>2 DEF SaidBy
    <3> QED BY <2>2, <2>7, <3>3 DEF Says
  <2>8. CASE s.kind \in {"text", "choice", "switch", "pair"}
    <3>1. s.kind = "choice" => o.value[1] = "word" /\ o.value[2] \in s.words
      BY <1>2 DEF IsUseful, IsReadable
    <3>2. \A old, other : NewValue(s, o, old) = NewValue(s, o, other)
      BY <2>8, <3>1 DEF NewValue
    <3>3. m # "pitchKeycenter"
      BY <1>2, <1>6, <2>8 DEF Suits
    <3>4. new = NewValue(s, o, NewRegion[m])
      BY <2>1, <3>2
    <3>5. SaidBy(o, m, new)
      BY <1>2, <2>8, <3>3, <3>4 DEF SaidBy
    <3> QED BY <2>2, <2>8, <3>5 DEF Says
  <2> QED BY <1>2, <2>3, <2>4, <2>5, <2>6, <2>7, <2>8 DEF Suits
<1> QED BY <1>3, <1>5, <1>6

\* A map from controllers gets the range of one that it has, or a new one.
Completed(old, new) ==
    \/ new = old
    \/ \E c, range : /\ c \in DOMAIN old => range = old[c]
                     /\ IsRange(range) /\ new = With(old, c, range)

\* An opcode that is of no use to a member leaves it, but for controllers that get a range.
LEMMA UselessIsPassed ==
    ASSUME NEW r, IsParsed(r), NEW o, IsOpcode(o), NEW m \in Said, ~ IsUseful(o, m)
    PROVE  \/ ParseOpcode(r, o)[m] = r[m]
           \/ m \in CCMembers /\ Completed(r[m], ParseOpcode(r, o)[m])
<1>1. CASE ~ Recognised(o) \/ o.name \in Ignored
  BY <1>1 DEF ParseOpcode
<1>2. CASE Recognised(o) /\ o.name \notin Ignored
  <2>1. o.name \in DOMAIN Settings
    BY <1>2 DEF Recognised
  <2>2. PICK s : s = Settings[o.name] /\ Suits(s)
    BY <2>1, SettingsSuit
  <2> DEFINE x == Read(o.value, s.lo, s.hi)
             number == Parameter(o)
             new == ParseOpcode(r, o)[m]
  <2>3. CASE m = "pitchKeycenter" /\ o.name = "key"
    <3>1. s.kind = "key" /\ s.lo = 0 /\ s.hi = 127 /\ s.member = "keyRange"
      BY <2>2, <2>3, KeyIsKey
    <3>2. m \in About(o)
      BY <1>2, <2>3 DEF About
    <3>3. x = Null
      BY <2>2, <3>1, <3>2 DEF IsUseful, IsReadable
    <3> QED BY <1>2, <2>2, <2>3, <3>1, <3>3, ParsedMember
  <2>4. CASE m # s.member /\ ~ (m = "pitchKeycenter" /\ o.name = "key")
    BY <1>2, <2>2, <2>4, ParsedMember
  <2>5. CASE m = s.member /\ ~ (m = "pitchKeycenter" /\ o.name = "key")
    <3>1. new = NewValue(s, o, r[m])
      BY <1>2, <2>2, <2>5, ParsedMember
    <3>2. ~ IsReadable(o)
      BY <1>2, <2>2, <2>5 DEF IsUseful, About
    <3> HIDE DEF new
    <3>3. CASE s.kind = "choice"
      BY <2>2, <3>1, <3>2, <3>3 DEF IsReadable, NewValue, new
    <3>4. CASE s.kind \in {"value", "start", "end", "key"}
      <4>1. x = Null
        BY <2>2, <3>2, <3>4 DEF IsReadable
      <4> QED BY <3>1, <3>4, <4>1 DEF NewValue, new
    <3>5. CASE s.kind \in {"startOfCC", "endOfCC"}
      <4>1. m \in CCMembers
        BY <2>2, <2>5, <3>5 DEF Suits
      <4>2. CASE number = Null
        BY <3>1, <3>5, <4>2 DEF NewValue, new
      <4>3. CASE number # Null
        <5> DEFINE range == IF number \in DOMAIN r[m] THEN r[m][number]
                            ELSE DefaultOfCC(s.member)
        <5>1. x = Null
          BY <2>2, <3>2, <3>5, <4>3 DEF IsReadable
        <5>2. new = With(r[m], number, range)
          BY <3>1, <3>5, <4>3, <5>1 DEF NewValue
        <5>3. IsRange(range)
          BY <4>1 DEF IsParsed, IsRange, DefaultOfCC
        <5>4. number \in DOMAIN r[m] => range = r[m][number]
          OBVIOUS
        <5> HIDE DEF range
        <5> QED BY <4>1, <5>2, <5>3, <5>4 DEF Completed, new
      <4> QED BY <4>2, <4>3
    <3>6. CASE s.kind = "point"
      BY <2>2, <3>1, <3>2, <3>6 DEF IsReadable, NewValue, new
    <3>7. CASE s.kind \in {"text", "switch", "pair"}
      BY <2>2, <3>2, <3>7 DEF IsReadable
    <3> QED BY <2>2, <3>3, <3>4, <3>5, <3>6, <3>7 DEF Suits
  <2> QED BY <2>3, <2>4, <2>5
<1> QED BY <1>1, <1>2

\* What an earlier opcode says of a member stays.
LEMMA SaidStays ==
    ASSUME NEW q, NEW m \in CCMembers, IsUseful(q, m), NEW old, Says(q, m, old), NEW new,
           Completed(old, new)
    PROVE  Says(q, m, new)
<1>1. q.name \in DOMAIN Settings /\ Recognised(q) /\ q.name \notin Ignored
  BY DEF IsUseful, About, Recognised
<1>2. PICK s : s = Settings[q.name] /\ Suits(s)
  BY <1>1, SettingsSuit
<1>3. m # "pitchKeycenter" /\ m = s.member
  BY <1>1, <1>2, MembersApart DEF IsUseful, About
<1>4. s.kind \in {"startOfCC", "endOfCC"}
  BY <1>2, <1>3 DEF Suits
<1>5. PICK n : n = Parameter(q)
  OBVIOUS
<1>6. n \in DOMAIN old
  BY <1>5 DEF Says
<1>7. n \in DOMAIN new /\ new[n] = old[n]
  BY <1>6 DEF Completed, With
<1>8. SaidBy(q, m, new)
  <2>1. CASE s.kind = "startOfCC"
    BY <1>2, <1>3, <1>5, <1>7, <2>1 DEF Says, SaidBy
  <2>2. CASE s.kind = "endOfCC"
    BY <1>2, <1>3, <1>5, <1>7, <2>2 DEF Says, SaidBy
  <2> QED BY <1>4, <2>1, <2>2
<1> QED BY <1>5, <1>7, <1>8 DEF Says

\* The types of the members stay what they are.
LEMMA ParsedIsParsed ==
    ASSUME NEW r, IsParsed(r), NEW o, IsOpcode(o)
    PROVE  IsParsed(ParseOpcode(r, o))
<1>1. CASE ~ Recognised(o) \/ o.name \in Ignored
  BY <1>1 DEF ParseOpcode
<1>2. CASE Recognised(o) /\ o.name \notin Ignored
  <2>1. o.name \in DOMAIN Settings
    BY <1>2 DEF Recognised
  <2>2. PICK s : s = Settings[o.name] /\ Suits(s)
    BY <2>1, SettingsSuit
  <2> DEFINE x == Read(o.value, s.lo, s.hi)
             number == Parameter(o)
             t == ParseOpcode(r, o)
  <2>3. DOMAIN NewRegion \subseteq DOMAIN t
    BY DEF IsParsed, ParseOpcode, KeyCentred, Switched
  <2>4. \A m \in Ranges \cup CCMembers \cup {"velocityPoints"} :
            t[m] = IF m = s.member THEN NewValue(s, o, r[m]) ELSE r[m]
    <3> TAKE m \in Ranges \cup CCMembers \cup {"velocityPoints"}
    <3>1. m \in Said /\ m # "pitchKeycenter"
      BY MembersApart
    <3> QED BY <1>2, <2>2, <3>1, ParsedMember
  <2> HIDE DEF t
  <2>5. s.lo \in Int /\ s.hi \in Int /\ x # Null => x \in Int
    BY ReadIsWhole DEF IsOpcode
  <2>6. \A m \in Ranges : IsRange(t[m])
    <3> TAKE m \in Ranges
    <3>1. CASE m # s.member
      BY <2>4, <3>1 DEF IsParsed
    <3>2. CASE m = s.member
      <4>1. s.kind \in {"start", "end", "key"} /\ s.lo \in Int /\ s.hi \in Int
        BY <2>2, <3>2 DEF Suits
      <4>2. t[m] = NewValue(s, o, r[m]) /\ IsRange(r[m])
        BY <2>4, <3>2 DEF IsParsed
      <4>3. t[m] = r[m] \/ (x # Null /\ t[m] \in {SetStart(r[m], x), SetEnd(r[m], x),
                                                  SetEnd(SetStart(r[m], x), x)})
        BY <4>1, <4>2 DEF NewValue
      <4> HIDE DEF x
      <4>4. ASSUME x \in Int PROVE /\ IsRange(SetStart(r[m], x)) /\ IsRange(SetEnd(r[m], x))
                                   /\ IsRange(SetEnd(SetStart(r[m], x), x))
        BY <4>2, <4>4 DEF IsRange, SetStart, SetEnd, Least, Greatest
      <4> QED BY <2>5, <4>1, <4>2, <4>3, <4>4
    <3> QED BY <3>1, <3>2
  <2>7. \A m \in CCMembers : \A c \in DOMAIN t[m] : IsRange(t[m][c])
    <3> TAKE m \in CCMembers
    <3>1. CASE m # s.member
      BY <2>4, <3>1 DEF IsParsed
    <3>2. CASE m = s.member
      <4>1. s.kind \in {"startOfCC", "endOfCC"} /\ s.lo \in Int /\ s.hi \in Int
        BY <2>2, <3>2 DEF Suits
      <4>2. t[m] = NewValue(s, o, r[m]) /\ \A c \in DOMAIN r[m] : IsRange(r[m][c])
        BY <2>4, <3>2 DEF IsParsed
      <4> DEFINE range == IF number \in DOMAIN r[m] THEN r[m][number] ELSE DefaultOfCC(s.member)
      <4>3. IsRange(range)
        BY <4>2 DEF IsRange, DefaultOfCC
      <4>4. \/ t[m] = r[m]
            \/ t[m] = With(r[m], number, range)
            \/ x # Null /\ t[m] = With(r[m], number, SetStart(range, x))
            \/ x # Null /\ t[m] = With(r[m], number, SetEnd(range, x))
        BY <4>1, <4>2 DEF NewValue
      <4> HIDE DEF x, range
      <4>5. ASSUME x \in Int PROVE IsRange(SetStart(range, x)) /\ IsRange(SetEnd(range, x))
        BY <4>3, <4>5 DEF IsRange, SetStart, SetEnd, Least, Greatest
      <4>6. \A y : IsRange(y) => \A c \in DOMAIN With(r[m], number, y) :
                                     IsRange(With(r[m], number, y)[c])
        BY <4>2 DEF With
      <4> QED BY <2>5, <4>1, <4>2, <4>3, <4>4, <4>5, <4>6
    <3> QED BY <3>1, <3>2
  <2>8. ArePoints(t.velocityPoints)
    <3>1. CASE s.member # "velocityPoints"
      BY <2>4, <3>1 DEF IsParsed
    <3>2. CASE s.member = "velocityPoints"
      <4>1. s.kind = "point" /\ t.velocityPoints = NewValue(s, o, r.velocityPoints)
        BY <2>2, <2>4, <3>2 DEF Suits
      <4>2. \/ t.velocityPoints = r.velocityPoints
            \/ /\ number # Null
               /\ t.velocityPoints = Append(r.velocityPoints, <<number, x>>)
        BY <4>1 DEF NewValue
      <4>3. number # Null => number \in 0 .. 127
        <5>1. ASSUME NEW n \in Nat PROVE n % 256 \in Nat
          OBVIOUS
        <5> QED BY <1>2, <5>1 DEF Recognised, Parameter, IsOpcode
      <4> QED BY <4>2, <4>3, PointsGrow DEF IsParsed
    <3> QED BY <3>1, <3>2
  <2> QED BY <2>3, <2>6, <2>7, <2>8 DEF IsParsed, t
<1> QED BY <1>1, <1>2

\* Of the first n opcodes, the last one that is of use to a member has been heeded, unless
\* one of them had an unknown name.
Told(n, given, r, unknown) ==
    \A m \in Said :
        \/ \E i \in 1 .. n : IsUseful(given[i], m) /\ given[i].name \in unknown
        \/ /\ \A i \in 1 .. n : ~ IsUseful(given[i], m)
           /\ m \in CCMembers \/ r[m] = NewRegion[m]
        \/ \E i \in 1 .. n : /\ IsUseful(given[i], m) /\ Says(given[i], m, r[m])
                             /\ \A j \in 1 .. n : IsUseful(given[j], m) => j <= i

\* One more opcode is handed to the region.
LEMMA HandedIsTold ==
    ASSUME NEW given, NEW n \in Nat \ {0}, NEW r, NEW unknown, IsParsed(r),
           IsOpcode(given[n]), Told(n - 1, given, r, unknown), given[n].name \notin unknown
    PROVE  Told(n, given, ParseOpcode(r, given[n]), unknown)
<1> SUFFICES ASSUME NEW m \in Said
             PROVE  LET t == ParseOpcode(r, given[n]) IN
                    \/ \E i \in 1 .. n : IsUseful(given[i], m) /\ given[i].name \in unknown
                    \/ /\ \A i \in 1 .. n : ~ IsUseful(given[i], m)
                       /\ m \in CCMembers \/ t[m] = NewRegion[m]
                    \/ \E i \in 1 .. n : /\ IsUseful(given[i], m) /\ Says(given[i], m, t[m])
                                         /\ \A j \in 1 .. n : IsUseful(given[j], m) => j <= i
  BY DEF Told
<1>1. PICK value : value = ParseOpcode(r, given[n])[m]
  OBVIOUS
<1>2. n \in 1 .. n /\ (\A i \in 1 .. n - 1 : i \in 1 .. n) /\ \A i \in 1 .. n : i <= n
  OBVIOUS
<1>3. \A i \in 1 .. n : i = n \/ i \in 1 .. n - 1
  OBVIOUS
<1>4. CASE IsUseful(given[n], m)
  <2>1. Says(given[n], m, value)
    BY <1>1, <1>4, UsefulIsSaid
  <2> QED BY <1>1, <1>2, <1>4, <2>1
<1>5. CASE ~ IsUseful(given[n], m)
  <2>1. value = r[m] \/ (m \in CCMembers /\ Completed(r[m], value))
    BY <1>1, <1>5, UselessIsPassed
  <2>2. CASE \E i \in 1 .. n - 1 : IsUseful(given[i], m) /\ given[i].name \in unknown
    BY <1>2, <2>2
  <2>3. CASE /\ \A i \in 1 .. n - 1 : ~ IsUseful(given[i], m)
             /\ m \in CCMembers \/ r[m] = NewRegion[m]
    BY <1>1, <1>3, <1>5, <2>1, <2>3
  <2>4. CASE \E i \in 1 .. n - 1 :
                 /\ IsUseful(given[i], m) /\ Says(given[i], m, r[m])
                 /\ \A j \in 1 .. n - 1 : IsUseful(given[j], m) => j <= i
    <3>1. PICK i \in 1 .. n - 1 : /\ IsUseful(given[i], m) /\ Says(given[i], m, r[m])
                                  /\ \A j \in 1 .. n - 1 : IsUseful(given[j], m) => j <= i
      BY <2>4
    <3>2. Says(given[i], m, value)
      BY <2>1, <3>1, SaidStays
    <3>3. \A j \in 1 .. n : IsUseful(given[j], m) => j <= i
      BY <1>3, <1>5, <3>1
    <3> QED BY <1>1, <1>2, <3>1, <3>2, <3>3
  <2> QED BY <2>2, <2>3, <2>4 DEF Told
<1> QED BY <1>4, <1>5

\* An opcode that is of no use, or whose name is unknown, changes nothing of that.
LEMMA PassedIsTold ==
    ASSUME NEW given, NEW n \in Nat \ {0}, NEW r, NEW unknown, NEW more, unknown \subseteq more,
           Told(n - 1, given, r, unknown),
           given[n].name \in unknown \/ ~ Recognised(given[n])
    PROVE  Told(n, given, r, more)
<1> SUFFICES ASSUME NEW m \in Said
             PROVE  \/ \E i \in 1 .. n : IsUseful(given[i], m) /\ given[i].name \in more
                    \/ /\ \A i \in 1 .. n : ~ IsUseful(given[i], m)
                       /\ m \in CCMembers \/ r[m] = NewRegion[m]
                    \/ \E i \in 1 .. n : /\ IsUseful(given[i], m) /\ Says(given[i], m, r[m])
                                         /\ \A j \in 1 .. n : IsUseful(given[j], m) => j <= i
  BY DEF Told
<1>1. /\ n \in 1 .. n /\ \A i \in 1 .. n - 1 : i \in 1 .. n
      /\ \A i \in 1 .. n : i = n \/ i \in 1 .. n - 1
  OBVIOUS
<1>2. CASE IsUseful(given[n], m)
  <2>1. given[n].name \in more
    BY <1>2 DEF IsUseful, About
  <2> QED BY <1>1, <1>2, <2>1
<1>3. CASE ~ IsUseful(given[n], m)
  <2>1. CASE \E i \in 1 .. n - 1 : IsUseful(given[i], m) /\ given[i].name \in unknown
    BY <1>1, <2>1
  <2>2. CASE /\ \A i \in 1 .. n - 1 : ~ IsUseful(given[i], m)
             /\ m \in CCMembers \/ r[m] = NewRegion[m]
    BY <1>1, <1>3, <2>2
  <2>3. CASE \E i \in 1 .. n - 1 :
                 /\ IsUseful(given[i], m) /\ Says(given[i], m, r[m])
                 /\ \A j \in 1 .. n - 1 : IsUseful(given[j], m) => j <= i
    <3>1. PICK i \in 1 .. n - 1 : /\ IsUseful(given[i], m) /\ Says(given[i], m, r[m])
                                  /\ \A j \in 1 .. n - 1 : IsUseful(given[j], m) => j <= i
      BY <2>3
    <3>2. \A j \in 1 .. n : IsUseful(given[j], m) => j <= i
      BY <1>1, <1>3, <3>1
    <3> QED BY <1>1, <3>1, <3>2
  <2> QED BY <2>1, <2>2, <2>3 DEF Told
<1> QED BY <1>2, <1>3

LEMMA ToldOfMore ==
    ASSUME NEW n, NEW given, NEW r, NEW unknown, NEW more, unknown \subseteq more,
           Told(n, given, r, unknown)
    PROVE  Told(n, given, r, more)
<1> SUFFICES ASSUME NEW m \in Said
             PROVE  \/ \E i \in 1 .. n : IsUseful(given[i], m) /\ given[i].name \in more
                    \/ /\ \A i \in 1 .. n : ~ IsUseful(given[i], m)
                       /\ m \in CCMembers \/ r[m] = NewRegion[m]
                    \/ \E i \in 1 .. n : /\ IsUseful(given[i], m) /\ Says(given[i], m, r[m])
                                         /\ \A j \in 1 .. n : IsUseful(given[j], m) => j <= i
  BY DEF Told
<1> QED BY DEF Told

\* A region is built of what its opcodes say, and only opcodes that parseOpcode refused add
\* to the unknown names.
LEMMA CollectedIsTold ==
    ASSUME NEW given, AreOpcodes(given)
    PROVE  LET c == Collected(given) IN
           /\ IsParsed(c.region) /\ Told(Len(given), given, c.region, c.unknown)
           /\ unknownOpcodes \subseteq c.unknown
           /\ \A name \in c.unknown \ unknownOpcodes :
                 \E i \in 1 .. Len(given) : given[i].name = name /\ ~ Recognised(given[i])
<1>1. PICK N, S : /\ N \in Nat /\ N = Len(given)
                  /\ given \in Seq(S) /\ \A t \in S : IsOpcode(t)
  BY DEF AreOpcodes
<1>2. \A i \in 1 .. N : IsOpcode(given[i])
  BY <1>1
<1> DEFINE first == [region |-> NewRegion, unknown |-> unknownOpcodes]
           Explained(k, unknown) ==
               \A name \in unknown \ unknownOpcodes :
                   \E i \in 1 .. k : given[i].name = name /\ ~ Recognised(given[i])
           Good(k, acc) == /\ DOMAIN acc = {"region", "unknown"} /\ IsParsed(acc.region)
                           /\ Told(k, given, acc.region, acc.unknown)
                           /\ unknownOpcodes \subseteq acc.unknown
                           /\ Explained(k, acc.unknown)
<1>3. Good(0, first)
  <2>1. Told(0, given, NewRegion, unknownOpcodes)
    BY DEF Told
  <2> QED BY <2>1, NewRegionIsParsed
<1>4. ASSUME NEW k \in 1 .. N, NEW acc, Good(k - 1, acc)
      PROVE  Good(k, Handed(acc, given[k]))
  <2>1. k \in Nat \ {0} /\ IsOpcode(given[k]) /\ k \in 1 .. k /\ \A i \in 1 .. k - 1 : i \in 1 .. k
    BY <1>1, <1>2
  <2>2. CASE given[k].name \in acc.unknown
    <3>1. Handed(acc, given[k]) = acc
      BY <2>2 DEF Handed
    <3>2. Told(k, given, acc.region, acc.unknown)
      BY <1>4, <2>1, <2>2, PassedIsTold
    <3>3. Explained(k, acc.unknown)
      BY <1>4, <2>1
    <3> HIDE DEF Explained
    <3> QED BY <1>4, <3>1, <3>2, <3>3
  <2>3. CASE given[k].name \notin acc.unknown /\ Recognised(given[k])
    <3> DEFINE t == ParseOpcode(acc.region, given[k])
    <3>1. Handed(acc, given[k]) = [acc EXCEPT !.region = t]
      BY <2>3 DEF Handed
    <3>2. Told(k, given, t, acc.unknown)
      BY <1>4, <2>1, <2>3, HandedIsTold
    <3>3. IsParsed(t)
      BY <1>4, <2>1, ParsedIsParsed
    <3>4. Explained(k, acc.unknown)
      BY <1>4, <2>1
    <3> HIDE DEF Explained, t
    <3> QED BY <1>4, <3>1, <3>2, <3>3, <3>4
  <2>4. CASE given[k].name \notin acc.unknown /\ ~ Recognised(given[k])
    <3> DEFINE more == acc.unknown \cup {given[k].name}
    <3>1. Handed(acc, given[k]) = [acc EXCEPT !.unknown = more]
      BY <2>4 DEF Handed
    <3>2. Told(k, given, acc.region, more)
      BY <1>4, <2>1, <2>4, PassedIsTold
    <3>3. Explained(k, more)
      BY <1>4, <2>1, <2>4
    <3>4. unknownOpcodes \subseteq more
      BY <1>4
    <3> HIDE DEF Explained, more
    <3> QED BY <1>4, <3>1, <3>2, <3>3, <3>4
  <2> QED BY <2>2, <2>3, <2>4
<1> HIDE DEF Good
<1>5. PICK after : /\ Collected(given) = after[N] /\ after[0] = first
                   /\ \A k \in 1 .. N : after[k] = Handed(after[k - 1], given[k])
  BY <1>1, CollectedInTurn
<1> HIDE DEF first
<1> DEFINE T == {k \in 0 .. N : Good(k, after[k])}
<1>6. 0 \in T
  BY <1>1, <1>3, <1>5
<1>7. \A k \in 1 .. N : k - 1 \in T => k \in T
  <2> TAKE k \in 1 .. N
  <2> HAVE k - 1 \in T
  <2>1. after[k] = Handed(after[k - 1], given[k])
    BY <1>5
  <2>2. Good(k, after[k])
    BY <1>4, <2>1
  <2>3. k \in 0 .. N
    BY <1>1
  <2> QED BY <2>2, <2>3
<1> HIDE DEF T
<1>8. N \in T
  <2>1. N \in Nat
    BY <1>1
  <2>2. 0 .. N \subseteq T
    BY <1>6, <1>7, <2>1, UpTo
  <2> QED BY <2>1, <2>2
<1>9. Good(N, Collected(given))
  BY <1>5, <1>8 DEF T
<1> QED BY <1>1, <1>9 DEF Good

-----------------------------------------------------------------------------
(* The opcodes of a region header, as operators of the text.                 *)

NextIn(text, i) ==
    CHOOSE j \in i..Len(text) + 1 :
        /\ j <= Len(text) => IsHeader(text[j])
        /\ \A k \in i..j - 1 : ~ IsHeader(text[k])

MembersIn(text, i) == SubSeq(text, i + 1, NextIn(text, i + 1) - 1)

LastIn(text, header, i) ==
    LET before == {j \in 1..i - 1 : IsHeader(text[j]) /\ text[j].header = header}
    IN IF before = {} THEN <<>>
       ELSE MembersIn(text, CHOOSE j \in before : \A k \in before : k <= j)

HeadersIn(text) == {i \in DOMAIN text : IsHeader(text[i]) /\ text[i].header = "region"}

HeaderIn(text, n) ==
    CHOOSE i \in HeadersIn(text) : Cardinality({j \in HeadersIn(text) : j <= i}) = n

OpcodesIn(text, n) ==
    LastIn(text, "global", HeaderIn(text, n)) \o LastIn(text, "master", HeaderIn(text, n))
        \o LastIn(text, "group", HeaderIn(text, n)) \o MembersIn(text, HeaderIn(text, n))

LEMMA OpcodesAreThose ==
    /\ \A i : Members(i) = MembersIn(aggregatedContent, i)
    /\ \A h, i : LastMembers(h, i) = LastIn(aggregatedContent, h, i)
    /\ RegionHeaders = HeadersIn(aggregatedContent)
    /\ \A n : HeaderOf(n) = HeaderIn(aggregatedContent, n)
    /\ \A n : OpcodesOf(n) = OpcodesIn(aggregatedContent, n)
<1>1. \A i : NextHeader(i) = NextIn(aggregatedContent, i)
  BY Zenon DEF NextHeader, NextIn
<1>2. \A i : Members(i) = MembersIn(aggregatedContent, i)
  BY <1>1, Zenon DEF Members, MembersIn
<1>3. \A h, i : LastMembers(h, i) = LastIn(aggregatedContent, h, i)
  <2> TAKE h, i
  <2> DEFINE before == {j \in 1 .. i - 1 : IsHeader(aggregatedContent[j])
                                           /\ aggregatedContent[j].header = h}
             last == CHOOSE j \in before : \A k \in before : k <= j
  <2>1. LastMembers(h, i) = IF before = {} THEN << >> ELSE Members(last)
    BY DEF LastMembers
  <2>2. LastIn(aggregatedContent, h, i)
            = IF before = {} THEN << >> ELSE MembersIn(aggregatedContent, last)
    BY DEF LastIn
  <2> HIDE DEF before, last
  <2> QED BY <1>2, <2>1, <2>2
<1>4. RegionHeaders = HeadersIn(aggregatedContent)
  BY Zenon DEF RegionHeaders, HeadersIn
<1>5. \A n : HeaderOf(n) = HeaderIn(aggregatedContent, n)
  BY <1>4, Zenon DEF HeaderOf, HeaderIn
<1> QED BY <1>2, <1>3, <1>4, <1>5 DEF OpcodesOf, OpcodesIn

LEMMA OpcodesWillBeThose ==
    /\ \A h, i : LastMembers(h, i)' = LastIn(aggregatedContent', h, i)
    /\ RegionHeaders' = HeadersIn(aggregatedContent')
    /\ \A n : OpcodesOf(n)' = OpcodesIn(aggregatedContent', n)
<1>1. \A i : NextHeader(i)' = NextIn(aggregatedContent', i)
  BY Zenon DEF NextHeader, NextIn
<1>2. \A i : Members(i)' = MembersIn(aggregatedContent', i)
  BY <1>1, Zenon DEF Members, MembersIn
<1>3. \A h, i : LastMembers(h, i)' = LastIn(aggregatedContent', h, i)
  <2> TAKE h, i
  <2> DEFINE before == {j \in 1 .. i - 1 : IsHeader(aggregatedContent'[j])
                                           /\ aggregatedContent'[j].header = h}
             last == CHOOSE j \in before : \A k \in before : k <= j
  <2>1. LastMembers(h, i)' = IF before = {} THEN << >> ELSE MembersIn(aggregatedContent', last)
    BY DEF LastMembers, Members, NextHeader, MembersIn, NextIn
  <2>2. LastIn(aggregatedContent', h, i)
            = IF before = {} THEN << >> ELSE MembersIn(aggregatedContent', last)
    BY DEF LastIn
  <2> HIDE DEF before, last
  <2> QED BY <1>2, <2>1, <2>2
<1>4. RegionHeaders' = HeadersIn(aggregatedContent')
  BY Zenon DEF RegionHeaders, HeadersIn
<1>5. \A n : HeaderOf(n)' = HeaderIn(aggregatedContent', n)
  BY <1>4, Zenon DEF HeaderOf, HeaderIn
<1> QED BY <1>2, <1>3, <1>4, <1>5 DEF OpcodesOf, OpcodesIn

LEMMA OpcodesOfSameText ==
    ASSUME aggregatedContent' = aggregatedContent
    PROVE  /\ \A h, i : LastMembers(h, i)' = LastMembers(h, i)
           /\ RegionHeaders' = RegionHeaders
           /\ \A n : OpcodesOf(n)' = OpcodesOf(n)
  BY OpcodesAreThose, OpcodesWillBeThose

\* From a header to the next one, a kind's last members are the header's if it is of the kind.
LEMMA MembersPastOneHeader ==
    ASSUME AreTokens(aggregatedContent), NEW p \in 1 .. Len(aggregatedContent),
           IsHeader(aggregatedContent[p]), NEW q, q = NextHeader(p + 1), NEW kind
    PROVE  LastMembers(kind, q) = IF aggregatedContent[p].header = kind
                                  THEN Members(p) ELSE LastMembers(kind, p)
<1>1. PICK N \in Nat : N = Len(aggregatedContent) /\ DOMAIN aggregatedContent = 1 .. N
  BY DEF AreTokens
<1>2. p \in Nat /\ p + 1 \in 1 .. N + 1
  BY <1>1
<1>3. /\ q \in p + 1 .. N + 1
      /\ \A k \in p + 1 .. q - 1 : ~ IsHeader(aggregatedContent[k])
  BY <1>1, <1>2, NextHeaderFound
<1> DEFINE Before(i) == {j \in 1 .. i - 1 : IsHeader(aggregatedContent[j])
                                            /\ aggregatedContent[j].header = kind}
           latest(i) == CHOOSE j \in Before(i) : \A k \in Before(i) : k <= j
<1>4. \A i : LastMembers(kind, i) = IF Before(i) = {} THEN <<>> ELSE Members(latest(i))
  BY DEF LastMembers
<1>5. \A j \in 1 .. q - 1 : j \in 1 .. p - 1 \/ j = p \/ j \in p + 1 .. q - 1
  BY <1>2, <1>3
<1>6. (\A j \in 1 .. p - 1 : j \in 1 .. q - 1) /\ p \in 1 .. q - 1
  BY <1>2, <1>3
<1>7. CASE aggregatedContent[p].header = kind
  <2>1. p \in Before(q)
    BY <1>6, <1>7
  <2>2. \A j \in Before(q) : j <= p
    BY <1>2, <1>3, <1>5
  <2>3. \A j \in Before(q) : (\A k \in Before(q) : k <= j) => j = p
    <3> TAKE j \in Before(q)
    <3> HAVE \A k \in Before(q) : k <= j
    <3>1. p <= j /\ j <= p
      BY <2>1, <2>2
    <3>2. j \in Nat
      OBVIOUS
    <3> QED BY <1>2, <3>1, <3>2
  <2> HIDE DEF Before
  <2>4. latest(q) = p
    BY <2>1, <2>2, <2>3
  <2>5. Before(q) # {}
    BY <2>1
  <2> HIDE DEF latest
  <2> QED BY <1>4, <1>7, <2>4, <2>5
<1>8. CASE aggregatedContent[p].header # kind
  <2>1. Before(q) = Before(p)
    BY <1>3, <1>5, <1>6, <1>8
  <2> HIDE DEF Before
  <2> QED BY <1>4, <1>8, <2>1
<1> QED BY <1>7, <1>8

\* Nothing between a header and the next one is a header.
LEMMA PastOneHeader ==
    ASSUME AreTokens(aggregatedContent), NEW p \in 1 .. Len(aggregatedContent),
           IsHeader(aggregatedContent[p]), NEW q, q = NextHeader(p + 1)
    PROVE  /\ q <= Len(aggregatedContent) => IsHeader(aggregatedContent[q])
           /\ {j \in RegionHeaders : j < q} = {j \in RegionHeaders : j < p}
                 \cup (IF aggregatedContent[p].header = "region" THEN {p} ELSE {})
<1>1. PICK N \in Nat : N = Len(aggregatedContent) /\ DOMAIN aggregatedContent = 1 .. N
  BY DEF AreTokens
<1>2. p \in Nat /\ p + 1 \in 1 .. N + 1
  BY <1>1
<1>3. /\ q \in p + 1 .. N + 1
      /\ q <= N => IsHeader(aggregatedContent[q])
      /\ \A k \in p + 1 .. q - 1 : ~ IsHeader(aggregatedContent[k])
  BY <1>1, <1>2, NextHeaderFound
<1>4. {j \in RegionHeaders : j < q} = {j \in RegionHeaders : j < p}
          \cup (IF aggregatedContent[p].header = "region" THEN {p} ELSE {})
  <2>1. \A j \in 1 .. N : j < q => j < p \/ j = p \/ j \in p + 1 .. q - 1
    BY <1>2, <1>3
  <2>2. \A j \in 1 .. N : j < p \/ j = p => j < q
    BY <1>2, <1>3
  <2>3. \A j \in RegionHeaders : j \in 1 .. N /\ IsHeader(aggregatedContent[j])
                                 /\ aggregatedContent[j].header = "region"
    BY <1>1 DEF RegionHeaders
  <2>4. p \in RegionHeaders <=> aggregatedContent[p].header = "region"
    BY DEF RegionHeaders, AreTokens
  <2> QED BY <1>1, <1>3, <2>1, <2>2, <2>3, <2>4
<1> QED BY <1>1, <1>3, <1>4

\* The place of a header among those of regions tells it from the others.
LEMMA HeaderIsFound ==
    ASSUME AreTokens(aggregatedContent), NEW p \in RegionHeaders
    PROVE  /\ IsFiniteSet({j \in RegionHeaders : j < p})
           /\ HeaderOf(Cardinality({j \in RegionHeaders : j < p}) + 1) = p
<1>1. PICK N \in Nat : DOMAIN aggregatedContent = 1 .. N
  BY DEF AreTokens
<1>2. RegionHeaders \subseteq 1 .. N
  BY <1>1 DEF RegionHeaders
<1>3. IsFiniteSet(RegionHeaders)
  <2>1. IsFiniteSet(1 .. N)
    BY FS_Interval
  <2> QED BY <1>2, <2>1, FS_Subset
<1> DEFINE UpToThere(i) == {j \in RegionHeaders : j <= i}
           before == {j \in RegionHeaders : j < p}
<1>4. \A i : IsFiniteSet(UpToThere(i)) /\ Cardinality(UpToThere(i)) \in Nat
  <2> TAKE i
  <2>1. UpToThere(i) \subseteq RegionHeaders
    OBVIOUS
  <2> HIDE DEF UpToThere
  <2> QED BY <1>3, <2>1, FS_Subset, FS_CardinalityType
<1>5. \A i, j \in RegionHeaders : i < j => Cardinality(UpToThere(i)) < Cardinality(UpToThere(j))
  <2> TAKE i, j \in RegionHeaders
  <2> HAVE i < j
  <2>1. i \in Nat /\ j \in Nat
    BY <1>2
  <2>2. UpToThere(i) \subseteq UpToThere(j) /\ UpToThere(i) # UpToThere(j)
    <3>1. \A k \in RegionHeaders : k \in Nat
      BY <1>2
    <3>2. j \in UpToThere(j) /\ j \notin UpToThere(i)
      BY <2>1
    <3>3. \A k \in RegionHeaders : k <= i => k <= j
      BY <2>1, <3>1
    <3>4. UpToThere(i) \subseteq UpToThere(j)
      BY <3>3
    <3> HIDE DEF UpToThere
    <3> QED BY <3>2, <3>4
  <2> HIDE DEF UpToThere
  <2> QED BY <1>4, <2>2, FS_Subset
<1>6. \A i \in RegionHeaders : Cardinality(UpToThere(i)) = Cardinality(UpToThere(p)) => i = p
  <2> TAKE i \in RegionHeaders
  <2>1. i < p \/ i = p \/ p < i
    BY <1>2
  <2> HIDE DEF UpToThere
  <2> QED BY <1>4, <1>5, <2>1
<1>7. before \cup {p} = UpToThere(p) /\ p \notin before /\ before \subseteq RegionHeaders
  <2>1. \A j \in RegionHeaders : j <= p <=> j < p \/ j = p
    BY <1>2
  <2>2. ~ (p < p) /\ p \in RegionHeaders
    BY <1>2
  <2> QED BY <2>1, <2>2
<1> HIDE DEF before
<1>8. IsFiniteSet(before) /\ Cardinality(UpToThere(p)) = Cardinality(before) + 1
  <2>1. IsFiniteSet(before)
    BY <1>3, <1>7, FS_Subset
  <2> HIDE DEF UpToThere
  <2>2. Cardinality(before \cup {p}) = Cardinality(before) + 1
    BY <1>7, <2>1, FS_AddElement
  <2> QED BY <1>7, <2>1, <2>2
<1>9. \A n : HeaderOf(n) = CHOOSE i \in RegionHeaders : Cardinality(UpToThere(i)) = n
  BY DEF HeaderOf
<1> HIDE DEF UpToThere
<1>10. HeaderOf(Cardinality(UpToThere(p))) = p
  BY <1>6, <1>9
<1> QED BY <1>8, <1>10 DEF before

\* Opcodes of the text.
FromText(s) ==
    \E S : s \in Seq(S) /\ \A t \in S : \E i \in DOMAIN aggregatedContent :
                               t = aggregatedContent[i] /\ ~ IsHeader(t)

LEMMA TextsJoin ==
    /\ FromText(<< >>)
    /\ \A s, t : FromText(s) /\ FromText(t) => FromText(s \o t)
<1> DEFINE Is(t) == \E i \in DOMAIN aggregatedContent : t = aggregatedContent[i] /\ ~ IsHeader(t)
<1>1. \A s : FromText(s) <=> \E S : s \in Seq(S) /\ \A t \in S : Is(t)
  BY DEF FromText
<1> HIDE DEF Is
<1>2. FromText(<< >>)
  <2>1. PICK S : S = {}
    OBVIOUS
  <2>2. << >> \in Seq(S) /\ \A t \in S : Is(t)
    BY <2>1
  <2> QED BY <1>1, <2>2
<1>3. ASSUME NEW s, NEW t, FromText(s), FromText(t)
      PROVE  FromText(s \o t)
  <2>1. PICK S, T : s \in Seq(S) /\ t \in Seq(T) /\ \A x \in S \cup T : Is(x)
    BY <1>1, <1>3
  <2>2. s \in Seq(S \cup T) /\ t \in Seq(S \cup T)
    BY <2>1
  <2>3. s \o t \in Seq(S \cup T)
    BY <2>2, ConcatProperties
  <2> QED BY <1>1, <2>1, <2>3
<1> QED BY <1>2, <1>3

LEMMA MembersFromText ==
    ASSUME AreTokens(aggregatedContent), NEW i \in 1 .. Len(aggregatedContent)
    PROVE  FromText(Members(i))
<1>1. PICK S : aggregatedContent \in Seq(S)
  BY DEF AreTokens
<1>2. PICK N \in Nat : N = Len(aggregatedContent) /\ DOMAIN aggregatedContent = 1 .. N
  BY <1>1
<1>3. i + 1 \in 1 .. N + 1 /\ i \in Nat
  BY <1>2
<1>4. PICK n : n = NextHeader(i + 1) - 1
  OBVIOUS
<1>5. n \in i .. N /\ \A k \in i + 1 .. n : ~ IsHeader(aggregatedContent[k])
  <2>1. PICK h : h = NextHeader(i + 1)
    OBVIOUS
  <2>2. /\ h \in i + 1 .. N + 1
        /\ \A k \in i + 1 .. h - 1 : ~ IsHeader(aggregatedContent[k])
    BY <1>2, <1>3, <2>1, NextHeaderFound
  <2> QED BY <1>3, <1>4, <2>1, <2>2
<1>6. Members(i) = SubSeq(aggregatedContent, i + 1, n)
  BY <1>4 DEF Members
<1> DEFINE m == Members(i)
<1>7. /\ Len(m) = n - i /\ m \in Seq(S)
      /\ \A k \in 1 .. n - i : m[k] = aggregatedContent[i + k]
  BY <1>1, <1>2, <1>3, <1>5, <1>6
<1> HIDE DEF m
<1>8. PICK O : O = {aggregatedContent[k] : k \in i + 1 .. n}
  OBVIOUS
<1>9. \A k \in 1 .. n - i : m[k] \in O
  <2> TAKE k \in 1 .. n - i
  <2>1. i + k \in i + 1 .. n
    BY <1>3, <1>5
  <2> QED BY <1>7, <1>8, <2>1
<1>10. m \in Seq(O)
  <2>1. DOMAIN m = 1 .. n - i /\ m = [k \in 1 .. n - i |-> m[k]] /\ n - i \in Nat
    BY <1>3, <1>5, <1>7
  <2>2. m \in [1 .. n - i -> O]
    BY <1>9, <2>1
  <2> QED BY <2>1, <2>2
<1>11. \A t \in O : \E k \in DOMAIN aggregatedContent : t = aggregatedContent[k] /\ ~ IsHeader(t)
  <2> TAKE t \in O
  <2>1. PICK k \in i + 1 .. n : t = aggregatedContent[k]
    BY <1>8
  <2>2. k \in 1 .. N
    BY <1>3, <1>5
  <2> QED BY <1>2, <1>5, <2>1, <2>2
<1> QED BY <1>10, <1>11 DEF m, FromText

\* What a header inherits is of the text.
LEMMA LastFromText ==
    ASSUME AreTokens(aggregatedContent), NEW kind, NEW i \in 1 .. Len(aggregatedContent) + 1
    PROVE  FromText(LastMembers(kind, i))
<1>1. PICK N \in Nat : N = Len(aggregatedContent) /\ DOMAIN aggregatedContent = 1 .. N
  BY DEF AreTokens
<1> DEFINE before == {j \in 1 .. i - 1 : IsHeader(aggregatedContent[j])
                                         /\ aggregatedContent[j].header = kind}
           last == CHOOSE j \in before : \A k \in before : k <= j
           IsLast(j) == \A k \in before : k <= j
<1>2. LastMembers(kind, i) = IF before = {} THEN << >> ELSE Members(last)
  BY DEF LastMembers
<1>3. CASE before = {}
  BY <1>2, <1>3, TextsJoin
<1>4. CASE before # {}
  <2>1. before \subseteq 1 .. N
    BY <1>1
  <2> DEFINE T == {n \in Nat : \A k \in before : k <= n}
  <2>2. N \in T /\ T \in SUBSET Nat
    BY <1>1, <2>1
  <2> HIDE DEF T
  <2>3. PICK n \in T : \A j \in T : n <= j
    BY <2>2, HasFirst
  <2> USE DEF T
  <2>4. n \in Nat /\ \A k \in before : k <= n
    OBVIOUS
  <2>5. n \in before
    <3> SUFFICES ASSUME n \notin before PROVE FALSE
      OBVIOUS
    <3>1. PICK k \in before : k \in 1 .. N
      BY <1>4, <2>1
    <3>2. n - 1 \in Nat
      BY <2>4, <3>1
    <3>3. \A j \in before : j <= n - 1
      BY <2>1, <2>4
    <3>4. n - 1 \in T
      BY <3>2, <3>3
    <3>5. n <= n - 1
      BY <2>3, <3>4
    <3> QED BY <2>4, <3>5
  <2> HIDE DEF before
  <2>6. last \in before
    BY <2>4, <2>5
  <2> HIDE DEF last
  <2> QED BY <1>1, <1>2, <1>4, <2>1, <2>6, MembersFromText
<1> QED BY <1>3, <1>4

-----------------------------------------------------------------------------
(* The invariant of the opcodes.                                             *)

\* While headers are parsed, the parser keeps the last opcodes of each kind, and there is a
\* region for each header of one.
HeadersInv ==
    /\ position <= Len(aggregatedContent) => IsHeader(aggregatedContent[position])
    /\ Len(built) = Cardinality({j \in RegionHeaders : j < position})
    /\ \A kind \in Kinds : opcodes[kind] = LastMembers(kind, position)

\* Every region has been told its opcodes.
AllTold ==
    \A n \in DOMAIN built :
        /\ AreOpcodes(OpcodesOf(n))
        /\ Told(Len(OpcodesOf(n)), OpcodesOf(n), built[n], unknownOpcodes)

\* A name is unknown since an earlier load, or because parseOpcode refused it.
NamesInv ==
    phase # "reading" => \A name \in unknownOpcodes :
        \/ name \in leftover.unknown
        \/ \E i \in DOMAIN aggregatedContent :
              /\ ~ IsHeader(aggregatedContent[i])
              /\ aggregatedContent[i].name = name /\ ~ Recognised(aggregatedContent[i])

OpcodesInv ==
    /\ phase \in {"idle", "reading", "parsing", "registering"} /\ "unknown" \in DOMAIN leftover
    /\ \E S : built \in Seq(S)
    /\ phase = "reading" => built = << >> /\ opcodes = NoOpcodes
    /\ phase = "parsing" => HeadersInv
    /\ AllTold
    /\ NamesInv

\* A member has the value of the last opcode that is of use to it.
LEMMA InvariantTells == SourceInv /\ OpcodesInv => OpcodesTakeEffect
<1> SUFFICES ASSUME SourceInv, OpcodesInv PROVE OpcodesTakeEffect
  OBVIOUS
<1>1. ASSUME NEW n \in DOMAIN built, NEW m \in DOMAIN NewRegion \ DOMAIN SwitchDefaults
      PROVE  LET given == OpcodesOf(n)
                 useful == {i \in DOMAIN given : About(given[i]) # {} /\ IsReadable(given[i])}
                 about == {i \in useful : m \in About(given[i])} IN
             IF \E i \in about : given[i].name \in unknownOpcodes THEN TRUE
             ELSE IF about = {} THEN m \in CCMembers \/ built[n][m] = NewRegion[m]
             ELSE SaidBy(given[CHOOSE i \in about : \A j \in about : j <= i], m, built[n][m])
  <2> DEFINE given == OpcodesOf(n)
             useful == {i \in DOMAIN given : About(given[i]) # {} /\ IsReadable(given[i])}
             about == {i \in useful : m \in About(given[i])}
             last == CHOOSE i \in about : \A j \in about : j <= i
  <2>1. Told(Len(given), given, built[n], unknownOpcodes) /\ m \in Said
    BY DEF OpcodesInv, AllTold, Said
  <2>2. PICK N : N = Len(given) /\ N \in Nat /\ DOMAIN given = 1 .. N
    BY DEF OpcodesInv, AllTold, AreOpcodes
  <2> HIDE DEF given
  <2>3. about = {i \in 1 .. N : IsUseful(given[i], m)}
    BY <2>2 DEF IsUseful
  <2> HIDE DEF about
  <2>4. CASE \E i \in 1 .. N : IsUseful(given[i], m) /\ given[i].name \in unknownOpcodes
    <3>1. \E i \in about : given[i].name \in unknownOpcodes
      BY <2>3, <2>4
    <3> QED BY <3>1 DEF about, useful, given
  <2>5. CASE /\ \A i \in 1 .. N : ~ IsUseful(given[i], m)
             /\ m \in CCMembers \/ built[n][m] = NewRegion[m]
    <3>1. about = {}
      BY <2>3, <2>5
    <3> QED BY <2>5, <3>1 DEF about, useful, given
  <2>6. CASE \E i \in 1 .. N : /\ IsUseful(given[i], m) /\ Says(given[i], m, built[n][m])
                               /\ \A j \in 1 .. N : IsUseful(given[j], m) => j <= i
    <3>1. PICK i \in 1 .. N : /\ IsUseful(given[i], m) /\ Says(given[i], m, built[n][m])
                              /\ \A j \in 1 .. N : IsUseful(given[j], m) => j <= i
      BY <2>6
    <3>2. i \in about /\ (\A j \in about : j <= i) /\ \A j \in about : j \in Nat
      BY <2>3, <3>1
    <3>3. \A j \in about : (\A k \in about : k <= j) => j = i
      BY <3>2
    <3>4. last = i
      BY <3>2, <3>3
    <3> HIDE DEF last
    <3>5. about # {} /\ SaidBy(given[last], m, built[n][m])
      BY <3>1, <3>2, <3>4 DEF Says
    <3> QED BY <3>5 DEF last, about, useful, given
  <2> QED BY <2>1, <2>2, <2>4, <2>5, <2>6 DEF Told
<1>2. phase # "reading" => \A name \in unknownOpcodes \cap DOMAIN Settings :
        \/ name \in leftover.unknown
        \/ \E i \in DOMAIN aggregatedContent :
              /\ ~ IsHeader(aggregatedContent[i])
              /\ aggregatedContent[i].name = name /\ ~ Recognised(aggregatedContent[i])
  BY DEF OpcodesInv, NamesInv
<1> QED BY <1>1, <1>2 DEF OpcodesTakeEffect

LEMMA OpcodesInit == Init => OpcodesInv
<1> SUFFICES ASSUME Init PROVE OpcodesInv
  OBVIOUS
<1>1. phase = "idle" /\ built = << >> /\ unknownOpcodes = {}
  BY DEF Init
<1>3. "unknown" \in DOMAIN leftover
  BY DEF Init
<1>2. DOMAIN built = {} /\ \E S : built \in Seq(S)
  <2>1. PICK S : S = {}
    OBVIOUS
  <2>2. << >> \in Seq(S)
    OBVIOUS
  <2> QED BY <1>1, <2>2
<1> QED BY <1>1, <1>2, <1>3 DEF OpcodesInv, AllTold, NamesInv

\* No region has been built.
LEMMA NoneBuilt ==
    ASSUME built' = << >>
    PROVE  (\E S : built' \in Seq(S)) /\ AllTold'
<1>1. DOMAIN built' = {} /\ \E S : built' \in Seq(S)
  <2>1. PICK S : S = {}
    OBVIOUS
  <2>2. << >> \in Seq(S)
    OBVIOUS
  <2> QED BY <2>2
<1> QED BY <1>1 DEF AllTold

LEMMA OpcodesBegin ==
    ASSUME OpcodesInv, NEW path, Begin(path)
    PROVE  OpcodesInv'
<1>1. /\ phase = "idle" /\ built' = << >> /\ opcodes' = NoOpcodes
      /\ UNCHANGED unknownOpcodes /\ leftover'.unknown = leftover.unknown
      /\ "unknown" \in DOMAIN leftover'
      /\ \/ phase' = "reading"
         \/ phase' = "idle" /\ UNCHANGED aggregatedContent
  BY DEF Begin, Clear, Returns
<1>2. NamesInv'
  <2>1. CASE phase' = "reading"
    BY <2>1 DEF NamesInv
  <2>2. CASE phase' = "idle" /\ UNCHANGED aggregatedContent
    BY <1>1, <2>2 DEF OpcodesInv, NamesInv
  <2> QED BY <1>1, <2>1, <2>2
<1> QED BY <1>1, <1>2, NoneBuilt DEF OpcodesInv

\* Reading builds nothing.
LEMMA OpcodesRead ==
    ASSUME OpcodesInv, phase = "reading", phase' = "reading", UNCHANGED <<built, opcodes>>,
           DOMAIN leftover' = DOMAIN leftover
    PROVE  OpcodesInv'
<1>1. built' = << >> /\ opcodes' = NoOpcodes
  BY DEF OpcodesInv
<1> QED BY <1>1, NoneBuilt DEF OpcodesInv, NamesInv

LEMMA OpcodesTextEnd ==
    ASSUME SourceInv, OpcodesInv, EndOfText
    PROVE  OpcodesInv'
<1>1. /\ phase = "reading" /\ phase' = "parsing" /\ position' = NextHeader(1)
      /\ UNCHANGED <<built, opcodes, aggregatedContent>>
      /\ leftover' = [leftover EXCEPT !.unknown = unknownOpcodes']
  BY DEF EndOfText, reader
<1>2. built' = << >> /\ opcodes' = NoOpcodes
  BY <1>1 DEF OpcodesInv
<1>3. "unknown" \in DOMAIN leftover
  BY DEF OpcodesInv
<1>4. NamesInv'
  BY <1>1, <1>3 DEF NamesInv
<1>5. PICK N \in Nat : N = Len(aggregatedContent) /\ DOMAIN aggregatedContent = 1 .. N
  BY DEF SourceInv, AreTokens
<1>6. PICK q : q = NextHeader(1)
  OBVIOUS
<1>7. /\ q \in 1 .. N + 1 /\ (q <= N => IsHeader(aggregatedContent[q]))
      /\ \A k \in 1 .. q - 1 : ~ IsHeader(aggregatedContent[k])
  BY <1>5, <1>6, NextHeaderFound
<1>8. \A kind : LastMembers(kind, q) = << >>
  <2> TAKE kind
  <2> DEFINE before == {j \in 1 .. q - 1 : IsHeader(aggregatedContent[j])
                                           /\ aggregatedContent[j].header = kind}
  <2>1. before = {}
    BY <1>7
  <2> QED BY <2>1 DEF LastMembers
<1>9. {j \in RegionHeaders : j < q} = {}
  <2>1. \A j \in RegionHeaders : j \in 1 .. N /\ IsHeader(aggregatedContent[j])
    BY <1>5 DEF RegionHeaders
  <2>2. \A j \in 1 .. N : j < q => j \in 1 .. q - 1
    BY <1>7
  <2> QED BY <1>7, <2>1, <2>2
<1>10. HeadersInv'
  <2>1. /\ \A kind : LastMembers(kind, position)' = LastMembers(kind, q)
        /\ RegionHeaders' = RegionHeaders
    <3>1. \A kind : LastMembers(kind, position)' = LastIn(aggregatedContent', kind, position')
      BY OpcodesWillBeThose
    <3> QED BY <1>1, <1>6, <3>1, OpcodesAreThose, OpcodesOfSameText
  <2>2. \A kind \in Kinds : opcodes'[kind] = << >>
    BY <1>2 DEF NoOpcodes, Kinds
  <2>3. {j \in RegionHeaders' : j < position'} = {}
    BY <1>1, <1>6, <1>9, <2>1
  <2>4. Len(built') = Cardinality({j \in RegionHeaders' : j < position'})
    BY <1>2, <2>3, FS_EmptySet
  <2> QED BY <1>1, <1>5, <1>6, <1>7, <1>8, <2>1, <2>2, <2>4 DEF HeadersInv
<1> QED BY <1>1, <1>2, <1>3, <1>4, <1>10, NoneBuilt DEF OpcodesInv
\* Steps that leave what was built and what is known.
LEMMA OpcodesStay ==
    ASSUME OpcodesInv, phase # "reading", phase' \in {"idle", "registering"} \/ phase' = phase,
           UNCHANGED <<built, opcodes, unknownOpcodes, leftover, aggregatedContent>>,
           phase' = "parsing" => HeadersInv'
    PROVE  OpcodesInv'
<1>1. AllTold'
  BY OpcodesOfSameText DEF OpcodesInv, AllTold
<1> QED BY <1>1 DEF OpcodesInv, NamesInv

\* The parser goes on from the header at p.
LEMMA HeaderPassed ==
    ASSUME SourceInv, OpcodesInv, NEW names, ParsesHeader(names)
    PROVE  /\ phase = "parsing" /\ phase' = "parsing" /\ aggregatedContent' = aggregatedContent
           /\ position \in 1 .. Len(aggregatedContent) /\ Header \in names
           /\ HeadersInv /\ IsHeader(aggregatedContent[position])
           /\ \A kind : LastMembers(kind, position)' = IF Header = kind THEN Members(position)
                                                      ELSE LastMembers(kind, position)
           /\ {j \in RegionHeaders : j < position}' = {j \in RegionHeaders : j < position}
                  \cup (IF Header = "region" THEN {position} ELSE {})
           /\ position' <= Len(aggregatedContent) => IsHeader(aggregatedContent[position'])
<1>1. /\ phase = "parsing" /\ phase' = "parsing" /\ aggregatedContent' = aggregatedContent
      /\ position <= Len(aggregatedContent) /\ Header \in names
      /\ position' = NextHeader(position + 1)
  BY DEF ParsesHeader, reader
<1>2. PICK N \in Nat : N = Len(aggregatedContent)
  BY DEF SourceInv, AreTokens
<1>3. position \in 1 .. Len(aggregatedContent)
  BY <1>1, <1>2 DEF SourceInv
<1>4. HeadersInv /\ IsHeader(aggregatedContent[position])
  BY <1>1 DEF OpcodesInv, HeadersInv
<1>5. PICK p, q : p = position /\ q = NextHeader(p + 1) /\ position' = q
  BY <1>1
<1>6. /\ q <= Len(aggregatedContent) => IsHeader(aggregatedContent[q])
      /\ \A kind : LastMembers(kind, q) = IF aggregatedContent[p].header = kind
                                          THEN Members(p) ELSE LastMembers(kind, p)
      /\ {j \in RegionHeaders : j < q} = {j \in RegionHeaders : j < p}
            \cup (IF aggregatedContent[p].header = "region" THEN {p} ELSE {})
  <2>1. p \in 1 .. Len(aggregatedContent) /\ IsHeader(aggregatedContent[p])
    BY <1>3, <1>4, <1>5
  <2>2. AreTokens(aggregatedContent) /\ q = NextHeader(p + 1)
    BY <1>5 DEF SourceInv
  <2>3. q <= Len(aggregatedContent) => IsHeader(aggregatedContent[q])
    BY <2>1, <2>2, PastOneHeader
  <2>4. \A kind : LastMembers(kind, q) = IF aggregatedContent[p].header = kind
                                        THEN Members(p) ELSE LastMembers(kind, p)
    <3> SUFFICES ASSUME NEW kind
                 PROVE  LastMembers(kind, q) = IF aggregatedContent[p].header = kind
                                               THEN Members(p) ELSE LastMembers(kind, p)
      OBVIOUS
    <3> QED BY <2>1, <2>2, MembersPastOneHeader
  <2>5. {j \in RegionHeaders : j < q} = {j \in RegionHeaders : j < p}
            \cup (IF aggregatedContent[p].header = "region" THEN {p} ELSE {})
    BY <2>1, <2>2, PastOneHeader
  <2> QED BY <2>3, <2>4, <2>5
<1>7. Header = aggregatedContent[p].header
  BY <1>5 DEF Header
<1>8. \A kind : LastMembers(kind, position)' = LastMembers(kind, q)
  <2>1. \A kind : LastMembers(kind, position)' = LastIn(aggregatedContent', kind, position')
    BY OpcodesWillBeThose
  <2> QED BY <1>1, <1>5, <2>1, OpcodesAreThose
<1>9. {j \in RegionHeaders : j < position}' = {j \in RegionHeaders : j < q}
  BY <1>1, <1>5, OpcodesOfSameText
<1>10. \A kind : LastMembers(kind, position)' = IF Header = kind THEN Members(position)
                                               ELSE LastMembers(kind, position)
  BY <1>5, <1>6, <1>7, <1>8
<1> QED BY <1>1, <1>3, <1>4, <1>5, <1>6, <1>7, <1>9, <1>10

LEMMA OpcodesInherited ==
    ASSUME SourceInv, OpcodesInv, ParseInherited
    PROVE  OpcodesInv'
<1>1. PICK names : ParsesHeader(names) /\ names = Kinds
  BY DEF ParseInherited, Kinds
<1>2. /\ opcodes' = [opcodes EXCEPT ![Header] = Members(position)]
      /\ UNCHANGED <<unknownOpcodes, leftover, built>>
  BY DEF ParseInherited
<1>3. /\ phase = "parsing" /\ phase' = "parsing" /\ aggregatedContent' = aggregatedContent
      /\ Header \in Kinds /\ HeadersInv
      /\ \A kind : LastMembers(kind, position)' = IF Header = kind THEN Members(position)
                                                 ELSE LastMembers(kind, position)
      /\ {j \in RegionHeaders : j < position}' = {j \in RegionHeaders : j < position}
             \cup (IF Header = "region" THEN {position} ELSE {})
      /\ position' <= Len(aggregatedContent) => IsHeader(aggregatedContent[position'])
  BY <1>1, HeaderPassed
<1>4. {j \in RegionHeaders : j < position}' = {j \in RegionHeaders : j < position}
  BY <1>3 DEF Kinds
<1>5. \A kind \in Kinds : opcodes'[kind] = LastMembers(kind, position)'
  BY <1>2, <1>3 DEF SourceInv, HeadersInv
<1>6. Len(built') = Cardinality({j \in RegionHeaders : j < position})'
  BY <1>2, <1>3, <1>4 DEF HeadersInv
<1>7. HeadersInv'
  BY <1>3, <1>5, <1>6 DEF HeadersInv
<1>8. AllTold'
  BY <1>2, <1>3, OpcodesOfSameText DEF OpcodesInv, AllTold
<1> QED BY <1>2, <1>3, <1>7, <1>8 DEF OpcodesInv, NamesInv

LEMMA OpcodesOfOthers ==
    ASSUME SourceInv, OpcodesInv, ParseControl \/ ParseOther
    PROVE  OpcodesInv'
<1>1. PICK names : ParsesHeader(names) /\ names \cap (Kinds \cup {"region"}) = {}
  BY DEF ParseControl, ParseOther, Kinds
<1>2. UNCHANGED <<opcodes, unknownOpcodes, leftover, built>>
  BY DEF ParseControl, ParseOther
<1>3. /\ phase = "parsing" /\ phase' = "parsing" /\ aggregatedContent' = aggregatedContent
      /\ Header \in names /\ HeadersInv
      /\ \A kind : LastMembers(kind, position)' = IF Header = kind THEN Members(position)
                                                 ELSE LastMembers(kind, position)
      /\ {j \in RegionHeaders : j < position}' = {j \in RegionHeaders : j < position}
             \cup (IF Header = "region" THEN {position} ELSE {})
      /\ position' <= Len(aggregatedContent) => IsHeader(aggregatedContent[position'])
  BY <1>1, HeaderPassed
<1>4. {j \in RegionHeaders : j < position}' = {j \in RegionHeaders : j < position}
  BY <1>1, <1>3
<1>5. \A kind \in Kinds : opcodes'[kind] = LastMembers(kind, position)'
  BY <1>1, <1>2, <1>3 DEF HeadersInv
<1>6. Len(built') = Cardinality({j \in RegionHeaders : j < position})'
  BY <1>2, <1>3, <1>4 DEF HeadersInv
<1>7. HeadersInv'
  BY <1>3, <1>5, <1>6 DEF HeadersInv
<1> QED BY <1>2, <1>3, <1>7, OpcodesStay

\* A region is built of the opcodes of its header.
LEMMA OpcodesBuilt ==
    ASSUME SourceInv, OpcodesInv, BuildRegion
    PROVE  OpcodesInv'
<1>1. ParsesHeader({"region"}) /\ UNCHANGED opcodes
  BY DEF BuildRegion
<1>2. /\ phase = "parsing" /\ phase' = "parsing" /\ aggregatedContent' = aggregatedContent
      /\ position \in 1 .. Len(aggregatedContent) /\ Header = "region"
      /\ HeadersInv /\ IsHeader(aggregatedContent[position])
      /\ \A kind : LastMembers(kind, position)' = IF Header = kind THEN Members(position)
                                                 ELSE LastMembers(kind, position)
      /\ {j \in RegionHeaders : j < position}' = {j \in RegionHeaders : j < position}
             \cup (IF Header = "region" THEN {position} ELSE {})
      /\ position' <= Len(aggregatedContent) => IsHeader(aggregatedContent[position'])
  BY <1>1, HeaderPassed
<1>3. PICK all : all = Inherited \o Members(position)
  OBVIOUS
<1>4. PICK S : built \in Seq(S)
  BY DEF OpcodesInv
<1>5. PICK N : N = Len(built) /\ N \in Nat /\ DOMAIN built = 1 .. N
  BY <1>4
<1>6. PICK r : /\ r = With(Collected(all).region, "id", Len(regions) + 1)
               /\ built' = Append(built, r) /\ unknownOpcodes' = Collected(all).unknown
               /\ leftover' = leftover \/ \E x : leftover' = [leftover EXCEPT !.met = x]
  BY <1>3 DEF BuildRegion, Meets
<1>7. AreOpcodes(all)
  <2>1. AreOpcodes(opcodes.global) /\ AreOpcodes(opcodes.master) /\ AreOpcodes(opcodes.group)
    BY DEF SourceInv, Kinds
  <2>2. AreOpcodes(Members(position))
    BY <1>2, MembersAreOpcodes DEF SourceInv
  <2> QED BY <1>3, <2>1, <2>2, TokensJoin DEF Inherited
<1>8. /\ IsParsed(Collected(all).region)
      /\ Told(Len(all), all, Collected(all).region, unknownOpcodes')
      /\ unknownOpcodes \subseteq unknownOpcodes'
      /\ \A name \in unknownOpcodes' \ unknownOpcodes :
            \E i \in 1 .. Len(all) : all[i].name = name /\ ~ Recognised(all[i])
  BY <1>6, <1>7, CollectedIsTold
<1>9. Told(Len(all), all, r, unknownOpcodes')
  <2>1. \A m \in Said : r[m] = Collected(all).region[m]
    BY <1>6, <1>8, NewRegionIsParsed DEF With, IsParsed, Said
  <2> QED BY <1>8, <2>1 DEF Told
<1>10. position \in RegionHeaders
  BY <1>2 DEF RegionHeaders, Header, SourceInv, AreTokens
<1>11. HeaderOf(N + 1) = position /\ IsFiniteSet({j \in RegionHeaders : j < position})
  BY <1>2, <1>5, <1>10, HeaderIsFound DEF SourceInv, HeadersInv
<1>12. OpcodesOf(N + 1) = all
  <2>1. \A kind \in Kinds : opcodes[kind] = LastMembers(kind, position)
    BY <1>2 DEF HeadersInv
  <2>2. /\ opcodes.global = LastMembers("global", position)
        /\ opcodes.master = LastMembers("master", position)
        /\ opcodes.group = LastMembers("group", position)
    BY <2>1 DEF Kinds
  <2> QED BY <1>3, <1>11, <2>2 DEF OpcodesOf, Inherited
<1>13. \A n : OpcodesOf(n)' = OpcodesOf(n)
  BY <1>2, OpcodesOfSameText
<1>14. /\ built' \in Seq(S \cup {r}) /\ DOMAIN built' = 1 .. N + 1 /\ Len(built') = N + 1
       /\ built'[N + 1] = r /\ \A n \in 1 .. N : built'[n] = built[n]
  <2>1. built \in Seq(S \cup {r}) /\ r \in S \cup {r}
    BY <1>4
  <2> QED BY <1>5, <1>6, <2>1, AppendProperties
<1>15. AllTold'
  <2> SUFFICES ASSUME NEW n \in 1 .. N + 1
               PROVE  AreOpcodes(OpcodesOf(n)) /\ Told(Len(OpcodesOf(n)), OpcodesOf(n), built'[n],
                                                      unknownOpcodes')
    BY <1>13, <1>14 DEF AllTold
  <2>1. CASE n = N + 1
    BY <1>7, <1>9, <1>12, <1>14, <2>1
  <2>2. CASE n # N + 1
    <3>1. n \in 1 .. N
      BY <1>5, <2>2
    <3>2. /\ AreOpcodes(OpcodesOf(n))
          /\ Told(Len(OpcodesOf(n)), OpcodesOf(n), built[n], unknownOpcodes)
      BY <1>5, <3>1 DEF OpcodesInv, AllTold
    <3> QED BY <1>8, <1>14, <3>1, <3>2, ToldOfMore
  <2> QED BY <2>1, <2>2
<1>16. HeadersInv'
  <2>1. {j \in RegionHeaders : j < position}' = {j \in RegionHeaders : j < position} \cup {position}
    BY <1>2
  <2>2. Cardinality({j \in RegionHeaders : j < position}') = N + 1
    <3> DEFINE before == {j \in RegionHeaders : j < position}
    <3>1. position \notin before
      <4>1. PICK M \in Nat : M = Len(aggregatedContent)
        BY DEF SourceInv, AreTokens
      <4> QED BY <1>2, <4>1
    <3>2. Cardinality(before) = N /\ IsFiniteSet(before)
      BY <1>2, <1>5, <1>11 DEF HeadersInv
    <3> HIDE DEF before
    <3>3. Cardinality(before \cup {position}) = N + 1
      BY <3>1, <3>2, FS_AddElement
    <3> QED BY <2>1, <3>3 DEF before
  <2>3. \A kind \in Kinds : LastMembers(kind, position)' = LastMembers(kind, position)
    BY <1>2 DEF Kinds
  <2>4. \A kind \in Kinds : opcodes'[kind] = LastMembers(kind, position)'
    BY <1>1, <1>2, <2>3 DEF HeadersInv
  <2> QED BY <1>2, <1>14, <2>2, <2>4 DEF HeadersInv
<1>17. FromText(all)
  <2>1. position \in 1 .. Len(aggregatedContent) + 1
    BY <1>2 DEF SourceInv
  <2>2. \A kind \in Kinds : FromText(opcodes[kind])
    BY <1>2, <2>1, LastFromText DEF HeadersInv, SourceInv
  <2>3. FromText(opcodes.global) /\ FromText(opcodes.master) /\ FromText(opcodes.group)
    BY <2>2 DEF Kinds
  <2>4. FromText(Members(position))
    BY <1>2, MembersFromText DEF SourceInv
  <2> QED BY <1>3, <2>3, <2>4, TextsJoin DEF Inherited
<1>18. NamesInv'
  <2>1. leftover'.unknown = leftover.unknown
    BY <1>6 DEF OpcodesInv
  <2>2. ASSUME NEW name \in unknownOpcodes'
        PROVE  \/ name \in leftover.unknown
               \/ \E i \in DOMAIN aggregatedContent :
                     /\ ~ IsHeader(aggregatedContent[i])
                     /\ aggregatedContent[i].name = name /\ ~ Recognised(aggregatedContent[i])
    <3>1. CASE name \in unknownOpcodes
      BY <1>2, <3>1 DEF OpcodesInv, NamesInv
    <3>2. CASE name \notin unknownOpcodes
      <4>1. PICK i \in 1 .. Len(all) : all[i].name = name /\ ~ Recognised(all[i])
        BY <1>8, <3>2
      <4>2. PICK T : all \in Seq(T) /\ \A t \in T : \E k \in DOMAIN aggregatedContent :
                                   t = aggregatedContent[k] /\ ~ IsHeader(t)
        BY <1>17 DEF FromText
      <4>3. all[i] \in T
        BY <4>1, <4>2
      <4> QED BY <4>1, <4>2, <4>3
    <3> QED BY <3>1, <3>2
  <2> QED BY <1>2, <2>1, <2>2 DEF NamesInv
<1>19. "unknown" \in DOMAIN leftover'
  BY <1>6 DEF OpcodesInv
<1> QED BY <1>2, <1>14, <1>15, <1>16, <1>18, <1>19 DEF OpcodesInv

LEMMA OpcodesKeep == SourceInv /\ OpcodesInv /\ [Next]_vars => OpcodesInv'
<1> SUFFICES ASSUME SourceInv, OpcodesInv, [Next]_vars PROVE OpcodesInv'
  OBVIOUS
<1>1. ASSUME NEW path \in HostFiles, Begin(path)
      PROVE  OpcodesInv'
  BY <1>1, OpcodesBegin
<1>2. CASE Include \/ Define \/ ReadTokens \/ EndOfFile
  <2>1. /\ phase = "reading" /\ phase' = "reading" /\ UNCHANGED <<built, opcodes>>
        /\ DOMAIN leftover' = DOMAIN leftover
    BY <1>2 DEF Include, Define, ReadTokens, EndOfFile, ReadsLine, Meets, parser, history
  <2> QED BY <2>1, OpcodesRead
<1>3. CASE EndOfParse \/ RegisterRegion \/ RemoveRegion \/ EndOfLoad
  <2>1. /\ phase # "reading" /\ phase' \in {"idle", "registering"}
        /\ UNCHANGED <<built, opcodes, unknownOpcodes, leftover, aggregatedContent>>
    BY <1>3 DEF EndOfParse, RegisterRegion, RemoveRegion, EndOfLoad, Registers, Returns,
                reader, parser, history
  <2> QED BY <2>1, OpcodesStay
<1>4. CASE UNCHANGED vars
  <2>1. UNCHANGED <<phase, built, opcodes, unknownOpcodes, leftover, aggregatedContent, position>>
    BY <1>4 DEF vars, reader, parser, history
  <2>2. CASE phase = "reading"
    BY <2>1, <2>2, OpcodesRead
  <2>3. CASE phase # "reading"
    <3>1. phase' = "parsing" => HeadersInv'
      <4>1. phase = "parsing" => HeadersInv
        BY DEF OpcodesInv
      <4>2. \A kind : LastMembers(kind, position)' = LastMembers(kind, position)
        <5>1. \A kind : LastMembers(kind, position)' = LastIn(aggregatedContent', kind, position')
          BY OpcodesWillBeThose
        <5> QED BY <2>1, <5>1, OpcodesAreThose
      <4>3. RegionHeaders' = RegionHeaders
        BY <2>1, OpcodesOfSameText
      <4> QED BY <2>1, <4>1, <4>2, <4>3 DEF HeadersInv
    <3> QED BY <2>1, <2>3, <3>1, OpcodesStay
  <2> QED BY <2>2, <2>3
<1> QED BY <1>1, <1>2, <1>3, <1>4, OpcodesTextEnd, OpcodesInherited, OpcodesOfOthers, OpcodesBuilt
        DEF Next, Step

\* The opcodes that the parser keeps are those that the next region inherits, and every
\* region that was built has what its opcodes say.
THEOREM OpcodesInvariant == Spec => []OpcodesInv
<1>1. Init /\ SourceInv => OpcodesInv
  BY OpcodesInit
<1> QED BY <1>1, SourceInvariant, OpcodesKeep, PTL DEF Spec

\* Each member of a region is as the last opcode about it says, of those of its global,
\* master, group and region headers (OpcodesTakeEffect).
THEOREM OpcodesTakeEffectHolds == Spec => []OpcodesTakeEffect
  BY SourceInvariant, OpcodesInvariant, InvariantTells, PTL

=================================================================================
