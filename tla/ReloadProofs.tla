---------------------------- MODULE ReloadProofs ----------------------------
(***************************************************************************)
(* Proofs about Reload for every set of rule files, directories, log files *)
(* and globs, every set of faults, and any number of reloads.              *)
(*                                                                         *)
(* OneSpy is not inductive: filter_load_done may take a filter that goes   *)
(* on spying off the list, and filter_load only looks at the list.  What   *)
(* saves it is NoneLost: a filter is only lost when a freed one stays in   *)
(* the list, where the next complete walk of the list meets it.            *)
(***************************************************************************)
EXTENDS Reload, FiniteSetTheorems, TLAPS

Distinct == \A i, j \in DOMAIN filters : filters[i] = filters[j] => i = j

OnePerFile ==
  \A i, j \in DOMAIN filters :
    filter[filters[i]].file = filter[filters[j]].file => i = j

AllListedLive == \A n \in Listed : Live(n)
NoneLost == AllListedLive => \A n \in DOMAIN filter : Live(n) => n \in Listed

ReloadInv ==
  /\ TypeOK /\ Distinct /\ NoneLost
  /\ OneSpy /\ PausedOnlyWhileListing /\ RulesAlive

-----------------------------------------------------------------------------
LEMMA TypeFacts ==
  ASSUME TypeOK
  PROVE  /\ filter \in Seq(Filter) /\ Len(filter) \in Nat
         /\ DOMAIN filter = 1..Len(filter)
         /\ \A n \in DOMAIN filter :
              /\ filter[n] \in Filter /\ filter[n].file \in LogFile
              /\ filter[n].rules \subseteq Rule
              /\ filter[n].pause \in BOOLEAN /\ filter[n].live \in BOOLEAN
         /\ filters \in Seq(DOMAIN filter) /\ Len(filters) \in Nat
         /\ DOMAIN filters = 1..Len(filters)
         /\ \A i \in DOMAIN filters : filters[i] \in DOMAIN filter
         /\ Listed \subseteq DOMAIN filter
         /\ listing \in Seq(Listings) /\ Len(listing) \in Nat
         /\ DOMAIN listing = 1..Len(listing)
  <1>1. filter \in Seq(Filter) /\ filters \in Seq(DOMAIN filter) /\ listing \in Seq(Listings)
    BY DEF TypeOK
  <1>2. \A n \in DOMAIN filter : filter[n] \in Filter
    BY <1>1
  <1>3. \A i \in DOMAIN filters : filters[i] \in DOMAIN filter
    BY <1>1
  <1>4. /\ Len(filter) \in Nat /\ DOMAIN filter = 1..Len(filter)
        /\ Len(filters) \in Nat /\ DOMAIN filters = 1..Len(filters)
        /\ Len(listing) \in Nat /\ DOMAIN listing = 1..Len(listing)
    BY <1>1
  <1> QED  BY <1>1, <1>2, <1>3, <1>4 DEF Filter, Listed

\* A function over the indices of a sequence is a sequence.
LEMMA MapFacts ==
  ASSUME NEW S, NEW T, NEW s \in Seq(S), NEW m, DOMAIN m = DOMAIN s,
         m = [n \in DOMAIN s |-> m[n]], \A n \in DOMAIN s : m[n] \in T
  PROVE  m \in Seq(T) /\ Len(m) = Len(s)
  <1>1. Len(s) \in Nat /\ DOMAIN s = 1..Len(s)
    OBVIOUS
  <1>2. m \in [1..Len(s) -> T]
    BY <1>1
  <1> QED  BY <1>1, <1>2

LEMMA ConcatFacts ==
  ASSUME NEW S, NEW a \in Seq(S), NEW b \in Seq(S)
  PROVE  /\ a \o b \in Seq(S) /\ Len(a \o b) = Len(a) + Len(b)
         /\ DOMAIN (a \o b) = 1..(Len(a) + Len(b))
         /\ Len(a) \in Nat /\ Len(b) \in Nat
         /\ \A i \in 1..Len(a) : (a \o b)[i] = a[i]
         /\ \A i \in 1..Len(b) : (a \o b)[Len(a) + i] = b[i]
  OBVIOUS

LEMMA UpdateFacts ==
  ASSUME NEW l \in DOMAIN listing, NEW x \in Listings, TypeOK,
         listing' = [listing EXCEPT ![l] = x]
  PROVE  /\ listing' \in Seq(Listings) /\ DOMAIN listing' = DOMAIN listing
         /\ listing'[l] = x
         /\ \A k \in DOMAIN listing : k # l => listing'[k] = listing[k]
  <1>1. Len(listing) \in Nat /\ DOMAIN listing = 1..Len(listing) /\ listing \in Seq(Listings)
    BY TypeFacts
  <1>2. listing' \in [1..Len(listing) -> Listings]
    BY <1>1
  <1> QED  BY <1>1, <1>2

-----------------------------------------------------------------------------
LEMMA ReloadInit == Init => ReloadInv
  <1> SUFFICES ASSUME Init PROVE ReloadInv  OBVIOUS
  <1>1. Asked \in Listings
    BY DEF Asked, Listings
  <1>2. listing \in Seq(Listings)
    BY <1>1 DEF Init
  <1>3. filter \in Seq(Filter) /\ filters \in Seq(DOMAIN filter)
        /\ DOMAIN filter = {} /\ DOMAIN filters = {}
    BY DEF Init
  <1>4. TypeOK
    BY <1>2, <1>3 DEF Init, TypeOK
  <1> QED  BY <1>3, <1>4 DEF ReloadInv, Distinct, NoneLost, OneSpy,
              PausedOnlyWhileListing, RulesAlive, Listed

(***************************************************************************)
(* Steps that leave the filters alone and free no rule.                    *)
(***************************************************************************)
LEMMA FiltersAlone ==
  ASSUME ReloadInv, UNCHANGED filterVars, rules \subseteq rules'
  PROVE  Distinct' /\ NoneLost' /\ OneSpy' /\ RulesAlive'
  BY DEF ReloadInv, Distinct, NoneLost, AllListedLive, OneSpy, RulesAlive, Live,
         Listed, filterVars

LEMMA UseAfterFreeStep == ReloadInv /\ UseAfterFree => ReloadInv'
  <1> SUFFICES ASSUME ReloadInv, UseAfterFree PROVE ReloadInv'  OBVIOUS
  <1>1. UNCHANGED <<dirVars, loadVars, filterVars, quit>> /\ undefined' = TRUE
    BY DEF UseAfterFree
  <1>2. TypeOK'
    BY <1>1 DEF ReloadInv, TypeOK, dirVars, loadVars, filterVars
  <1>3. Distinct' /\ NoneLost' /\ OneSpy' /\ RulesAlive'
    BY <1>1, FiltersAlone DEF loadVars
  <1>4. PausedOnlyWhileListing'
    BY <1>1 DEF ReloadInv, PausedOnlyWhileListing, Live, loadVars, filterVars
  <1> QED  BY <1>2, <1>3, <1>4 DEF ReloadInv

LEMMA EditStep ==
  ASSUME ReloadInv, NEW r \in RuleFile, Edit(r)
  PROVE  ReloadInv'
  <1>1. UNCHANGED <<loadVars, filterVars, quit, undefined>>
        /\ dir' \subseteq RuleFile /\ edits' \in Nat
    BY DEF Edit, ReloadInv, TypeOK
  <1>2. TypeOK'
    BY <1>1 DEF ReloadInv, TypeOK, loadVars, filterVars
  <1>3. Distinct' /\ NoneLost' /\ OneSpy' /\ RulesAlive'
    BY <1>1, FiltersAlone DEF loadVars
  <1>4. PausedOnlyWhileListing'
    BY <1>1 DEF ReloadInv, PausedOnlyWhileListing, Live, loadVars, filterVars
  <1> QED  BY <1>2, <1>3, <1>4 DEF ReloadInv

-----------------------------------------------------------------------------
(***************************************************************************)
(* The listing.                                                            *)
(***************************************************************************)
LEMMA ReadDirectoryStep ==
  ASSUME ReloadInv, NEW l \in DOMAIN listing, ReadDirectory(l)
  PROVE  ReloadInv'
  <1> DEFINE x == [stage |-> "read", left |-> ListFilter(dir \cup SubDir)]
  <1>1. TypeOK
    BY DEF ReloadInv
  <1>2. x \in Listings
    BY <1>1 DEF Listings, ListFilter, TypeOK
  <1>3. /\ listing' = [listing EXCEPT ![l] = x]
        /\ UNCHANGED <<dirVars, reading, rules, filterVars, quit, undefined>>
    BY DEF ReadDirectory
  <1>4. /\ listing' \in Seq(Listings) /\ DOMAIN listing' = DOMAIN listing
        /\ listing'[l] = x
        /\ \A k \in DOMAIN listing : k # l => listing'[k] = listing[k]
    <2> HIDE DEF x
    <2> QED  BY <1>1, <1>2, <1>3, UpdateFacts
  <1>5. TypeOK'
    BY <1>1, <1>3, <1>4 DEF TypeOK, dirVars, filterVars
  <1>6. Distinct' /\ NoneLost' /\ OneSpy' /\ RulesAlive'
    BY <1>3, FiltersAlone
  <1>7. x.stage # "over"
    OBVIOUS
  <1>8. PausedOnlyWhileListing'
    <2> HIDE DEF x
    <2> QED  BY <1>3, <1>4, <1>7 DEF ReloadInv, PausedOnlyWhileListing, Live, filterVars
  <1> QED  BY <1>5, <1>6, <1>8 DEF ReloadInv

LEMMA RulesLoadLsStep ==
  ASSUME ReloadInv, NEW l \in DOMAIN listing, RulesLoadLs(l)
  PROVE  ReloadInv'
  <1>1. TypeOK /\ l \in Nat \ {0}
    BY TypeFacts DEF ReloadInv
  <1>2. PICK r \in listing[l].left :
           /\ listing' = [listing EXCEPT ![l].left = @ \ {r}]
           /\ reading' = reading \cup [load : {l}, file : {r} \cap dir]
    BY DEF RulesLoadLs
  <1> DEFINE x == [listing[l] EXCEPT !.left = @ \ {r}]
  <1>3. listing[l] \in Listings
    BY <1>1, TypeFacts
  <1>4. x \in Listings /\ x.stage = listing[l].stage
    BY <1>3 DEF Listings
  <1>5. /\ listing' = [listing EXCEPT ![l] = x]
        /\ UNCHANGED <<dirVars, rules, filterVars, quit, undefined>>
    BY <1>2 DEF RulesLoadLs
  <1>6. /\ listing' \in Seq(Listings) /\ DOMAIN listing' = DOMAIN listing
        /\ listing'[l] = x
        /\ \A k \in DOMAIN listing : k # l => listing'[k] = listing[k]
    <2> HIDE DEF x
    <2> QED  BY <1>1, <1>4, <1>5, UpdateFacts
  <1>7. reading' \subseteq Rule
    BY <1>1, <1>2 DEF TypeOK, Rule
  <1>8. TypeOK'
    BY <1>1, <1>5, <1>6, <1>7 DEF TypeOK, dirVars, filterVars
  <1>9. Distinct' /\ NoneLost' /\ OneSpy' /\ RulesAlive'
    BY <1>5, FiltersAlone
  <1>10. PausedOnlyWhileListing'
    <2> HIDE DEF x
    <2> QED  BY <1>4, <1>5, <1>6 DEF ReloadInv, PausedOnlyWhileListing, Live, filterVars
  <1> QED  BY <1>8, <1>9, <1>10 DEF ReloadInv

(***************************************************************************)
(* filter_load_done takes as many heads as it frees filters.  If one of    *)
(* these heads goes on spying, one of the freed filters is not among them. *)
(***************************************************************************)
LEMMA EmptiedFacts ==
  ASSUME ReloadInv
  PROVE  /\ Cardinality(Emptied) \in Nat /\ Cardinality(Emptied) <= Len(filters)
         /\ \A p \in 1..Cardinality(Emptied) :
              p \notin Emptied => \E q \in Emptied : q > Cardinality(Emptied)
  <1> DEFINE k == Cardinality(Emptied)
  <1>1. Emptied \subseteq 1..Len(filters) /\ Len(filters) \in Nat
    BY TypeFacts DEF ReloadInv, Emptied
  <1>2. IsFiniteSet(1..Len(filters)) /\ Cardinality(1..Len(filters)) = Len(filters)
    BY <1>1, FS_Interval
  <1>3. IsFiniteSet(Emptied) /\ k <= Len(filters)
    BY <1>1, <1>2, FS_Subset
  <1>4. k \in Nat
    BY <1>3, FS_CardinalityType
  <1>5. ASSUME NEW p \in 1..k, p \notin Emptied, \A q \in Emptied : ~(q > k)
        PROVE  FALSE
    <2>1. IsFiniteSet(1..k) /\ Cardinality(1..k) = k
      BY <1>4, FS_Interval
    <2>2. Emptied \subseteq (1..k) \ {p}
      <3> HIDE DEF k
      <3> QED  BY <1>1, <1>4, <1>5
    <2>3. IsFiniteSet((1..k) \ {p}) /\ Cardinality((1..k) \ {p}) = k - 1
      <3> HIDE DEF k
      <3> QED  BY <2>1, FS_RemoveElement
    <2>4. k <= k - 1
      <3>1. Cardinality(Emptied) <= Cardinality((1..k) \ {p})
        BY <2>2, <2>3, FS_Subset
      <3> QED  BY <2>3, <3>1
    <2> HIDE DEF k
    <2> QED  BY <1>4, <2>4
  <1> QED  BY <1>3, <1>4, <1>5

LEMMA FilterLoadDoneFacts ==
  ASSUME ReloadInv, AllListedLive, FilterLoadDone
  PROVE  /\ filter' \in Seq(Filter) /\ DOMAIN filter' = DOMAIN filter
         /\ filters' \in Seq(DOMAIN filter') /\ Listed' \subseteq Listed
         /\ Distinct' /\ NoneLost' /\ OneSpy' /\ (OnePerFile => OnePerFile')
         /\ \A n \in DOMAIN filter : Live(n)' => Live(n) /\ ~filter'[n].pause
         /\ \A n \in DOMAIN filter :
              /\ filter'[n].file = filter[n].file /\ filter'[n].rules = filter[n].rules
              /\ Live(n) /\ filter[n].rules # {} => Live(n)'
  <1> DEFINE k == Cardinality(Emptied)
  <1>1. /\ TypeOK /\ Distinct
        /\ \A n \in DOMAIN filter : Live(n) => n \in Listed
    BY DEF ReloadInv, NoneLost
  <1>2. /\ k \in Nat /\ k <= Len(filters)
        /\ \A p \in 1..k : p \notin Emptied => \E q \in Emptied : q > k
    BY EmptiedFacts
  <1>3. /\ filter' = [n \in DOMAIN filter |-> filter'[n]]
        /\ DOMAIN filter' = DOMAIN filter
        /\ filters' = SubSeq(filters, k + 1, Len(filters))
        /\ \A n \in DOMAIN filter : filter'[n] =
             IF n \notin Listed THEN filter[n]
             ELSE IF filter[n].rules = {} THEN [filter[n] EXCEPT !.live = FALSE]
             ELSE [filter[n] EXCEPT !.pause = FALSE]
    BY DEF FilterLoadDone, Resumed
  <1>4. \A n \in DOMAIN filter :
          /\ filter'[n] \in Filter
          /\ filter'[n].file = filter[n].file /\ filter'[n].rules = filter[n].rules
          /\ Live(n)' => Live(n) /\ ~filter'[n].pause /\ n \in Listed /\ filter[n].rules # {}
          /\ n \in Listed /\ filter[n].rules = {} => ~Live(n)'
          /\ Live(n) /\ filter[n].rules # {} => Live(n)'
    <2> SUFFICES ASSUME NEW n \in DOMAIN filter
                 PROVE  /\ filter'[n] \in Filter
                        /\ filter'[n].file = filter[n].file
                        /\ filter'[n].rules = filter[n].rules
                        /\ filter'[n].live =>
                             /\ filter[n].live /\ ~filter'[n].pause
                             /\ n \in Listed /\ filter[n].rules # {}
                        /\ n \in Listed /\ filter[n].rules = {} => ~filter'[n].live
                        /\ filter[n].live /\ filter[n].rules # {} => filter'[n].live
      BY DEF Live
    <2>1. filter[n] \in Filter /\ (filter[n].live => n \in Listed)
      BY <1>1, TypeFacts DEF Live
    <2>2. CASE n \notin Listed
      BY <1>3, <2>1, <2>2
    <2>3. CASE n \in Listed /\ filter[n].rules = {}
      <3>1. filter'[n] = [filter[n] EXCEPT !.live = FALSE]
        BY <1>3, <2>3
      <3> QED  BY <2>1, <2>3, <3>1 DEF Filter
    <2>4. CASE n \in Listed /\ filter[n].rules # {}
      <3>1. filter'[n] = [filter[n] EXCEPT !.pause = FALSE]
        BY <1>3, <2>4
      <3>2. filter[n].live
        BY <2>4 DEF AllListedLive, Live
      <3> QED  BY <2>1, <2>4, <3>1, <3>2 DEF Filter
    <2> QED  BY <2>2, <2>3, <2>4
  <1>5. filter' \in Seq(Filter)
    BY <1>1, <1>3, <1>4, TypeFacts, MapFacts
  <1>6. /\ Len(filters) \in Nat /\ DOMAIN filters = 1..Len(filters)
        /\ \A i \in DOMAIN filters : filters[i] \in DOMAIN filter
        /\ filters \in Seq(DOMAIN filter)
    BY <1>1, TypeFacts
  <1>7. /\ filters' \in Seq(DOMAIN filter)
        /\ DOMAIN filters' = 1..(Len(filters) - k)
        /\ \A i \in DOMAIN filters' : i + k \in DOMAIN filters /\ filters'[i] = filters[i + k]
    <2> HIDE DEF k
    <2>1. \A i \in (k + 1)..Len(filters) : filters[i] \in DOMAIN filter
      BY <1>2, <1>6
    <2>2. /\ filters' = [i \in 1..(Len(filters) - k) |-> filters[i + k]]
          /\ Len(filters) - k \in Nat
      BY <1>2, <1>3, <1>6
    <2>3. ASSUME NEW i \in 1..(Len(filters) - k)
          PROVE  i + k \in DOMAIN filters /\ filters[i + k] \in DOMAIN filter
      <3>1. i + k \in 1..Len(filters)
        BY <1>2, <1>6
      <3> QED  BY <1>6, <3>1
    <2>4. DOMAIN filters' = 1..(Len(filters) - k)
      BY <2>2
    <2>5. \A i \in DOMAIN filters' : filters'[i] = filters[i + k]
      BY <2>2
    <2>6. filters' \in [1..(Len(filters) - k) -> DOMAIN filter]
      BY <2>2, <2>3
    <2>7. filters' \in Seq(DOMAIN filter)
      BY <2>2, <2>6
    <2> QED  BY <2>3, <2>4, <2>5, <2>7
  <1>8. Listed' \subseteq Listed
    BY <1>7 DEF Listed
  <1>9. Distinct'
    <2> SUFFICES ASSUME NEW i \in DOMAIN filters', NEW j \in DOMAIN filters',
                        filters'[i] = filters'[j]
                 PROVE  i = j
      BY DEF Distinct
    <2>1. i + k = j + k
      <3> HIDE DEF k
      <3> QED  BY <1>1, <1>7 DEF Distinct
    <2> HIDE DEF k
    <2> QED  BY <1>2, <1>6, <1>7, <2>1
  <1>10. ASSUME AllListedLive', NEW n \in DOMAIN filter', Live(n)'
         PROVE  n \in Listed'
    <2>1. n \in Listed /\ filter[n].rules # {}
      BY <1>3, <1>4, <1>10
    <2>2. PICK p \in DOMAIN filters : filters[p] = n
      BY <2>1 DEF Listed
    <2>3. p \notin Emptied
      BY <2>1, <2>2 DEF Emptied
    <2>4. CASE p > k
      <3> HIDE DEF k
      <3>1. p - k \in DOMAIN filters' /\ (p - k) + k = p
        BY <1>2, <1>6, <1>7, <2>4
      <3>2. filters'[p - k] = filters[p]
        BY <1>7, <3>1
      <3> QED  BY <2>2, <3>1, <3>2 DEF Listed
    <2>5. CASE ~(p > k)
      <3>1. PICK q \in Emptied : q > k
        <4> HIDE DEF k
        <4> QED  BY <1>2, <1>6, <2>3, <2>5
      <3>2. q \in DOMAIN filters /\ filter[filters[q]].rules = {}
        BY DEF Emptied
      <3>3. PICK m \in DOMAIN filter : m = filters[q]
        BY <1>6, <3>2
      <3>4. m \in Listed'
        <4> HIDE DEF k
        <4>1. q - k \in DOMAIN filters' /\ (q - k) + k = q
          BY <1>2, <1>6, <1>7, <3>1, <3>2
        <4>2. filters'[q - k] = filters[q]
          BY <1>7, <4>1
        <4> QED  BY <3>3, <4>1, <4>2 DEF Listed
      <3>5. ~Live(m)'
        BY <1>4, <3>2, <3>3 DEF Listed
      <3>6. Live(m)'
        BY <1>10, <3>4 DEF AllListedLive
      <3> QED  BY <3>5, <3>6
    <2> QED  BY <2>4, <2>5
  <1>11. OneSpy'
    BY <1>3, <1>4 DEF ReloadInv, OneSpy, Live
  <1>12. ASSUME OnePerFile  PROVE OnePerFile'
    <2> SUFFICES ASSUME NEW i \in DOMAIN filters', NEW j \in DOMAIN filters',
                        filter'[filters'[i]].file = filter'[filters'[j]].file
                 PROVE  i = j
      BY DEF OnePerFile
    <2>1. i + k = j + k
      <3> HIDE DEF k
      <3>1. /\ i + k \in DOMAIN filters /\ filters'[i] = filters[i + k]
            /\ j + k \in DOMAIN filters /\ filters'[j] = filters[j + k]
        BY <1>7
      <3>2. filter[filters[i + k]].file = filter[filters[j + k]].file
        BY <1>4, <1>6, <3>1
      <3> QED  BY <1>12, <3>1, <3>2 DEF OnePerFile
    <2> HIDE DEF k
    <2> QED  BY <1>2, <1>6, <1>7, <2>1
  <1> QED  BY <1>3, <1>4, <1>5, <1>7, <1>8, <1>9, <1>10, <1>11, <1>12 DEF NoneLost

LEMMA RulesLoadLsDoneStep ==
  ASSUME ReloadInv, NEW l \in DOMAIN listing, RulesLoadLsDone(l)
  PROVE  ReloadInv'
  <1>1. CASE DoneUsesFreed
    BY <1>1, UseAfterFreeStep DEF RulesLoadLsDone
  <1>2. CASE ~DoneUsesFreed
    <2> DEFINE x == [listing[l] EXCEPT !.stage = "over"]
    <2>1. /\ TypeOK /\ AllListedLive /\ FilterLoadDone
          /\ listing' = [listing EXCEPT ![l] = x]
          /\ UNCHANGED <<dirVars, reading, rules, quit, undefined>>
      BY <1>2 DEF RulesLoadLsDone, ReloadInv, DoneUsesFreed, AllListedLive
    <2>2. x \in Listings
      <3>1. listing[l] \in Listings
        BY <2>1, TypeFacts
      <3> QED  BY <3>1 DEF Listings
    <2>3. listing' \in Seq(Listings)
      <3> HIDE DEF x
      <3> QED  BY <2>1, <2>2, UpdateFacts
    <2>4. /\ filter' \in Seq(Filter) /\ DOMAIN filter' = DOMAIN filter
          /\ filters' \in Seq(DOMAIN filter') /\ Listed' \subseteq Listed
          /\ Distinct' /\ NoneLost' /\ OneSpy'
          /\ \A n \in DOMAIN filter : Live(n)' => Live(n) /\ ~filter'[n].pause
          /\ \A n \in DOMAIN filter : filter'[n].rules = filter[n].rules
      BY <2>1, FilterLoadDoneFacts
    <2>5. TypeOK'
      BY <2>1, <2>3, <2>4 DEF TypeOK, dirVars
    <2>6. PausedOnlyWhileListing'
      BY <2>4 DEF PausedOnlyWhileListing
    <2>7. RulesAlive'
      BY <2>1, <2>4 DEF ReloadInv, RulesAlive
    <2> QED  BY <2>4, <2>5, <2>6, <2>7 DEF ReloadInv
  <1> QED  BY <1>1, <1>2

LEMMA RulesLoadLsErrorStep ==
  ASSUME ReloadInv, NEW l \in DOMAIN listing, RulesLoadLsError(l)
  PROVE  ReloadInv'
  <1> DEFINE x == [listing[l] EXCEPT !.stage = "over"]
  <1>1. /\ TypeOK /\ quit' = TRUE
        /\ listing' = [listing EXCEPT ![l] = x]
        /\ UNCHANGED <<dirVars, reading, rules, filterVars, undefined>>
    BY DEF RulesLoadLsError, ReloadInv
  <1>2. x \in Listings
    <2>1. listing[l] \in Listings
      BY <1>1, TypeFacts
    <2> QED  BY <2>1 DEF Listings
  <1>3. listing' \in Seq(Listings)
    <2> HIDE DEF x
    <2> QED  BY <1>1, <1>2, UpdateFacts
  <1>4. TypeOK'
    BY <1>1, <1>3 DEF TypeOK, dirVars, filterVars
  <1>5. Distinct' /\ NoneLost' /\ OneSpy' /\ RulesAlive'
    BY <1>1, FiltersAlone
  <1>6. PausedOnlyWhileListing'
    BY <1>1 DEF PausedOnlyWhileListing
  <1> QED  BY <1>4, <1>5, <1>6 DEF ReloadInv

-----------------------------------------------------------------------------
(***************************************************************************)
(* The Rule_Loads.                                                         *)
(***************************************************************************)
LEMMA NoRuleStep ==
  ASSUME ReloadInv, NEW rule \in reading, DropRule(rule) \/ RulesLoadRuleError(rule)
  PROVE  ReloadInv'
  <1>1. /\ reading' \subseteq reading /\ quit' \in BOOLEAN /\ (quit => quit')
        /\ UNCHANGED <<dirVars, listing, rules, filterVars, undefined>>
    BY DEF ReloadInv, TypeOK, DropRule, RulesLoadRuleError
  <1>2. TypeOK'
    BY <1>1 DEF ReloadInv, TypeOK, dirVars, filterVars
  <1>3. Distinct' /\ NoneLost' /\ OneSpy' /\ RulesAlive'
    BY <1>1, FiltersAlone
  <1>4. PausedOnlyWhileListing'
    BY <1>1 DEF ReloadInv, PausedOnlyWhileListing, Live, filterVars
  <1> QED  BY <1>2, <1>3, <1>4 DEF ReloadInv

\* filter_load makes exactly one filter of each path that needs one.
LEMMA GlobOrderFacts ==
  ASSUME NEW S \in SUBSET Nat, IsFiniteSet(S), NEW s \in InGlobOrder(S)
  PROVE  /\ s \in Seq(S) /\ DOMAIN s = 1..Len(s) /\ Len(s) \in Nat
         /\ \A i, j \in DOMAIN s : s[i] = s[j] => i = j
         /\ \A x \in S : \E i \in DOMAIN s : s[i] = x
  <1>1. Cardinality(S) \in Nat
    BY FS_CardinalityType
  <1>2. /\ s \in [1..Cardinality(S) -> S]
        /\ \A i, j \in DOMAIN s : i < j => s[i] < s[j]
    BY DEF InGlobOrder
  <1>3. s \in Seq(S) /\ DOMAIN s = 1..Len(s) /\ Len(s) \in Nat
    BY <1>1, <1>2
  <1>4. ASSUME NEW i \in DOMAIN s, NEW j \in DOMAIN s, s[i] = s[j]
        PROVE  i = j
    <2>1. s[i] \in S /\ s[j] \in S
      <3>1. i \in 1..Cardinality(S) /\ j \in 1..Cardinality(S)
        BY <1>2
      <3> QED  BY <1>2, <3>1
    <2>2. s[i] \in Nat /\ s[j] \in Nat
      BY <2>1
    <2>3. i \in Nat /\ j \in Nat
      BY <1>3
    <2> QED  BY <1>2, <1>4, <2>2, <2>3
  <1>5. \A x \in S : \E i \in DOMAIN s : s[i] = x
    <2>1. s \in Injection(1..Cardinality(S), S)
      BY <1>2, <1>4 DEF Injection, IsInjective
    <2>2. Cardinality(1..Cardinality(S)) = Cardinality(S)
      BY <1>1, FS_Interval
    <2>3. s \in Surjection(1..Cardinality(S), S)
      BY <2>1, <2>2, FS_Injection
    <2> QED  BY <1>2, <2>3 DEF Surjection
  <1> QED  BY <1>3, <1>4, <1>5

(***************************************************************************)
(* What filter_load makes of the filters: the old ones keep their number,  *)
(* file and pause, and gain the Rule if it names their file and they are   *)
(* in the list; the new ones are of the files that had none there.         *)
(***************************************************************************)
LEMMA FilterLoadFacts ==
  ASSUME TypeOK, NEW rule \in Rule, FilterLoad(rule)
  PROVE  \E s \in Seq(LogFile) :
           /\ Len(s) \in Nat /\ DOMAIN s = 1..Len(s)
           /\ \A i, j \in DOMAIN s : s[i] = s[j] => i = j
           /\ \A i \in DOMAIN s : s[i] \in Glob[rule.file] \ Unreadable /\ FilterOf(s[i]) = {}
           /\ \A f \in Glob[rule.file] \ Unreadable :
                FilterOf(f) = {} => \E i \in DOMAIN s : s[i] = f
           /\ filter' \in Seq(Filter) /\ DOMAIN filter' = 1..(Len(filter) + Len(s))
           /\ \A n \in DOMAIN filter :
                /\ filter'[n].file = filter[n].file
                /\ filter'[n].live = filter[n].live
                /\ filter'[n].pause = filter[n].pause
                /\ filter'[n].rules \subseteq filter[n].rules \cup {rule}
                /\ filter[n].rules \subseteq filter'[n].rules
                /\ \A f \in Glob[rule.file] : n \in FilterOf(f) => rule \in filter'[n].rules
           /\ \A i \in DOMAIN s : filter'[Len(filter) + i] = NewFilter(s[i], rule)
           /\ filters' \in Seq(DOMAIN filter') /\ DOMAIN filters' = 1..(Len(filters) + Len(s))
           /\ \A i \in DOMAIN filters : filters'[i] = filters[i]
           /\ \A i \in DOMAIN s : filters'[Len(filters) + i] = Len(filter) + i
  <1> DEFINE new == {f \in Glob[rule.file] \ Unreadable : FilterOf(f) = {}}
             found == UNION {FilterOf(f) : f \in Glob[rule.file]}
             old == [n \in DOMAIN filter |->
                       IF n \in found THEN [filter[n] EXCEPT !.rules = @ \cup {rule}]
                       ELSE filter[n]]
  <1>1. PICK s \in InGlobOrder(new) :
           /\ filter' = old \o [i \in DOMAIN s |-> NewFilter(s[i], rule)]
           /\ filters' = filters \o [i \in DOMAIN s |-> Len(filter) + i]
    BY DEF FilterLoad
  <1> DEFINE made == [i \in DOMAIN s |-> NewFilter(s[i], rule)]
             numbers == [i \in DOMAIN s |-> Len(filter) + i]
  <1>2. Glob[rule.file] \subseteq LogFile
    BY ReloadAssumption DEF Rule
  <1>3. new \in SUBSET LogFile /\ new \in SUBSET Nat /\ IsFiniteSet(new)
    <2>1. new \in SUBSET LogFile
      BY <1>2
    <2> HIDE DEF new
    <2> QED  BY <2>1, ReloadAssumption, FS_Subset
  <1>4. /\ s \in Seq(new) /\ DOMAIN s = 1..Len(s) /\ Len(s) \in Nat
        /\ \A i, j \in DOMAIN s : s[i] = s[j] => i = j
        /\ \A f \in new : \E i \in DOMAIN s : s[i] = f
    <2> HIDE DEF new
    <2> QED  BY <1>3, GlobOrderFacts
  <1>5. \A i \in DOMAIN s : s[i] \in new
    <2> HIDE DEF new
    <2> QED  BY <1>4
  <1>6. s \in Seq(LogFile)
    <2> HIDE DEF new
    <2>1. \A i \in 1..Len(s) : s[i] \in LogFile
      BY <1>3, <1>4, <1>5
    <2>2. s = [i \in 1..Len(s) |-> s[i]]
      BY <1>4
    <2>3. s \in [1..Len(s) -> LogFile]
      BY <2>1, <2>2
    <2> QED  BY <1>4, <2>3
  <1>7. /\ filter \in Seq(Filter) /\ Len(filter) \in Nat /\ DOMAIN filter = 1..Len(filter)
        /\ filters \in Seq(DOMAIN filter) /\ Len(filters) \in Nat
        /\ DOMAIN filters = 1..Len(filters)
    BY TypeFacts
  <1>8. \A n \in DOMAIN filter :
          /\ old[n] \in Filter
          /\ old[n].file = filter[n].file /\ old[n].live = filter[n].live
          /\ old[n].pause = filter[n].pause
          /\ old[n].rules \subseteq filter[n].rules \cup {rule}
          /\ filter[n].rules \subseteq old[n].rules
          /\ \A f \in Glob[rule.file] : n \in FilterOf(f) => rule \in old[n].rules
    <2> TAKE n \in DOMAIN filter
    <2>1. filter[n] \in Filter
      BY TypeFacts
    <2>2. CASE n \in found
      <3>1. old[n] = [filter[n] EXCEPT !.rules = @ \cup {rule}]
        BY <2>2
      <3> HIDE DEF old, found
      <3> QED  BY <2>1, <3>1 DEF Filter
    <2>3. CASE n \notin found
      <3>1. old[n] = filter[n]
        BY <2>3
      <3>2. \A f \in Glob[rule.file] : n \notin FilterOf(f)
        BY <2>3
      <3> HIDE DEF old, found
      <3> QED  BY <2>1, <3>1, <3>2
    <2> QED  BY <2>2, <2>3
  <1>9. old \in Seq(Filter) /\ Len(old) = Len(filter)
    <2>1. DOMAIN old = DOMAIN filter /\ old = [n \in DOMAIN filter |-> old[n]]
      OBVIOUS
    <2> HIDE DEF old
    <2> QED  BY <1>7, <1>8, <2>1, MapFacts
  <1>10. \A i \in DOMAIN s : made[i] = NewFilter(s[i], rule) /\ made[i] \in Filter
    <2> TAKE i \in DOMAIN s
    <2>1. s[i] \in LogFile
      <3> HIDE DEF new
      <3> QED  BY <1>3, <1>5
    <2> QED  BY <2>1 DEF NewFilter, Filter
  <1>11. made \in Seq(Filter) /\ Len(made) = Len(s)
    <2>1. DOMAIN made = DOMAIN s /\ made = [i \in DOMAIN s |-> made[i]]
      OBVIOUS
    <2> HIDE DEF made
    <2> QED  BY <1>6, <1>10, <2>1, MapFacts
  <1>12. numbers \in Seq(1..(Len(filter) + Len(s))) /\ Len(numbers) = Len(s)
         /\ \A i \in DOMAIN s : numbers[i] = Len(filter) + i
    <2>1. /\ DOMAIN numbers = DOMAIN s /\ numbers = [i \in DOMAIN s |-> numbers[i]]
          /\ \A i \in DOMAIN s : numbers[i] = Len(filter) + i
      OBVIOUS
    <2> HIDE DEF numbers
    <2>2. \A i \in DOMAIN s : numbers[i] \in 1..(Len(filter) + Len(s))
      BY <1>4, <1>7, <2>1
    <2> QED  BY <1>6, <2>1, <2>2, MapFacts
  <1>13. /\ filter' \in Seq(Filter) /\ DOMAIN filter' = 1..(Len(filter) + Len(s))
         /\ \A n \in DOMAIN filter : filter'[n] = old[n]
         /\ \A i \in DOMAIN s : filter'[Len(filter) + i] = made[i]
    <2>1. filter' = old \o made
      BY <1>1
    <2> HIDE DEF old, made
    <2>2. /\ old \o made \in Seq(Filter)
          /\ DOMAIN (old \o made) = 1..(Len(old) + Len(made))
          /\ \A i \in 1..Len(old) : (old \o made)[i] = old[i]
          /\ \A i \in 1..Len(made) : (old \o made)[Len(old) + i] = made[i]
      <3>1. old \in Seq(Filter) /\ made \in Seq(Filter)
        BY <1>9, <1>11
      <3> QED  BY <3>1, ConcatFacts
    <2>3. 1..Len(old) = DOMAIN filter /\ 1..Len(made) = DOMAIN s
      <3>1. Len(old) = Len(filter) /\ Len(made) = Len(s)
        BY <1>9, <1>11
      <3>2. DOMAIN filter = 1..Len(filter) /\ DOMAIN s = 1..Len(s)
        BY <1>4, <1>7
      <3> QED  BY Zenon, <3>1, <3>2
    <2>4. filter' \in Seq(Filter) /\ DOMAIN filter' = 1..(Len(filter) + Len(s))
      BY <1>9, <1>11, <2>1, <2>2
    <2>5. \A n \in DOMAIN filter : filter'[n] = old[n]
      BY <2>1, <2>2, <2>3
    <2>6. \A i \in DOMAIN s : filter'[Len(filter) + i] = made[i]
      BY <1>9, <2>1, <2>2, <2>3
    <2> QED  BY <2>4, <2>5, <2>6
  <1>14. filters \in Seq(1..(Len(filter) + Len(s)))
    BY <1>4, <1>7
  <1>15. /\ filters' \in Seq(DOMAIN filter') /\ DOMAIN filters' = 1..(Len(filters) + Len(s))
         /\ \A i \in DOMAIN filters : filters'[i] = filters[i]
         /\ \A i \in DOMAIN s : filters'[Len(filters) + i] = numbers[i]
    <2>1. filters' = filters \o numbers
      BY <1>1
    <2> HIDE DEF numbers
    <2>2. /\ filters \o numbers \in Seq(1..(Len(filter) + Len(s)))
          /\ DOMAIN (filters \o numbers) = 1..(Len(filters) + Len(numbers))
          /\ \A i \in 1..Len(filters) : (filters \o numbers)[i] = filters[i]
          /\ \A i \in 1..Len(numbers) : (filters \o numbers)[Len(filters) + i] = numbers[i]
      <3> DEFINE T == 1..(Len(filter) + Len(s))
      <3>1. filters \in Seq(T) /\ numbers \in Seq(T)
        BY <1>12, <1>14
      <3>2. filters \o numbers \in Seq(T)
        <4> HIDE DEF T
        <4> QED  BY <3>1, ConcatFacts
      <3>3. /\ DOMAIN (filters \o numbers) = 1..(Len(filters) + Len(numbers))
            /\ \A i \in 1..Len(filters) : (filters \o numbers)[i] = filters[i]
            /\ \A i \in 1..Len(numbers) : (filters \o numbers)[Len(filters) + i] = numbers[i]
        <4> HIDE DEF T
        <4> QED  BY <3>1, ConcatFacts
      <3> QED  BY <3>2, <3>3
    <2>3. 1..Len(filters) = DOMAIN filters /\ 1..Len(numbers) = DOMAIN s
      <3>1. Len(numbers) = Len(s)
        BY <1>12
      <3>2. DOMAIN filters = 1..Len(filters) /\ DOMAIN s = 1..Len(s)
        BY <1>4, <1>7
      <3> QED  BY Zenon, <3>1, <3>2
    <2>4. /\ filters' \in Seq(DOMAIN filter')
          /\ DOMAIN filters' = 1..(Len(filters) + Len(s))
      BY <1>12, <1>13, <2>1, <2>2
    <2>5. \A i \in DOMAIN filters : filters'[i] = filters[i]
      BY <2>1, <2>2, <2>3
    <2>6. \A i \in DOMAIN s : filters'[Len(filters) + i] = numbers[i]
      BY <2>1, <2>2, <2>3
    <2> QED  BY <2>4, <2>5, <2>6
  <1> QED
    <2>1. /\ \A i \in DOMAIN s : s[i] \in Glob[rule.file] \ Unreadable /\ FilterOf(s[i]) = {}
          /\ \A f \in Glob[rule.file] \ Unreadable :
               FilterOf(f) = {} => \E i \in DOMAIN s : s[i] = f
      BY <1>4, <1>5
    <2>2. WITNESS s \in Seq(LogFile)
    <2> HIDE DEF new, old, made, numbers
    <2> QED  BY <1>4, <1>6, <1>8, <1>10, <1>12, <1>13, <1>15, <2>1

LEMMA RulesLoadRuleStep ==
  ASSUME ReloadInv, NEW rule \in reading, RulesLoadRule(rule)
  PROVE  ReloadInv'
  <1>1. CASE \E f \in Glob[rule.file] : FindUsesFreed(f)
    BY <1>1, UseAfterFreeStep DEF RulesLoadRule
  <1>2. CASE \A f \in Glob[rule.file] : ~FindUsesFreed(f)
    <2>1. /\ TypeOK /\ Distinct /\ NoneLost /\ OneSpy /\ RulesAlive
          /\ rule \in Rule /\ FilterLoad(rule)
          /\ reading' = reading \ {rule} /\ rules' = rules \cup {rule}
          /\ UNCHANGED <<dirVars, listing, quit, undefined>>
      BY <1>2 DEF RulesLoadRule, ReloadInv, TypeOK
    <2>2. /\ Len(filter) \in Nat /\ DOMAIN filter = 1..Len(filter)
          /\ Len(filters) \in Nat /\ DOMAIN filters = 1..Len(filters)
          /\ \A i \in DOMAIN filters : filters[i] \in DOMAIN filter
      BY <2>1, TypeFacts
    <2>3. PICK s \in Seq(LogFile) :
           /\ Len(s) \in Nat /\ DOMAIN s = 1..Len(s)
           /\ \A i, j \in DOMAIN s : s[i] = s[j] => i = j
           /\ \A i \in DOMAIN s : s[i] \in Glob[rule.file] \ Unreadable /\ FilterOf(s[i]) = {}
           /\ \A f \in Glob[rule.file] \ Unreadable :
                FilterOf(f) = {} => \E i \in DOMAIN s : s[i] = f
           /\ filter' \in Seq(Filter) /\ DOMAIN filter' = 1..(Len(filter) + Len(s))
           /\ \A n \in DOMAIN filter :
                /\ filter'[n].file = filter[n].file
                /\ filter'[n].live = filter[n].live
                /\ filter'[n].pause = filter[n].pause
                /\ filter'[n].rules \subseteq filter[n].rules \cup {rule}
                /\ filter[n].rules \subseteq filter'[n].rules
                /\ \A f \in Glob[rule.file] : n \in FilterOf(f) => rule \in filter'[n].rules
           /\ \A i \in DOMAIN s : filter'[Len(filter) + i] = NewFilter(s[i], rule)
           /\ filters' \in Seq(DOMAIN filter') /\ DOMAIN filters' = 1..(Len(filters) + Len(s))
           /\ \A i \in DOMAIN filters : filters'[i] = filters[i]
           /\ \A i \in DOMAIN s : filters'[Len(filters) + i] = Len(filter) + i
      BY <2>1, FilterLoadFacts
    <2>4. \A i \in DOMAIN s :
            /\ filter'[Len(filter) + i].file = s[i] /\ filter'[Len(filter) + i].live
            /\ ~filter'[Len(filter) + i].pause /\ filter'[Len(filter) + i].rules = {rule}
      <3> TAKE i \in DOMAIN s
      <3>1. filter'[Len(filter) + i] = NewFilter(s[i], rule)
        BY <2>3
      <3> QED  BY <3>1 DEF NewFilter
    <2>5. ASSUME NEW n \in DOMAIN filter', n \notin DOMAIN filter
          PROVE  \E i \in DOMAIN s : n = Len(filter) + i
      <3>1. n - Len(filter) \in DOMAIN s /\ n = Len(filter) + (n - Len(filter))
        BY <2>2, <2>3, <2>5
      <3> QED  BY <3>1
    <2>6. ASSUME NEW j \in DOMAIN filters', j \notin DOMAIN filters
          PROVE  \E i \in DOMAIN s : j = Len(filters) + i /\ filters'[j] = Len(filter) + i
      <3>1. j - Len(filters) \in DOMAIN s /\ j = Len(filters) + (j - Len(filters))
        BY <2>2, <2>3, <2>6
      <3> QED  BY <2>3, <3>1
    <2>7. \A i \in DOMAIN s : /\ Len(filter) + i \notin DOMAIN filter
                              /\ Len(filters) + i \in DOMAIN filters'
      <3> TAKE i \in DOMAIN s
      <3>1. i \in Nat /\ 1 <= i /\ i <= Len(s) /\ Len(s) \in Nat
        BY <2>3
      <3>2. Len(filter) + i \notin 1..Len(filter)
        BY <2>2, <3>1
      <3>3. Len(filters) + i \in 1..(Len(filters) + Len(s))
        BY <2>2, <3>1
      <3> QED  BY <2>2, <2>3, <3>2, <3>3
    <2>8. DOMAIN filter \subseteq DOMAIN filter' /\ DOMAIN filters \subseteq DOMAIN filters'
      BY <2>2, <2>3
    <2>9. ASSUME NEW i \in DOMAIN s
          PROVE  AllListedLive
      <3>1. \A j \in DOMAIN filters : filter[filters[j]].file # s[i]
        BY <2>3 DEF FilterOf, Listed
      <3>2. ASSUME NEW n \in Listed, ~Live(n)  PROVE FALSE
        <4>1. PICK p \in DOMAIN filters : filters[p] = n
          BY DEF Listed
        <4>2. \A j \in 1..(p - 1) : filter[filters[j]].file # s[i]
          BY <2>2, <3>1
        <4> QED  BY <1>2, <2>3, <3>2, <4>1, <4>2 DEF FindUsesFreed
      <3> QED  BY <3>2 DEF AllListedLive
    <2>10. ASSUME NEW i \in DOMAIN s, NEW n \in DOMAIN filter, Live(n)
           PROVE  filter[n].file # s[i]
      <3>1. n \in Listed
        BY <2>1, <2>9, <2>10 DEF NoneLost
      <3> QED  BY <2>3, <3>1 DEF FilterOf
    <2>11. TypeOK'
      BY <2>1, <2>3 DEF TypeOK, dirVars
    <2>12. Distinct'
      <3> SUFFICES ASSUME NEW i \in DOMAIN filters', NEW j \in DOMAIN filters',
                          filters'[i] = filters'[j]
                   PROVE  i = j
        BY DEF Distinct
      <3>1. CASE i \in DOMAIN filters /\ j \in DOMAIN filters
        BY <2>1, <2>3, <3>1 DEF Distinct
      <3>2. CASE i \in DOMAIN filters /\ j \notin DOMAIN filters
        BY <2>2, <2>3, <2>6, <2>7, <3>2
      <3>3. CASE i \notin DOMAIN filters /\ j \in DOMAIN filters
        BY <2>2, <2>3, <2>6, <2>7, <3>3
      <3>4. CASE i \notin DOMAIN filters /\ j \notin DOMAIN filters
        <4>1. PICK a \in DOMAIN s : i = Len(filters) + a /\ filters'[i] = Len(filter) + a
          BY <2>6, <3>4
        <4>2. PICK b \in DOMAIN s : j = Len(filters) + b /\ filters'[j] = Len(filter) + b
          BY <2>6, <3>4
        <4>3. a \in Nat /\ b \in Nat
          BY <2>3
        <4> QED  BY <2>2, <4>1, <4>2, <4>3
      <3> QED  BY <3>1, <3>2, <3>3, <3>4
    <2>13. Listed \subseteq Listed'
      BY <2>3, <2>8 DEF Listed
    <2>14. ASSUME AllListedLive', NEW n \in DOMAIN filter', Live(n)'
           PROVE  n \in Listed'
      <3>1. AllListedLive
        <4> SUFFICES ASSUME NEW m \in Listed  PROVE Live(m)
          BY DEF AllListedLive
        <4>1. Live(m)' /\ m \in DOMAIN filter
          BY <2>2, <2>13, <2>14 DEF AllListedLive, Listed
        <4> QED  BY <2>3, <4>1 DEF Live
      <3>2. CASE n \in DOMAIN filter
        BY <2>1, <2>3, <2>13, <2>14, <3>1, <3>2 DEF NoneLost, Live
      <3>3. CASE n \notin DOMAIN filter
        BY <2>3, <2>5, <2>7, <3>3 DEF Listed
      <3> QED  BY <3>2, <3>3
    <2>15. OneSpy'
      <3> SUFFICES ASSUME NEW m \in DOMAIN filter', NEW n \in DOMAIN filter',
                          Live(m)', Live(n)', filter'[m].file = filter'[n].file
                   PROVE  m = n
        BY DEF OneSpy
      <3>1. CASE m \in DOMAIN filter /\ n \in DOMAIN filter
        BY <2>1, <2>3, <3>1 DEF OneSpy, Live
      <3>2. CASE m \in DOMAIN filter /\ n \notin DOMAIN filter
        <4>1. PICK b \in DOMAIN s : n = Len(filter) + b
          BY <2>5, <3>2
        <4>2. Live(m) /\ filter[m].file = s[b]
          BY <2>3, <2>4, <3>2, <4>1 DEF Live
        <4> QED  BY <2>10, <3>2, <4>2
      <3>3. CASE m \notin DOMAIN filter /\ n \in DOMAIN filter
        <4>1. PICK b \in DOMAIN s : m = Len(filter) + b
          BY <2>5, <3>3
        <4>2. Live(n) /\ filter[n].file = s[b]
          BY <2>3, <2>4, <3>3, <4>1 DEF Live
        <4> QED  BY <2>10, <3>3, <4>2
      <3>4. CASE m \notin DOMAIN filter /\ n \notin DOMAIN filter
        <4>1. PICK a \in DOMAIN s : m = Len(filter) + a
          BY <2>5, <3>4
        <4>2. PICK b \in DOMAIN s : n = Len(filter) + b
          BY <2>5, <3>4
        <4>3. s[a] = s[b]
          BY <2>4, <4>1, <4>2
        <4>4. a = b
          BY <2>3, <4>3
        <4> QED  BY <4>1, <4>2, <4>4
      <3> QED  BY <3>1, <3>2, <3>3, <3>4
    <2>16. PausedOnlyWhileListing'
      <3> SUFFICES ASSUME NEW n \in DOMAIN filter', Live(n)', filter'[n].pause
                   PROVE  quit \/ \E l \in DOMAIN listing : listing[l].stage # "over"
        BY <2>1 DEF PausedOnlyWhileListing
      <3>1. n \in DOMAIN filter
        BY <2>4, <2>5
      <3> QED  BY <2>3, <3>1 DEF ReloadInv, PausedOnlyWhileListing, Live
    <2>17. RulesAlive'
      <3> SUFFICES ASSUME NEW n \in DOMAIN filter', Live(n)'
                   PROVE  filter'[n].rules \subseteq rules \cup {rule}
        BY <2>1 DEF RulesAlive
      <3>1. CASE n \in DOMAIN filter
        <4>1. filter[n].rules \subseteq rules
          BY <2>1, <2>3, <3>1 DEF RulesAlive, Live
        <4> QED  BY <2>3, <3>1, <4>1
      <3>2. CASE n \notin DOMAIN filter
        BY <2>4, <2>5, <3>2
      <3> QED  BY <3>1, <3>2
    <2> QED  BY <2>11, <2>12, <2>14, <2>15, <2>16, <2>17 DEF ReloadInv, NoneLost
  <1> QED  BY <1>1, <1>2

-----------------------------------------------------------------------------
(***************************************************************************)
(* SIGUSR1: every filter of the list is paused and emptied.  No filter     *)
(* outside of it goes on spying, so that no live filter keeps a rule.      *)
(***************************************************************************)
LEMMA FilterReloadStep == ReloadInv /\ FilterReload => ReloadInv'
  <1> SUFFICES ASSUME ReloadInv, FilterReload PROVE ReloadInv'  OBVIOUS
  <1>1. CASE \E n \in Listed : ~Live(n)
    BY <1>1, UseAfterFreeStep DEF FilterReload
  <1>2. CASE ~\E n \in Listed : ~Live(n)
    <2>1. /\ TypeOK /\ Distinct /\ NoneLost /\ OneSpy
          /\ filter' = [n \in DOMAIN filter |-> IF n \in Listed THEN Emptying(n) ELSE filter[n]]
          /\ rules' = {} /\ listing' = Append(listing, Asked)
          /\ UNCHANGED <<dirVars, reading, filters, quit, undefined>>
      BY <1>2 DEF FilterReload, ReloadInv
    <2>2. DOMAIN filter' = DOMAIN filter /\ filter' = [n \in DOMAIN filter |-> filter'[n]]
      BY <2>1
    <2>3. \A n \in DOMAIN filter :
            /\ filter'[n] \in Filter /\ filter'[n].file = filter[n].file
            /\ filter'[n].live = filter[n].live
            /\ n \in Listed => filter'[n].rules = {}
      <3> TAKE n \in DOMAIN filter
      <3>1. filter[n] \in Filter
        BY <2>1, TypeFacts
      <3>2. CASE n \in Listed
        <4>1. filter'[n] = [filter[n] EXCEPT !.pause = TRUE, !.rules = {}]
          BY <2>1, <3>2 DEF Emptying
        <4> QED  BY <3>1, <3>2, <4>1 DEF Filter
      <3>3. CASE n \notin Listed
        BY <2>1, <3>1, <3>3
      <3> QED  BY <3>2, <3>3
    <2>4. filter' \in Seq(Filter)
      BY <2>1, <2>2, <2>3, TypeFacts, MapFacts
    <2>5. /\ listing \in Seq(Listings) /\ Asked \in Listings
          /\ filters' \in Seq(DOMAIN filter')
      BY <2>1, <2>2, TypeFacts DEF Asked, Listings
    <2>6. /\ listing' \in Seq(Listings) /\ Len(listing') = Len(listing) + 1
          /\ Len(listing) \in Nat /\ listing'[Len(listing) + 1] = Asked
      BY <2>1, <2>5
    <2>7. TypeOK'
      BY <2>1, <2>4, <2>5, <2>6 DEF TypeOK, dirVars
    <2>8. Distinct' /\ Listed' = Listed
      BY <2>1 DEF Distinct, Listed
    <2>9. Listed \subseteq DOMAIN filter
      BY <2>1, TypeFacts
    <2>10. \A n \in DOMAIN filter : Live(n)' <=> Live(n)
      BY <2>3 DEF Live
    <2>11. NoneLost' /\ OneSpy'
      BY <2>1, <2>2, <2>3, <2>8, <2>9, <2>10 DEF NoneLost, AllListedLive, OneSpy
    <2>12. PausedOnlyWhileListing'
      <3>1. Len(listing) + 1 \in DOMAIN listing' /\ listing'[Len(listing) + 1].stage # "over"
        BY <2>6 DEF Asked
      <3> QED  BY <3>1 DEF PausedOnlyWhileListing
    <2>13. RulesAlive'
      <3>1. \A n \in DOMAIN filter : Live(n) => n \in Listed
        BY <1>2, <2>1 DEF NoneLost, AllListedLive
      <3> QED  BY <2>2, <2>3, <2>10, <3>1 DEF RulesAlive
    <2> QED  BY <2>7, <2>8, <2>11, <2>12, <2>13 DEF ReloadInv
  <1> QED  BY <1>1, <1>2

LEMMA ReloadStutter == ReloadInv /\ UNCHANGED vars => ReloadInv'
  BY DEF vars, dirVars, loadVars, filterVars, ReloadInv, TypeOK, Distinct, NoneLost,
         AllListedLive, OneSpy, PausedOnlyWhileListing, RulesAlive, Live, Listed

LEMMA ReloadStep == ReloadInv /\ [Next]_vars => ReloadInv'
  <1> SUFFICES ASSUME ReloadInv, [Next]_vars PROVE ReloadInv'  OBVIOUS
  <1>1. ASSUME NEW l \in DOMAIN listing, Listing(l)  PROVE ReloadInv'
    BY <1>1, ReadDirectoryStep, RulesLoadLsStep, RulesLoadLsDoneStep DEF Listing
  <1>2. ASSUME NEW rule \in reading, Reading(rule)  PROVE ReloadInv'
    BY <1>2, NoRuleStep, RulesLoadRuleStep DEF Reading
  <1>3. CASE Failure
    BY <1>3, RulesLoadLsErrorStep, NoRuleStep DEF Failure
  <1>4. ASSUME NEW r \in RuleFile, Edit(r)  PROVE ReloadInv'
    BY <1>4, EditStep
  <1>5. CASE FilterReload
    BY <1>5, FilterReloadStep
  <1>6. CASE UNCHANGED vars
    BY <1>6, ReloadStutter
  <1> QED  BY <1>1, <1>2, <1>3, <1>4, <1>5, <1>6 DEF Next, Stopped, Idle

LEMMA ReloadInvariant == Spec => []ReloadInv
  BY ReloadInit, ReloadStep, PTL DEF Spec

-----------------------------------------------------------------------------
(***************************************************************************)
(* RulesReach.  filter_load adds a Rule to the filters of its paths that   *)
(* it finds in the list; that these go on spying needs OnePerFile: no      *)
(* freed filter hides behind another of its path, where _filter_find would *)
(* not meet it.                                                            *)
(***************************************************************************)
ReachInv == OnePerFile /\ RulesReach

LEMMA ReachInit == Init => ReachInv
  <1> SUFFICES ASSUME Init PROVE ReachInv  OBVIOUS
  <1>1. DOMAIN filters = {} /\ rules = {}
    BY DEF Init
  <1> QED  BY <1>1 DEF ReachInv, OnePerFile, RulesReach

LEMMA ReachAlone ==
  ASSUME ReachInv, UNCHANGED filterVars, UNCHANGED rules
  PROVE  ReachInv'
  BY DEF ReachInv, OnePerFile, RulesReach, Live, filterVars

LEMMA UseAfterFreeReach == ReachInv /\ UseAfterFree => ReachInv'
  <1> SUFFICES ASSUME ReachInv, UseAfterFree PROVE ReachInv'  OBVIOUS
  <1>1. UNCHANGED filterVars /\ UNCHANGED rules
    BY DEF UseAfterFree, loadVars
  <1> QED  BY <1>1, ReachAlone

LEMMA RulesLoadLsDoneReach ==
  ASSUME ReloadInv, ReachInv, NEW l \in DOMAIN listing, RulesLoadLsDone(l)
  PROVE  ReachInv'
  <1>1. CASE DoneUsesFreed
    BY <1>1, UseAfterFreeReach DEF RulesLoadLsDone
  <1>2. CASE ~DoneUsesFreed
    <2>1. AllListedLive /\ FilterLoadDone /\ rules' = rules
      BY <1>2 DEF RulesLoadLsDone, DoneUsesFreed, AllListedLive
    <2>2. /\ DOMAIN filter' = DOMAIN filter /\ (OnePerFile => OnePerFile')
          /\ \A n \in DOMAIN filter :
               /\ filter'[n].file = filter[n].file /\ filter'[n].rules = filter[n].rules
               /\ Live(n) /\ filter[n].rules # {} => Live(n)'
      BY <2>1, FilterLoadDoneFacts
    <2>3. RulesReach'
      <3> SUFFICES ASSUME NEW rule \in rules, NEW f \in Glob[rule.file] \ Unreadable
                   PROVE  \E n \in DOMAIN filter' :
                            Live(n)' /\ filter'[n].file = f /\ rule \in filter'[n].rules
        BY <2>1 DEF RulesReach
      <3>1. PICK n \in DOMAIN filter :
              Live(n) /\ filter[n].file = f /\ rule \in filter[n].rules
        BY DEF ReachInv, RulesReach
      <3> QED  BY <2>2, <3>1
    <2> QED  BY <2>2, <2>3 DEF ReachInv
  <1> QED  BY <1>1, <1>2

LEMMA RulesLoadRuleReach ==
  ASSUME ReloadInv, ReachInv, NEW rule \in reading, RulesLoadRule(rule)
  PROVE  ReachInv'
  <1>1. CASE \E f \in Glob[rule.file] : FindUsesFreed(f)
    BY <1>1, UseAfterFreeReach DEF RulesLoadRule
  <1>2. CASE \A f \in Glob[rule.file] : ~FindUsesFreed(f)
    <2>1. /\ TypeOK /\ rule \in Rule /\ FilterLoad(rule)
          /\ rules' = rules \cup {rule}
      BY <1>2 DEF RulesLoadRule, ReloadInv, TypeOK
    <2>2. /\ Len(filter) \in Nat /\ DOMAIN filter = 1..Len(filter)
          /\ Len(filters) \in Nat /\ DOMAIN filters = 1..Len(filters)
          /\ \A i \in DOMAIN filters : filters[i] \in DOMAIN filter
      BY <2>1, TypeFacts
    <2>3. PICK s \in Seq(LogFile) :
           /\ Len(s) \in Nat /\ DOMAIN s = 1..Len(s)
           /\ \A i, j \in DOMAIN s : s[i] = s[j] => i = j
           /\ \A i \in DOMAIN s : s[i] \in Glob[rule.file] \ Unreadable /\ FilterOf(s[i]) = {}
           /\ \A f \in Glob[rule.file] \ Unreadable :
                FilterOf(f) = {} => \E i \in DOMAIN s : s[i] = f
           /\ filter' \in Seq(Filter) /\ DOMAIN filter' = 1..(Len(filter) + Len(s))
           /\ \A n \in DOMAIN filter :
                /\ filter'[n].file = filter[n].file
                /\ filter'[n].live = filter[n].live
                /\ filter'[n].pause = filter[n].pause
                /\ filter'[n].rules \subseteq filter[n].rules \cup {rule}
                /\ filter[n].rules \subseteq filter'[n].rules
                /\ \A f \in Glob[rule.file] : n \in FilterOf(f) => rule \in filter'[n].rules
           /\ \A i \in DOMAIN s : filter'[Len(filter) + i] = NewFilter(s[i], rule)
           /\ filters' \in Seq(DOMAIN filter') /\ DOMAIN filters' = 1..(Len(filters) + Len(s))
           /\ \A i \in DOMAIN filters : filters'[i] = filters[i]
           /\ \A i \in DOMAIN s : filters'[Len(filters) + i] = Len(filter) + i
      BY <2>1, FilterLoadFacts
    <2>4. \A i \in DOMAIN s :
            /\ Len(filter) + i \in DOMAIN filter'
            /\ filter'[Len(filter) + i].file = s[i] /\ filter'[Len(filter) + i].live
            /\ filter'[Len(filter) + i].rules = {rule}
      <3> TAKE i \in DOMAIN s
      <3>1. i \in Nat /\ 1 <= i /\ i <= Len(s) /\ Len(s) \in Nat
        BY <2>3
      <3>2. Len(filter) + i \in 1..(Len(filter) + Len(s))
        BY <2>2, <3>1
      <3>3. filter'[Len(filter) + i] = NewFilter(s[i], rule)
        BY <2>3
      <3> QED  BY <2>3, <3>2, <3>3 DEF NewFilter
    <2>5. ASSUME NEW j \in DOMAIN filters', j \notin DOMAIN filters
          PROVE  \E i \in DOMAIN s :
                   j = Len(filters) + i /\ filter'[filters'[j]].file = s[i]
      <3>1. j - Len(filters) \in DOMAIN s /\ j = Len(filters) + (j - Len(filters))
        BY <2>2, <2>3, <2>5
      <3>2. PICK i \in DOMAIN s : j = Len(filters) + i
        BY <3>1
      <3>3. filters'[j] = Len(filter) + i
        BY <2>3, <3>2
      <3>4. filter'[filters'[j]].file = s[i]
        BY <2>4, <3>3
      <3> QED  BY <3>2, <3>4
    <2>6. \A j \in DOMAIN filters :
            /\ filter'[filters'[j]].file = filter[filters[j]].file
            /\ \A i \in DOMAIN s : filter[filters[j]].file # s[i]
      <3> TAKE j \in DOMAIN filters
      <3>1. filters'[j] = filters[j] /\ filters[j] \in DOMAIN filter /\ filters[j] \in Listed
        BY <2>2, <2>3 DEF Listed
      <3> QED  BY <2>3, <3>1 DEF FilterOf
    <2>7. OnePerFile'
      <3> SUFFICES ASSUME NEW i \in DOMAIN filters', NEW j \in DOMAIN filters',
                          filter'[filters'[i]].file = filter'[filters'[j]].file
                   PROVE  i = j
        BY DEF OnePerFile
      <3>1. CASE i \in DOMAIN filters /\ j \in DOMAIN filters
        BY <2>6, <3>1 DEF ReachInv, OnePerFile
      <3>2. CASE i \in DOMAIN filters /\ j \notin DOMAIN filters
        BY <2>5, <2>6, <3>2
      <3>3. CASE i \notin DOMAIN filters /\ j \in DOMAIN filters
        BY <2>5, <2>6, <3>3
      <3>4. CASE i \notin DOMAIN filters /\ j \notin DOMAIN filters
        <4>1. PICK a \in DOMAIN s : i = Len(filters) + a /\ filter'[filters'[i]].file = s[a]
          BY <2>5, <3>4
        <4>2. PICK b \in DOMAIN s : j = Len(filters) + b /\ filter'[filters'[j]].file = s[b]
          BY <2>5, <3>4
        <4>3. a = b
          BY <2>3, <4>1, <4>2
        <4> QED  BY <4>1, <4>2, <4>3
      <3> QED  BY <3>1, <3>2, <3>3, <3>4
    \* The filter that _filter_find meets for a path goes on spying.
    <2>8. ASSUME NEW f \in Glob[rule.file], NEW n \in FilterOf(f)
          PROVE  n \in DOMAIN filter /\ Live(n)
      <3>1. PICK p \in DOMAIN filters : filters[p] = n
        BY DEF FilterOf, Listed
      <3>2. filter[n].file = f
        BY DEF FilterOf
      <3>3. ASSUME NEW j \in 1..(p - 1)  PROVE filter[filters[j]].file # f
        <4>1. j \in DOMAIN filters /\ j # p
          BY <2>2
        <4> QED  BY <3>1, <3>2, <4>1 DEF ReachInv, OnePerFile
      <3>4. Live(filters[p])
        BY <1>2, <3>3 DEF FindUsesFreed
      <3> QED  BY <2>2, <3>1, <3>4
    <2>9. ASSUME NEW f \in Glob[rule.file] \ Unreadable
          PROVE  \E n \in DOMAIN filter' :
                   filter'[n].live /\ filter'[n].file = f /\ rule \in filter'[n].rules
      <3>1. CASE FilterOf(f) = {}
        <4>1. PICK i \in DOMAIN s : s[i] = f
          BY <2>3, <3>1
        <4> QED  BY <2>4, <4>1
      <3>2. CASE FilterOf(f) # {}
        <4>1. PICK n \in FilterOf(f) : TRUE
          BY <3>2
        <4>2. n \in DOMAIN filter /\ filter[n].live /\ filter[n].file = f
          BY <2>8, <4>1 DEF Live, FilterOf
        <4>3. filter'[n].live /\ filter'[n].file = f /\ rule \in filter'[n].rules
          BY <2>3, <4>1, <4>2
        <4>4. n \in DOMAIN filter'
          BY <2>2, <2>3, <4>2
        <4> QED  BY <4>3, <4>4
      <3> QED  BY <3>1, <3>2
    <2>10. ASSUME NEW r \in rules, NEW f \in Glob[r.file] \ Unreadable
           PROVE  \E n \in DOMAIN filter' :
                    filter'[n].live /\ filter'[n].file = f /\ r \in filter'[n].rules
      <3>1. PICK n \in DOMAIN filter :
              filter[n].live /\ filter[n].file = f /\ r \in filter[n].rules
        BY DEF ReachInv, RulesReach, Live
      <3>2. n \in DOMAIN filter'
        BY <2>2, <2>3
      <3>3. /\ filter'[n].file = filter[n].file /\ filter'[n].live = filter[n].live
            /\ filter[n].rules \subseteq filter'[n].rules
        BY <2>3
      <3> QED  BY <3>1, <3>2, <3>3
    <2>11. RulesReach'
      BY <2>1, <2>9, <2>10 DEF RulesReach, Live
    <2> QED  BY <2>7, <2>11 DEF ReachInv
  <1> QED  BY <1>1, <1>2

LEMMA FilterReloadReach == ReloadInv /\ ReachInv /\ FilterReload => ReachInv'
  <1> SUFFICES ASSUME ReloadInv, ReachInv, FilterReload PROVE ReachInv'  OBVIOUS
  <1>1. CASE \E n \in Listed : ~Live(n)
    BY <1>1, UseAfterFreeReach DEF FilterReload
  <1>2. CASE ~\E n \in Listed : ~Live(n)
    <2>1. /\ filter' = [n \in DOMAIN filter |-> IF n \in Listed THEN Emptying(n) ELSE filter[n]]
          /\ rules' = {} /\ filters' = filters /\ TypeOK
      BY <1>2 DEF FilterReload, ReloadInv
    <2>2. ASSUME NEW n \in DOMAIN filter  PROVE filter'[n].file = filter[n].file
      <3>1. filter[n] \in Filter
        BY <2>1, TypeFacts
      <3> QED  BY <2>1, <3>1 DEF Emptying, Filter
    <2>3. \A i \in DOMAIN filters : filters[i] \in DOMAIN filter
      BY <2>1, TypeFacts
    <2> QED  BY <2>1, <2>2, <2>3 DEF ReachInv, OnePerFile, RulesReach
  <1> QED  BY <1>1, <1>2

LEMMA ReachStep == ReloadInv /\ ReachInv /\ [Next]_vars => ReachInv'
  <1> SUFFICES ASSUME ReloadInv, ReachInv, [Next]_vars PROVE ReachInv'  OBVIOUS
  <1>1. ASSUME NEW l \in DOMAIN listing, Listing(l)  PROVE ReachInv'
    <2>1. CASE ReadDirectory(l) \/ RulesLoadLs(l)
      BY <2>1, ReachAlone DEF ReadDirectory, RulesLoadLs
    <2> QED  BY <1>1, <2>1, RulesLoadLsDoneReach DEF Listing
  <1>2. ASSUME NEW rule \in reading, Reading(rule)  PROVE ReachInv'
    <2>1. CASE DropRule(rule)
      BY <2>1, ReachAlone DEF DropRule
    <2> QED  BY <1>2, <2>1, RulesLoadRuleReach DEF Reading
  <1>3. CASE Failure
    BY <1>3, ReachAlone DEF Failure, RulesLoadLsError, RulesLoadRuleError
  <1>4. ASSUME NEW r \in RuleFile, Edit(r)  PROVE ReachInv'
    BY <1>4, ReachAlone DEF Edit, loadVars
  <1>5. CASE FilterReload
    BY <1>5, FilterReloadReach
  <1>6. CASE UNCHANGED vars
    BY <1>6, ReachAlone DEF vars, loadVars
  <1> QED  BY <1>1, <1>2, <1>3, <1>4, <1>5, <1>6 DEF Next, Stopped, Idle

-----------------------------------------------------------------------------
(***************************************************************************)
(* The variables keep their types; smman->filters and spy->files only name *)
(* filters that were allocated.                                            *)
(***************************************************************************)
THEOREM ReloadTypes == Spec => []TypeOK
  <1>1. ReloadInv => TypeOK
    BY DEF ReloadInv
  <1> QED  BY <1>1, ReloadInvariant, PTL

(***************************************************************************)
(* However rules and reloads come, filter_load never leaves two Spy_Files  *)
(* at work on one log file: no line of it is stored twice.                 *)
(***************************************************************************)
THEOREM OneSpyAlways == Spec => []OneSpy
  <1>1. ReloadInv => OneSpy
    BY DEF ReloadInv
  <1> QED  BY <1>1, ReloadInvariant, PTL

(***************************************************************************)
(* However SIGUSR1 reloads overlap, a file that filter_reload paused is    *)
(* resumed, or freed, by the filter_load_done of the last listing.         *)
(***************************************************************************)
THEOREM PausedAlways == Spec => []PausedOnlyWhileListing
  <1>1. ReloadInv => PausedOnlyWhileListing
    BY DEF ReloadInv
  <1> QED  BY <1>1, ReloadInvariant, PTL

(***************************************************************************)
(* A filter that goes on spying only holds rules that rules_purge has not  *)
(* freed, though Rule_Loads may outlive their reload.                      *)
(***************************************************************************)
THEOREM RulesAliveAlways == Spec => []RulesAlive
  <1>1. ReloadInv => RulesAlive
    BY DEF ReloadInv
  <1> QED  BY <1>1, ReloadInvariant, PTL

(***************************************************************************)
(* However rules, listings and reloads come, a rule that smman has loaded  *)
(* is held by a filter at work on every readable log file it names.        *)
(***************************************************************************)
THEOREM RulesReachAlways == Spec => []RulesReach
  <1>1. ReachInv => RulesReach
    BY DEF ReachInv
  <1> QED  BY <1>1, ReachInit, ReachStep, ReloadInvariant, PTL DEF Spec
=============================================================================
