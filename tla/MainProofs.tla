----------------------------- MODULE MainProofs -----------------------------
(***************************************************************************)
(* Proofs about InitCount, for any number of inits and shutdowns by any    *)
(* client, and about Main, the client there is.                            *)
(*                                                                         *)
(* Balanced only speaks of the moments between two calls.  What holds at   *)
(* every step is about the steps that stand: each part of EFL is counted   *)
(* once for each library with a standing step that initialised it          *)
(* (EflCounts), and a library at rest has all of its steps or none         *)
(* (Standing).  Nested says who may run while somebody else does.          *)
(*                                                                         *)
(* Main implements CountSpec, so all of this holds of it too.  MainInv is  *)
(* what the place main has reached says of the inits it counts on.         *)
(***************************************************************************)
EXTENDS Main, FiniteSetTheorems, SequenceTheorems, TLAPS

Has(l, m) == \E i \in 1..at[l] : Steps[l][i] = m
Holders(m) == {l \in Library : Has(l, m)}

Standing ==
  \A l \in Library :
    /\ op[l] = "rest" => at[l] = IF count[l] > 0 THEN Height(l) ELSE 0
    /\ op[l] \in {"init", "undo"} => count[l] = 1
    /\ op[l] = "shutdown" => count[l] = 0

Owners ==
  /\ \A l \in Library \ {"conf"} : count[l] = held[l]
  /\ count["conf"] = held["conf"] + IF at["rules"] = 5 THEN 1 ELSE 0

Domains == domains = {l \in Library : at[l] >= 2}

EflCounts == \A m \in Efl : efl[m] = own[m] + Cardinality(Holders(m))

Nested ==
  /\ \A k, l \in Library :
       op[k] # "rest" /\ op[l] # "rest" => k = l \/ {k, l} = {"conf", "rules"}
  /\ op["conf"] # "rest" /\ op["rules"] # "rest" =>
       \/ op["rules"] = "init" /\ op["conf"] \in {"init", "undo"} /\ at["rules"] = 5
       \/ op["rules"] = "shutdown" /\ op["conf"] = "shutdown" /\ at["rules"] = 4
  /\ op["rules"] = "undo" => at["rules"] <= 4
  /\ op["conf"] \in {"init", "undo"} /\ op["rules"] = "rest" => at["rules"] = 0

CountInv ==
  CountTypeOK /\ Standing /\ Owners /\ Domains /\ EflCounts /\ Nested

-----------------------------------------------------------------------------
\* No library does a step twice; the domain is the second step of each.
LEMMA StepsFacts ==
  ASSUME NEW l \in Library
  PROVE  /\ Height(l) \in 3..5 /\ (l = "rules" <=> Height(l) = 5 /\ "conf" = Steps[l][5])
         /\ l = "conf" => Height(l) = 4
         /\ \A i \in 1..Height(l) :
              /\ Steps[l][i] \in Efl \cup {"domain", "conf"}
              /\ Steps[l][i] = "domain" <=> i = 2
              /\ Steps[l][i] = "conf" <=> l = "rules" /\ i = 5
         /\ \A i, j \in 1..Height(l) : Steps[l][i] = Steps[l][j] => i = j
  <1>1. CASE l = "conf"
    BY <1>1 DEF Steps, Height, Efl
  <1>2. CASE l = "rules"
    BY <1>2 DEF Steps, Height, Efl
  <1>3. CASE l = "spy"
    BY <1>3 DEF Steps, Height, Efl
  <1>4. CASE l = "store"
    BY <1>4 DEF Steps, Height, Efl
  <1> QED  BY <1>1, <1>2, <1>3, <1>4 DEF Library

LEMMA HoldersFinite ==
  ASSUME NEW m
  PROVE  /\ IsFiniteSet(Holders(m)) /\ Cardinality(Holders(m)) \in Nat
  <1>1. IsFiniteSet(Library)
    <2>1. /\ IsFiniteSet({"conf"}) /\ IsFiniteSet({"rules"})
          /\ IsFiniteSet({"spy"}) /\ IsFiniteSet({"store"})
      BY FS_Singleton
    <2>2. Library = (({"conf"} \cup {"rules"}) \cup {"spy"}) \cup {"store"}
      BY DEF Library
    <2> QED  BY <2>1, <2>2, FS_Union
  <1>2. Holders(m) \subseteq Library
    BY DEF Holders
  <1> QED  BY <1>1, <1>2, FS_Subset, FS_CardinalityType

(***************************************************************************)
(* Who holds what after a step was taken, or undone.                       *)
(***************************************************************************)
LEMMA Rise ==
  ASSUME CountTypeOK, NEW l \in Library, at[l] < Height(l),
         at' = [at EXCEPT ![l] = @ + 1]
  PROVE  /\ \A m : m # Steps[l][at[l] + 1] => Holders(m)' = Holders(m)
         /\ \A m : m = Steps[l][at[l] + 1] =>
              Cardinality(Holders(m)') = Cardinality(Holders(m)) + 1
         /\ at[l] \in Nat /\ at[l] + 1 \in 1..Height(l) /\ at'[l] = at[l] + 1
         /\ at' \in [Library -> Nat] /\ \A k \in Library : at'[k] <= Height(k)
         /\ \A k \in Library : k # l => at'[k] = at[k]
  <1>1. /\ at \in [Library -> Nat] /\ Height(l) \in Nat
        /\ \A k \in Library : at[k] \in Nat /\ at[k] <= Height(k)
    BY StepsFacts DEF CountTypeOK
  <1>2. /\ at'[l] = at[l] + 1 /\ at[l] + 1 \in 1..Height(l)
        /\ \A k \in Library : k # l => at'[k] = at[k]
        /\ at' \in [Library -> Nat] /\ \A k \in Library : at'[k] <= Height(k)
    BY <1>1, StepsFacts
  <1>3. ASSUME NEW m, NEW k \in Library, k # l
        PROVE  Has(k, m)' <=> Has(k, m)
    BY <1>2, <1>3 DEF Has
  <1>4. ASSUME NEW m
        PROVE  Has(l, m)' <=> Has(l, m) \/ m = Steps[l][at[l] + 1]
    <2>1. 1..(at[l] + 1) = (1..at[l]) \cup {at[l] + 1}
      BY <1>1
    <2> QED  BY <1>2, <2>1 DEF Has
  <1>5. ~Has(l, Steps[l][at[l] + 1])
    <2>1. \A i \in 1..at[l] : i \in 1..Height(l) /\ i # at[l] + 1
      BY <1>1, <1>2
    <2> QED  BY <1>2, <2>1, StepsFacts DEF Has
  <1>6. ASSUME NEW m, m # Steps[l][at[l] + 1]
        PROVE  Holders(m)' = Holders(m)
    BY <1>3, <1>4, <1>6 DEF Holders
  <1>7. ASSUME NEW m, m = Steps[l][at[l] + 1]
        PROVE  Cardinality(Holders(m)') = Cardinality(Holders(m)) + 1
    <2>1. Holders(m)' = Holders(m) \cup {l} /\ l \notin Holders(m)
      BY <1>3, <1>4, <1>5, <1>7 DEF Holders
    <2>2. IsFiniteSet(Holders(m))
      BY HoldersFinite
    <2> QED  BY <2>1, <2>2, FS_AddElement
  <1> QED  BY <1>1, <1>2, <1>6, <1>7

LEMMA Fall ==
  ASSUME CountTypeOK, NEW l \in Library, at[l] > 0,
         at' = [at EXCEPT ![l] = @ - 1]
  PROVE  /\ \A m : m # Steps[l][at[l]] => Holders(m)' = Holders(m)
         /\ \A m : m = Steps[l][at[l]] =>
              Cardinality(Holders(m)) = Cardinality(Holders(m)') + 1
         /\ at[l] \in 1..Height(l) /\ at'[l] = at[l] - 1
         /\ at' \in [Library -> Nat] /\ \A k \in Library : at'[k] <= Height(k)
         /\ \A k \in Library : k # l => at'[k] = at[k]
  <1>1. /\ at \in [Library -> Nat] /\ Height(l) \in Nat
        /\ \A k \in Library : at[k] \in Nat /\ at[k] <= Height(k)
    BY StepsFacts DEF CountTypeOK
  <1>2. /\ at'[l] = at[l] - 1 /\ at[l] \in 1..Height(l)
        /\ \A k \in Library : k # l => at'[k] = at[k]
        /\ at' \in [Library -> Nat] /\ \A k \in Library : at'[k] <= Height(k)
    BY <1>1, StepsFacts
  <1>3. ASSUME NEW m, NEW k \in Library, k # l
        PROVE  Has(k, m)' <=> Has(k, m)
    BY <1>2, <1>3 DEF Has
  <1>4. ASSUME NEW m
        PROVE  Has(l, m) <=> Has(l, m)' \/ m = Steps[l][at[l]]
    <2>1. 1..at[l] = (1..(at[l] - 1)) \cup {at[l]}
      BY <1>1, <1>2
    <2> QED  BY <1>2, <2>1 DEF Has
  <1>5. ASSUME NEW m, m = Steps[l][at[l]]
        PROVE  ~Has(l, m)'
    <2>1. \A i \in 1..(at[l] - 1) : i \in 1..Height(l) /\ i # at[l]
      BY <1>1, <1>2
    <2>2. \A i \in 1..(at[l] - 1) : Steps[l][i] # Steps[l][at[l]]
      BY <1>2, <2>1, StepsFacts
    <2> QED  BY <1>2, <1>5, <2>2 DEF Has
  <1>6. ASSUME NEW m, m # Steps[l][at[l]]
        PROVE  Holders(m)' = Holders(m)
    BY <1>3, <1>4, <1>6 DEF Holders
  <1>7. ASSUME NEW m, m = Steps[l][at[l]]
        PROVE  Cardinality(Holders(m)) = Cardinality(Holders(m)') + 1
    <2>1. Holders(m) = Holders(m)' \cup {l} /\ l \notin Holders(m)'
      BY <1>3, <1>4, <1>5, <1>7 DEF Holders
    <2>2. IsFiniteSet(Holders(m)')
      <3>1. Holders(m)' \subseteq Holders(m)
        BY <2>1
      <3> QED  BY <3>1, HoldersFinite, FS_Subset
    <2> QED  BY <2>1, <2>2, FS_AddElement
  <1> QED  BY <1>1, <1>2, <1>6, <1>7

-----------------------------------------------------------------------------
LEMMA CountInvInit == CountInit => CountInv
  <1> SUFFICES ASSUME CountInit PROVE CountInv  OBVIOUS
  <1>1. /\ count = [l \in Library |-> 0] /\ op = [l \in Library |-> "rest"]
        /\ at = [l \in Library |-> 0] /\ efl = [m \in Efl |-> 0] /\ domains = {}
        /\ held = [l \in Library |-> 0] /\ own = [m \in Efl |-> 0]
    BY DEF CountInit
  <1>2. \A l \in Library : Height(l) \in Nat
    BY StepsFacts
  <1>3. "conf" \in Library /\ "rules" \in Library
    BY DEF Library
  <1>4. CountTypeOK
    BY <1>1, <1>2 DEF CountTypeOK
  <1>5. Standing /\ Owners /\ Domains /\ Nested
    BY <1>1, <1>3 DEF Standing, Owners, Domains, Nested
  <1>6. EflCounts
    <2>1. \A m : Holders(m) = {}
      BY <1>1 DEF Holders, Has
    <2> QED  BY <1>1, <2>1, FS_EmptySet DEF EflCounts
  <1> QED  BY <1>4, <1>5, <1>6 DEF CountInv

LEMMA CountFacts ==
  ASSUME CountTypeOK, NEW l \in Library
  PROVE  /\ count[l] \in Nat /\ held[l] \in Nat /\ at[l] \in Nat /\ at[l] <= Height(l)
         /\ op[l] \in {"rest", "init", "undo", "shutdown"}
         /\ Height(l) \in Nat /\ Height(l) >= 3
         /\ "conf" \in Library /\ "rules" \in Library
         /\ Height("conf") = 4 /\ Height("rules") = 5
  <1>1. "conf" \in Library /\ "rules" \in Library
    BY DEF Library
  <1> QED  BY <1>1, StepsFacts DEF CountTypeOK

(***************************************************************************)
(* Steps that leave what stands, and EFL, alone.                           *)
(***************************************************************************)
LEMMA NothingTaken ==
  ASSUME CountInv, UNCHANGED <<at, efl, domains, own>>
  PROVE  EflCounts' /\ Domains'
  <1>1. \A m : Holders(m)' = Holders(m)
    BY DEF Holders, Has
  <1> QED  BY <1>1 DEF CountInv, EflCounts, Domains

(***************************************************************************)
(* An init takes a step.                                                   *)
(***************************************************************************)
LEMMA InitStepStep ==
  ASSUME CountInv, NEW l \in Library, InitStep(l)
  PROVE  CountInv'
  <1> DEFINE step == Steps[l][at[l] + 1]
  <1>1. /\ CountTypeOK /\ Standing /\ Owners /\ Domains /\ EflCounts /\ Nested
        /\ Runs(l) /\ op[l] = "init" /\ at[l] < Height(l)
        /\ at' = [at EXCEPT ![l] = @ + 1] /\ Take(l, step)
        /\ held' = held /\ own' = own
    BY DEF CountInv, InitStep, clientVars
  <1>2. /\ \A m : m # step => Holders(m)' = Holders(m)
        /\ \A m : m = step => Cardinality(Holders(m)') = Cardinality(Holders(m)) + 1
        /\ at[l] \in Nat /\ at[l] + 1 \in 1..Height(l) /\ at'[l] = at[l] + 1
        /\ at' \in [Library -> Nat] /\ \A k \in Library : at'[k] <= Height(k)
        /\ \A k \in Library : k # l => at'[k] = at[k]
    BY <1>1, Rise
  <1>3. /\ step = "domain" <=> at[l] = 1
        /\ step = "conf" <=> l = "rules" /\ at[l] = 4
        /\ "conf" \notin Efl /\ "domain" \notin Efl
    BY <1>2, StepsFacts DEF Efl
  <1>4. /\ "conf" \in Library /\ "rules" \in Library
        /\ efl \in [Efl -> Nat] /\ \A m \in Efl : Cardinality(Holders(m)) \in Nat
    BY HoldersFinite DEF Library, CountInv, CountTypeOK
  <1> HIDE DEF step
  <1>5. CASE step \in Efl \cup {"domain"}
    <2>1. /\ count' = count /\ op' = op
          /\ \/ step \in Efl /\ efl' = [efl EXCEPT ![step] = @ + 1] /\ domains' = domains
             \/ step = "domain" /\ domains' = domains \cup {l} /\ efl' = efl
      BY <1>1, <1>3, <1>5 DEF Take
    <2>2. CountTypeOK'
      BY <1>1, <1>2, <2>1 DEF CountTypeOK
    <2>3. Standing'
      <3> SUFFICES ASSUME NEW k \in Library
                   PROVE  /\ op[k] = "rest" => at'[k] = IF count[k] > 0 THEN Height(k) ELSE 0
                          /\ op[k] \in {"init", "undo"} => count[k] = 1
                          /\ op[k] = "shutdown" => count[k] = 0
        BY <2>1 DEF Standing
      <3>1. op[k] = "rest" => at'[k] = at[k]
        BY <1>1, <1>2
      <3> QED  BY <1>1, <3>1 DEF Standing
    <2>4. at'["rules"] = 5 <=> at["rules"] = 5
      <3>1. CASE l = "rules"
        <4>1. at["rules"] # 4 /\ at["rules"] + 1 <= Height("rules") /\ Height("rules") = 5
          BY <1>1, <1>2, <1>3, <1>5, <3>1, CountFacts
        <4>2. at["rules"] \in Nat /\ at'["rules"] = at["rules"] + 1
          BY <1>2, <3>1
        <4> QED  BY <4>1, <4>2
      <3>2. CASE l # "rules"
        BY <1>2, <1>4, <3>2
      <3> QED  BY <3>1, <3>2
    <2>5. Owners'
      BY <1>1, <2>1, <2>4 DEF Owners
    <2>6. Domains'
      <3>1. \A k \in Library : k # l => (at'[k] >= 2 <=> at[k] >= 2)
        BY <1>2
      <3>2. at'[l] >= 2 <=> at[l] >= 2 \/ step = "domain"
        BY <1>2, <1>3
      <3> QED  BY <1>1, <1>3, <2>1, <3>1, <3>2 DEF Domains
    <2>7. EflCounts'
      <3> SUFFICES ASSUME NEW m \in Efl
                   PROVE  efl'[m] = own[m] + Cardinality(Holders(m)')
        BY <1>1 DEF EflCounts
      <3>1. efl[m] = own[m] + Cardinality(Holders(m)) /\ own[m] \in Nat
        BY <1>1 DEF EflCounts, CountTypeOK
      <3>2. CASE m = step
        BY <1>2, <1>3, <1>4, <2>1, <3>1, <3>2
      <3>3. CASE m # step
        BY <1>2, <1>4, <2>1, <3>1, <3>3
      <3> QED  BY <3>2, <3>3
    <2>8. Nested'
      <3>1. l = "rules" => op["conf"] = "rest"
        BY <1>1 DEF Runs
      <3> QED  BY <1>1, <1>2, <1>4, <2>1, <3>1 DEF Nested
    <2> QED  BY <2>2, <2>3, <2>5, <2>6, <2>7, <2>8 DEF CountInv
  <1>6. CASE step = "conf"
    <2>1. /\ l = "rules" /\ at["rules"] = 4 /\ at'["rules"] = 5 /\ at'["conf"] = at["conf"]
          /\ op["conf"] = "rest" /\ op["rules"] = "init"
          /\ efl' = efl /\ domains' = domains
          /\ count' = [count EXCEPT !["conf"] = @ + 1]
          /\ op' = IF count["conf"] = 0 THEN [op EXCEPT !["conf"] = "init"] ELSE op
      BY <1>1, <1>2, <1>3, <1>4, <1>6 DEF Take, Enter, Runs
    <2>2. CountTypeOK'
      BY <1>1, <1>2, <1>4, <2>1 DEF CountTypeOK
    <2>3. /\ count["conf"] \in Nat /\ held["conf"] \in Nat /\ Height("conf") = 4
          /\ \A k \in Library : k # "conf" => count'[k] = count[k] /\ op'[k] = op[k]
          /\ count'["conf"] = count["conf"] + 1
          /\ op'["conf"] = IF count["conf"] = 0 THEN "init" ELSE "rest"
      BY <1>1, <1>4, <2>1, CountFacts DEF CountTypeOK
    <2>4. Standing'
      <3> SUFFICES ASSUME NEW k \in Library
                   PROVE  /\ op'[k] = "rest" =>
                               at'[k] = IF count'[k] > 0 THEN Height(k) ELSE 0
                          /\ op'[k] \in {"init", "undo"} => count'[k] = 1
                          /\ op'[k] = "shutdown" => count'[k] = 0
        BY DEF Standing
      <3>1. CASE k = "conf"
        BY <1>1, <1>4, <2>1, <2>3, <3>1 DEF Standing
      <3>2. CASE k = "rules"
        BY <1>1, <2>1, <2>3, <3>2 DEF Standing
      <3>3. CASE k # "conf" /\ k # "rules"
        BY <1>1, <1>2, <2>1, <2>3, <3>3 DEF Standing
      <3> QED  BY <3>1, <3>2, <3>3
    <2>5. Owners'
      BY <1>1, <1>4, <2>1, <2>3 DEF Owners
    <2>6. Domains'
      <3>1. \A k \in Library : at'[k] >= 2 <=> at[k] >= 2
        BY <1>2, <2>1
      <3> QED  BY <1>1, <2>1, <3>1 DEF Domains
    <2>7. EflCounts'
      BY <1>1, <1>2, <1>3, <1>6, <2>1 DEF EflCounts
    <2>8. Nested'
      <3>1. \A k \in Library : op'[k] # "rest" => k \in {"conf", "rules"}
        BY <1>1, <1>4, <2>1, <2>3 DEF Nested
      <3> QED  BY <1>4, <2>1, <2>3, <3>1 DEF Nested
    <2> QED  BY <2>2, <2>4, <2>5, <2>6, <2>7, <2>8 DEF CountInv
  <1> QED  BY <1>1, <1>5, <1>6 DEF Take

(***************************************************************************)
(* A step of an init fails: what stands is left to the labels.             *)
(***************************************************************************)
LEMMA InitFailsStep ==
  ASSUME CountInv, NEW l \in Library, InitFails(l)
  PROVE  CountInv'
  <1>1. /\ CountTypeOK /\ Standing /\ Owners /\ Domains /\ EflCounts /\ Nested
        /\ Runs(l) /\ op[l] = "init" /\ at[l] < Height(l)
        /\ op' = [op EXCEPT ![l] = "undo"]
        /\ UNCHANGED <<count, at, efl, domains, held, own>>
    BY DEF CountInv, InitFails, clientVars
  <1>2. /\ at[l] \in Nat /\ Height("rules") = 5 /\ Height(l) \in Nat
        /\ "conf" \in Library /\ "rules" \in Library
    BY <1>1, CountFacts
  <1>3. /\ op'[l] = "undo" /\ \A k \in Library : k # l => op'[k] = op[k]
    BY <1>1 DEF CountTypeOK
  <1>4. CountTypeOK'
    BY <1>1 DEF CountTypeOK
  <1>5. Standing'
    BY <1>1, <1>3 DEF Standing
  <1>6. Owners'
    BY <1>1 DEF Owners
  <1>7. EflCounts' /\ Domains'
    BY <1>1, NothingTaken
  <1>8. Nested'
    <2>1. l = "rules" => op["conf"] = "rest" /\ at["rules"] <= 4
      BY <1>1, <1>2 DEF Runs
    <2>2. \A k \in Library : op'[k] # "rest" <=> op[k] # "rest"
      BY <1>1, <1>3
    <2> QED  BY <1>1, <1>2, <1>3, <2>1, <2>2 DEF Nested
  <1> QED  BY <1>4, <1>5, <1>6, <1>7, <1>8 DEF CountInv

LEMMA InitDoneStep ==
  ASSUME CountInv, NEW l \in Library, InitDone(l)
  PROVE  CountInv'
  <1>1. /\ CountTypeOK /\ Standing /\ Owners /\ Domains /\ EflCounts /\ Nested
        /\ Runs(l) /\ op[l] = "init" /\ at[l] = Height(l)
        /\ op' = [op EXCEPT ![l] = "rest"]
        /\ UNCHANGED <<count, at, efl, domains, held, own>>
    BY DEF CountInv, InitDone, clientVars
  <1>2. "conf" \in Library /\ "rules" \in Library
    BY <1>1, CountFacts
  <1>3. /\ op'[l] = "rest" /\ \A k \in Library : k # l => op'[k] = op[k]
    BY <1>1 DEF CountTypeOK
  <1>4. CountTypeOK'
    BY <1>1 DEF CountTypeOK
  <1>5. Standing'
    BY <1>1, <1>3 DEF Standing
  <1>6. Owners'
    BY <1>1 DEF Owners
  <1>7. EflCounts' /\ Domains'
    BY <1>1, NothingTaken
  <1>8. Nested'
    <2>1. l = "rules" => op["conf"] = "rest"
      BY <1>1 DEF Runs
    <2> QED  BY <1>1, <1>2, <1>3, <2>1 DEF Nested
  <1> QED  BY <1>4, <1>5, <1>6, <1>7, <1>8 DEF CountInv

LEMMA ShutdownDoneStep ==
  ASSUME CountInv, NEW l \in Library, ShutdownDone(l)
  PROVE  CountInv'
  <1>1. /\ CountTypeOK /\ Standing /\ Owners /\ Domains /\ EflCounts /\ Nested
        /\ Runs(l) /\ op[l] = "shutdown" /\ at[l] = 0
        /\ op' = [op EXCEPT ![l] = "rest"]
        /\ UNCHANGED <<count, at, efl, domains, held, own>>
    BY DEF CountInv, ShutdownDone, clientVars
  <1>2. "conf" \in Library /\ "rules" \in Library
    BY <1>1, CountFacts
  <1>3. /\ op'[l] = "rest" /\ \A k \in Library : k # l => op'[k] = op[k]
    BY <1>1 DEF CountTypeOK
  <1>4. CountTypeOK'
    BY <1>1 DEF CountTypeOK
  <1>5. Standing'
    BY <1>1, <1>3 DEF Standing
  <1>6. Owners'
    BY <1>1 DEF Owners
  <1>7. EflCounts' /\ Domains'
    BY <1>1, NothingTaken
  <1>8. Nested'
    <2>1. l = "rules" => op["conf"] = "rest"
      BY <1>1 DEF Runs
    <2> QED  BY <1>1, <1>2, <1>3, <2>1 DEF Nested
  <1> QED  BY <1>4, <1>5, <1>6, <1>7, <1>8 DEF CountInv

(***************************************************************************)
(* Undoing a step.                                                         *)
(***************************************************************************)
LEMMA UnwindStep ==
  ASSUME CountInv, NEW l \in Library, Unwind(l)
  PROVE  CountInv'
  <1> DEFINE step == Steps[l][at[l]]
  <1>1. /\ CountTypeOK /\ Standing /\ Owners /\ Domains /\ EflCounts /\ Nested
        /\ Runs(l) /\ op[l] \in {"undo", "shutdown"} /\ at[l] > 0
        /\ at' = [at EXCEPT ![l] = @ - 1] /\ Drop(l, step)
        /\ held' = held /\ own' = own
    BY DEF CountInv, Unwind, clientVars
  <1>2. /\ \A m : m # step => Holders(m)' = Holders(m)
        /\ \A m : m = step => Cardinality(Holders(m)) = Cardinality(Holders(m)') + 1
        /\ at[l] \in 1..Height(l) /\ at'[l] = at[l] - 1
        /\ at' \in [Library -> Nat] /\ \A k \in Library : at'[k] <= Height(k)
        /\ \A k \in Library : k # l => at'[k] = at[k]
    BY <1>1, Fall
  <1>3. /\ step = "domain" <=> at[l] = 2
        /\ step = "conf" <=> l = "rules" /\ at[l] = 5
        /\ "conf" \notin Efl /\ "domain" \notin Efl
    BY <1>2, StepsFacts DEF Efl
  <1>4. /\ "conf" \in Library /\ "rules" \in Library /\ at[l] \in Nat
        /\ efl \in [Efl -> Nat]
        /\ \A m \in Efl : Cardinality(Holders(m)) \in Nat /\ Cardinality(Holders(m)') \in Nat
    <2>1. \A m : IsFiniteSet(Holders(m)) /\ IsFiniteSet(Holders(m)')
      <3>1. \A m : m = step => Holders(m)' \subseteq Holders(m)
        <4> HIDE DEF step
        <4>1. \A m : \A k \in Library : Has(k, m)' => Has(k, m)
          <5>1. /\ at \in [Library -> Nat] /\ at[l] \in Nat /\ at'[l] = at[l] - 1
                /\ \A k \in Library : k # l => at'[k] = at[k]
            BY <1>1, <1>2 DEF CountTypeOK
          <5>2. \A k \in Library : 1..at'[k] \subseteq 1..at[k]
            <6> TAKE k \in Library
            <6>1. CASE k = l
              BY <5>1, <6>1
            <6>2. CASE k # l
              BY <5>1, <6>2
            <6> QED  BY <6>1, <6>2
          <5> QED  BY <5>2 DEF Has
        <4> QED  BY <4>1 DEF Holders
      <3>2. \A m : Holders(m)' \subseteq Holders(m)
        <4> HIDE DEF step
        <4> QED  BY <1>2, <3>1
      <3> QED  BY <3>2, HoldersFinite, FS_Subset
    <2> QED  BY <1>1, <1>2, <2>1, FS_CardinalityType DEF Library, CountTypeOK
  <1> HIDE DEF step
  <1>5. CASE step \in Efl \cup {"domain"}
    <2>1. /\ count' = count /\ op' = op
          /\ \/ /\ step \in Efl /\ efl' = [efl EXCEPT ![step] = IF @ > 0 THEN @ - 1 ELSE 0]
                /\ domains' = domains
             \/ step = "domain" /\ domains' = domains \ {l} /\ efl' = efl
      BY <1>1, <1>3, <1>5 DEF Drop
    <2>2. CountTypeOK'
      BY <1>1, <1>2, <2>1 DEF CountTypeOK
    <2>3. Standing'
      <3> SUFFICES ASSUME NEW k \in Library
                   PROVE  /\ op[k] = "rest" => at'[k] = IF count[k] > 0 THEN Height(k) ELSE 0
                          /\ op[k] \in {"init", "undo"} => count[k] = 1
                          /\ op[k] = "shutdown" => count[k] = 0
        BY <2>1 DEF Standing
      <3>1. op[k] = "rest" => at'[k] = at[k]
        BY <1>1, <1>2
      <3> QED  BY <1>1, <3>1 DEF Standing
    <2>4. at'["rules"] = 5 <=> at["rules"] = 5
      <3>1. l = "rules" => at[l] # 5 /\ at[l] <= 5
        <4>1. Height("rules") = 5
          BY <1>1, CountFacts
        <4> QED  BY <1>2, <1>3, <1>5, <4>1
      <3> QED  BY <1>2, <1>4, <3>1
    <2>5. Owners'
      BY <1>1, <2>1, <2>4 DEF Owners
    <2>6. Domains'
      <3>1. \A k \in Library : k # l => (at'[k] >= 2 <=> at[k] >= 2)
        BY <1>2
      <3>2. at'[l] >= 2 <=> at[l] >= 2 /\ step # "domain"
        BY <1>2, <1>3, <1>4
      <3> QED  BY <1>1, <1>3, <2>1, <3>1, <3>2 DEF Domains
    <2>7. EflCounts'
      <3> SUFFICES ASSUME NEW m \in Efl
                   PROVE  efl'[m] = own[m] + Cardinality(Holders(m)')
        BY <1>1 DEF EflCounts
      <3>1. /\ efl[m] = own[m] + Cardinality(Holders(m)) /\ own[m] \in Nat
            /\ Cardinality(Holders(m)') \in Nat
        BY <1>1, <1>4 DEF EflCounts, CountTypeOK
      <3>2. CASE m = step
        <4>1. Cardinality(Holders(m)) = Cardinality(Holders(m)') + 1
          BY <1>2, <3>2
        <4>2. efl'[m] = IF efl[m] > 0 THEN efl[m] - 1 ELSE 0
          BY <1>3, <1>4, <2>1, <3>2
        <4> QED  BY <3>1, <4>1, <4>2
      <3>3. CASE m # step
        BY <1>2, <1>4, <2>1, <3>1, <3>3
      <3> QED  BY <3>2, <3>3
    <2>8. Nested'
      <3>1. l = "rules" => op["conf"] = "rest"
        BY <1>1 DEF Runs
      <3>2. at'["rules"] = at["rules"] \/ (l = "rules" /\ at'["rules"] = at["rules"] - 1)
        BY <1>2, <1>4
      <3>3. at["rules"] \in Nat /\ op' = op
        BY <1>1, <1>4, <2>1 DEF CountTypeOK
      <3>4. CASE l = "rules"
        BY <1>1, <3>1, <3>2, <3>3, <3>4 DEF Nested
      <3>5. CASE l # "rules"
        BY <1>1, <3>2, <3>3, <3>5 DEF Nested
      <3> QED  BY <3>4, <3>5
    <2> QED  BY <2>2, <2>3, <2>5, <2>6, <2>7, <2>8 DEF CountInv
  <1>6. CASE step = "conf"
    <2>1. /\ l = "rules" /\ at["rules"] = 5 /\ at'["rules"] = 4 /\ at'["conf"] = at["conf"]
          /\ op["conf"] = "rest" /\ op["rules"] \in {"undo", "shutdown"}
          /\ efl' = efl /\ domains' = domains /\ Leave("conf")
      BY <1>1, <1>2, <1>3, <1>4, <1>6 DEF Drop, Runs
    <2>2. op["rules"] = "shutdown"
      BY <1>1, <2>1 DEF Nested
    <2>3. /\ count["conf"] \in Nat /\ held["conf"] \in Nat /\ Height("conf") = 4
          /\ count["conf"] = held["conf"] + 1
      BY <1>1, <1>4, <2>1, CountFacts DEF Owners
    <2>4. /\ count' = [count EXCEPT !["conf"] = @ - 1]
          /\ op' = IF count["conf"] = 1 THEN [op EXCEPT !["conf"] = "shutdown"] ELSE op
      BY <2>1, <2>3 DEF Leave
    <2>5. CountTypeOK'
      BY <1>1, <1>2, <1>4, <2>1, <2>3, <2>4 DEF CountTypeOK
    <2>6. /\ \A k \in Library : k # "conf" => count'[k] = count[k] /\ op'[k] = op[k]
          /\ count'["conf"] = count["conf"] - 1
          /\ op'["conf"] = IF count["conf"] = 1 THEN "shutdown" ELSE "rest"
      BY <1>1, <1>4, <2>1, <2>4 DEF CountTypeOK
    <2>7. Standing'
      <3> SUFFICES ASSUME NEW k \in Library
                   PROVE  /\ op'[k] = "rest" =>
                               at'[k] = IF count'[k] > 0 THEN Height(k) ELSE 0
                          /\ op'[k] \in {"init", "undo"} => count'[k] = 1
                          /\ op'[k] = "shutdown" => count'[k] = 0
        BY DEF Standing
      <3>1. CASE k = "conf"
        <4>1. at'["conf"] = Height("conf")
          BY <1>1, <1>4, <2>1, <2>3 DEF Standing
        <4>2. CASE count["conf"] = 1
          BY <2>6, <3>1, <4>2
        <4>3. CASE count["conf"] # 1
          <5>1. count'["conf"] > 0 /\ op'["conf"] = "rest"
            BY <2>3, <2>6, <4>3
          <5> QED  BY <3>1, <4>1, <5>1
        <4> QED  BY <4>2, <4>3
      <3>2. CASE k = "rules"
        BY <1>1, <2>1, <2>2, <2>6, <3>2 DEF Standing
      <3>3. CASE k # "conf" /\ k # "rules"
        BY <1>1, <1>2, <2>1, <2>6, <3>3 DEF Standing
      <3> QED  BY <3>1, <3>2, <3>3
    <2>8. Owners'
      <3>1. \A k \in Library \ {"conf"} : count'[k] = held'[k]
        BY <1>1, <2>6 DEF Owners
      <3>2. count'["conf"] = held'["conf"] + 0
        BY <1>1, <2>3, <2>6
      <3> QED  BY <2>1, <3>1, <3>2 DEF Owners
    <2>9. Domains'
      <3>1. \A k \in Library : at'[k] >= 2 <=> at[k] >= 2
        BY <1>2, <2>1
      <3> QED  BY <1>1, <2>1, <3>1 DEF Domains
    <2>10. EflCounts'
      BY <1>1, <1>2, <1>3, <1>6, <2>1 DEF EflCounts
    <2>11. Nested'
      <3>1. \A k \in Library : op'[k] # "rest" => k \in {"conf", "rules"}
        BY <1>1, <1>4, <2>1, <2>6 DEF Nested
      <3> QED  BY <1>4, <2>1, <2>2, <2>6, <3>1 DEF Nested
    <2> QED  BY <2>5, <2>7, <2>8, <2>9, <2>10, <2>11 DEF CountInv
  <1> QED  BY <1>1, <1>5, <1>6 DEF Drop

(***************************************************************************)
(* The end of a failed init: of conf_init inside rules_init, which fails   *)
(* in turn, or of one the client called.                                   *)
(***************************************************************************)
LEMMA UndoDoneStep ==
  ASSUME CountInv, NEW l \in Library, UndoDone(l)
  PROVE  CountInv'
  <1>1. /\ CountTypeOK /\ Standing /\ Owners /\ Domains /\ EflCounts /\ Nested
        /\ Runs(l) /\ op[l] = "undo" /\ at[l] = 0
        /\ count' = [count EXCEPT ![l] = @ - 1]
        /\ UNCHANGED <<efl, domains, own>>
    BY DEF CountInv, UndoDone
  <1>2. /\ "conf" \in Library /\ "rules" \in Library /\ Height("rules") = 5
        /\ count[l] = 1 /\ count'[l] = 0
        /\ \A k \in Library : k # l => count'[k] = count[k]
        /\ count' \in [Library -> Nat]
    BY <1>1, CountFacts DEF Standing, CountTypeOK
  <1>3. CASE l = "conf" /\ op["rules"] = "init"
    <2>1. /\ op' = [op EXCEPT !["conf"] = "rest", !["rules"] = "undo"]
          /\ at' = [at EXCEPT !["rules"] = @ - 1] /\ held' = held
      BY <1>3 DEF UndoDone
    <2>2. at["rules"] = 5 /\ at["conf"] = 0 /\ count["rules"] = 1
      BY <1>1, <1>2, <1>3 DEF Nested, Standing
    <2>3. /\ \A m : m # Steps["rules"][at["rules"]] => Holders(m)' = Holders(m)
          /\ at' \in [Library -> Nat] /\ \A k \in Library : at'[k] <= Height(k)
          /\ at'["rules"] = 4 /\ \A k \in Library : k # "rules" => at'[k] = at[k]
      <3>1. at["rules"] > 0
        BY <2>2
      <3>2. /\ \A m : m # Steps["rules"][at["rules"]] => Holders(m)' = Holders(m)
            /\ at' \in [Library -> Nat] /\ \A k \in Library : at'[k] <= Height(k)
            /\ at'["rules"] = at["rules"] - 1
            /\ \A k \in Library : k # "rules" => at'[k] = at[k]
        BY <1>1, <1>2, <2>1, <3>1, Fall
      <3> QED  BY <2>2, <3>2
    <2>4. /\ op'["conf"] = "rest" /\ op'["rules"] = "undo"
          /\ \A k \in Library \ {"conf", "rules"} : op'[k] = op[k]
          /\ op' \in [Library -> {"rest", "init", "undo", "shutdown"}]
      BY <1>1, <1>2, <2>1 DEF CountTypeOK
    <2>5. CountTypeOK'
      BY <1>1, <1>2, <2>1, <2>3, <2>4 DEF CountTypeOK
    <2>6. Standing'
      <3> SUFFICES ASSUME NEW k \in Library
                   PROVE  /\ op'[k] = "rest" =>
                               at'[k] = IF count'[k] > 0 THEN Height(k) ELSE 0
                          /\ op'[k] \in {"init", "undo"} => count'[k] = 1
                          /\ op'[k] = "shutdown" => count'[k] = 0
        BY DEF Standing
      <3>1. CASE k = "conf"
        BY <1>2, <1>3, <2>2, <2>3, <2>4, <3>1
      <3>2. CASE k = "rules"
        BY <1>2, <1>3, <2>2, <2>4, <3>2
      <3>3. CASE k # "conf" /\ k # "rules"
        BY <1>1, <1>2, <1>3, <2>3, <2>4, <3>3 DEF Standing
      <3> QED  BY <3>1, <3>2, <3>3
    <2>7. Owners'
      <3>1. held["conf"] = 0
        <4>1. count["conf"] = held["conf"] + 1 /\ held["conf"] \in Nat
          BY <1>1, <1>2, <2>2 DEF Owners, CountTypeOK
        <4> QED  BY <1>2, <1>3, <4>1
      <3>2. \A k \in Library \ {"conf"} : count'[k] = held'[k]
        BY <1>1, <1>2, <1>3, <2>1 DEF Owners
      <3>3. count'["conf"] = 0 /\ held'["conf"] = 0 /\ at'["rules"] # 5
        BY <1>2, <1>3, <2>1, <2>3, <3>1
      <3> QED  BY <3>2, <3>3 DEF Owners
    <2>8. Domains'
      <3>1. \A k \in Library : at'[k] >= 2 <=> at[k] >= 2
        BY <2>2, <2>3
      <3> QED  BY <1>1, <3>1 DEF Domains
    <2>9. EflCounts'
      <3>1. Steps["rules"][at["rules"]] \notin Efl
        BY <2>2 DEF Steps, Efl
      <3> QED  BY <1>1, <2>3, <3>1 DEF EflCounts
    <2>10. Nested'
      <3>1. \A k \in Library : op'[k] # "rest" => k \in {"conf", "rules"}
        BY <1>1, <1>2, <1>3, <2>4 DEF Nested
      <3> QED  BY <2>3, <2>4, <3>1 DEF Nested
    <2> QED  BY <2>5, <2>6, <2>7, <2>8, <2>9, <2>10 DEF CountInv
  <1>4. CASE ~(l = "conf" /\ op["rules"] = "init")
    <2>1. /\ op' = [op EXCEPT ![l] = "rest"] /\ at' = at
          /\ held' = [held EXCEPT ![l] = @ - 1]
      BY <1>4 DEF UndoDone
    <2>2. held[l] = 1
      <3>1. CASE l # "conf"
        BY <1>1, <1>2, <3>1 DEF Owners
      <3>2. CASE l = "conf"
        <4>1. op["rules"] = "rest"
          BY <1>1, <1>2, <1>4, <3>2 DEF Nested
        <4>2. at["rules"] = 0
          BY <1>1, <3>2, <4>1 DEF Nested
        <4>3. held["conf"] \in Nat /\ count["conf"] = held["conf"] + 0
          BY <1>1, <1>2, <4>2 DEF Owners, CountTypeOK
        <4> QED  BY <1>2, <3>2, <4>3
      <3> QED  BY <3>1, <3>2
    <2>3. /\ held'[l] = 0 /\ \A k \in Library : k # l => held'[k] = held[k]
          /\ held' \in [Library -> Nat]
      BY <1>1, <2>1, <2>2 DEF CountTypeOK
    <2>4. op'[l] = "rest" /\ \A k \in Library : k # l => op'[k] = op[k]
      BY <1>1, <2>1 DEF CountTypeOK
    <2>5. CountTypeOK'
      BY <1>1, <1>2, <2>1, <2>3 DEF CountTypeOK
    <2>6. Standing'
      BY <1>1, <1>2, <2>1, <2>4 DEF Standing
    <2>7. Owners'
      BY <1>1, <1>2, <2>1, <2>2, <2>3 DEF Owners
    <2>8. EflCounts' /\ Domains'
      BY <1>1, <2>1, NothingTaken
    <2>9. Nested'
      <3>1. l = "rules" => op["conf"] = "rest"
        BY <1>1 DEF Runs
      <3>2. \A k \in Library : op'[k] # "rest" => op'[k] = op[k]
        BY <2>4
      <3>3. CASE l = "conf" \/ l = "rules"
        <4>1. op'["conf"] = "rest" /\ (l = "rules" => op'["rules"] = "rest")
              /\ (l = "conf" => op'["rules"] = op["rules"])
          BY <1>2, <2>4, <3>1, <3>3
        <4> QED  BY <1>1, <1>2, <2>1, <3>2, <3>3, <4>1 DEF Nested
      <3>4. CASE ~(l = "conf" \/ l = "rules")
        <4>1. op'["conf"] = op["conf"] /\ op'["rules"] = op["rules"]
          BY <1>2, <2>4, <3>4
        <4> QED  BY <1>1, <1>2, <2>1, <3>2, <4>1 DEF Nested
      <3> QED  BY <3>3, <3>4
    <2> QED  BY <2>5, <2>6, <2>7, <2>8, <2>9 DEF CountInv
  <1> QED  BY <1>3, <1>4

-----------------------------------------------------------------------------
(***************************************************************************)
(* The calls of the client.                                                *)
(***************************************************************************)
LEMMA CallInitStep ==
  ASSUME CountInv, NEW l \in Library, CallInit(l)
  PROVE  CountInv'
  <1>1. /\ CountTypeOK /\ Standing /\ Owners /\ Domains /\ EflCounts /\ Nested
        /\ \A k \in Library : op[k] = "rest"
        /\ count' = [count EXCEPT ![l] = @ + 1]
        /\ op' = IF count[l] = 0 THEN [op EXCEPT ![l] = "init"] ELSE op
        /\ held' = [held EXCEPT ![l] = @ + 1]
        /\ UNCHANGED <<at, efl, domains, own>>
    BY DEF CountInv, CallInit, Enter, Resting
  <1>2. /\ count[l] \in Nat /\ held[l] \in Nat /\ "conf" \in Library /\ "rules" \in Library
        /\ count'[l] = count[l] + 1 /\ \A k \in Library : k # l => count'[k] = count[k]
        /\ held'[l] = held[l] + 1 /\ \A k \in Library : k # l => held'[k] = held[k]
        /\ op'[l] = (IF count[l] = 0 THEN "init" ELSE "rest")
        /\ \A k \in Library : k # l => op'[k] = "rest"
    BY <1>1, CountFacts DEF CountTypeOK
  <1>3. CountTypeOK'
    BY <1>1 DEF CountTypeOK
  <1>4. Standing'
    <2> SUFFICES ASSUME NEW k \in Library
                 PROVE  /\ op'[k] = "rest" => at[k] = IF count'[k] > 0 THEN Height(k) ELSE 0
                        /\ op'[k] \in {"init", "undo"} => count'[k] = 1
                        /\ op'[k] = "shutdown" => count'[k] = 0
      BY <1>1 DEF Standing
    <2>1. at[k] = IF count[k] > 0 THEN Height(k) ELSE 0
      BY <1>1 DEF Standing
    <2>2. CASE k = l
      BY <1>2, <2>1, <2>2
    <2>3. CASE k # l
      BY <1>2, <2>1, <2>3
    <2> QED  BY <2>2, <2>3
  <1>5. Owners'
    <2>1. \A k \in Library \ {"conf"} : count'[k] = held'[k]
      BY <1>1, <1>2 DEF Owners
    <2>2. count'["conf"] = held'["conf"] + IF at["rules"] = 5 THEN 1 ELSE 0
      BY <1>1, <1>2 DEF Owners
    <2> QED  BY <1>1, <2>1, <2>2 DEF Owners
  <1>6. EflCounts' /\ Domains'
    BY <1>1, NothingTaken
  <1>7. l = "conf" /\ count["conf"] = 0 => at["rules"] = 0
    <2> SUFFICES ASSUME count["conf"] = 0 PROVE at["rules"] = 0
      OBVIOUS
    <2>1. at["rules"] # 5
      BY <1>1, <1>2 DEF Owners, CountTypeOK
    <2>2. at["rules"] = IF count["rules"] > 0 THEN 5 ELSE 0
      BY <1>1, <1>2, CountFacts DEF Standing
    <2> QED  BY <2>1, <2>2
  <1>8. Nested'
    BY <1>1, <1>2, <1>7 DEF Nested
  <1> QED  BY <1>3, <1>4, <1>5, <1>6, <1>8 DEF CountInv

LEMMA CallShutdownStep ==
  ASSUME CountInv, NEW l \in Library, CallShutdown(l)
  PROVE  CountInv'
  <1>1. /\ CountTypeOK /\ Standing /\ Owners /\ Domains /\ EflCounts /\ Nested
        /\ \A k \in Library : op[k] = "rest"
        /\ held[l] > 0 \/ count[l] = 0
        /\ Leave(l)
        /\ held' = [held EXCEPT ![l] = IF @ > 0 THEN @ - 1 ELSE 0]
        /\ UNCHANGED <<at, efl, domains, own>>
    BY DEF CountInv, CallShutdown, Shutdown, Resting
  <1>2. /\ count[l] \in Nat /\ held[l] \in Nat /\ held[l] <= count[l]
        /\ "conf" \in Library /\ "rules" \in Library
    BY <1>1, CountFacts DEF Owners
  <1>3. CASE count[l] = 0
    <2>1. count' = count /\ op' = op
      BY <1>1, <1>2, <1>3 DEF Leave
    <2>2. held[l] = 0
      BY <1>2, <1>3
    <2>3. held' = held
      BY <1>1, <2>2 DEF CountTypeOK
    <2>4. EflCounts' /\ Domains'
      BY <1>1, NothingTaken
    <2> QED  BY <1>1, <2>1, <2>3, <2>4 DEF CountInv, CountTypeOK, Standing, Owners, Nested
  <1>4. CASE count[l] # 0
    <2>1. /\ count' = [count EXCEPT ![l] = @ - 1]
          /\ op' = IF count[l] = 1 THEN [op EXCEPT ![l] = "shutdown"] ELSE op
          /\ held[l] > 0
      BY <1>1, <1>2, <1>4 DEF Leave
    <2>2. /\ count'[l] = count[l] - 1 /\ \A k \in Library : k # l => count'[k] = count[k]
          /\ held'[l] = held[l] - 1 /\ \A k \in Library : k # l => held'[k] = held[k]
          /\ op'[l] = (IF count[l] = 1 THEN "shutdown" ELSE "rest")
          /\ \A k \in Library : k # l => op'[k] = "rest"
      BY <1>1, <2>1 DEF CountTypeOK
    <2>3. CountTypeOK'
      BY <1>1, <1>2, <1>4, <2>1 DEF CountTypeOK
    <2>4. Standing'
      <3> SUFFICES ASSUME NEW k \in Library
                   PROVE  /\ op'[k] = "rest" => at[k] = IF count'[k] > 0 THEN Height(k) ELSE 0
                          /\ op'[k] \in {"init", "undo"} => count'[k] = 1
                          /\ op'[k] = "shutdown" => count'[k] = 0
        BY <1>1 DEF Standing
      <3>1. at[k] = IF count[k] > 0 THEN Height(k) ELSE 0
        BY <1>1 DEF Standing
      <3>2. CASE k = l
        BY <1>2, <1>4, <2>2, <3>1, <3>2
      <3>3. CASE k # l
        BY <2>2, <3>1, <3>3
      <3> QED  BY <3>2, <3>3
    <2>5. Owners'
      <3>1. \A k \in Library \ {"conf"} : count'[k] = held'[k]
        BY <1>1, <2>2 DEF Owners
      <3>2. count'["conf"] = held'["conf"] + IF at["rules"] = 5 THEN 1 ELSE 0
        <4>1. count["conf"] \in Nat /\ held["conf"] \in Nat
          BY <1>1, <1>2 DEF CountTypeOK
        <4> QED  BY <1>1, <1>2, <2>2, <4>1 DEF Owners
      <3> QED  BY <1>1, <3>1, <3>2 DEF Owners
    <2>6. EflCounts' /\ Domains'
      BY <1>1, NothingTaken
    <2>7. Nested'
      BY <1>1, <1>2, <2>2 DEF Nested
    <2> QED  BY <2>3, <2>4, <2>5, <2>6, <2>7 DEF CountInv
  <1> QED  BY <1>3, <1>4

LEMMA CallEflStep ==
  ASSUME CountInv, NEW m \in Efl, CallEflInit(m) \/ CallEflShutdown(m)
  PROVE  CountInv'
  <1>1. /\ CountTypeOK /\ EflCounts
        /\ UNCHANGED <<count, op, at, domains, held>>
    BY DEF CountInv, CallEflInit, CallEflShutdown, EflShutdown, libVars
  <1>2. /\ efl[m] = own[m] + Cardinality(Holders(m)) /\ Cardinality(Holders(m)) \in Nat
        /\ efl \in [Efl -> Nat] /\ own \in [Efl -> Nat]
    BY <1>1, HoldersFinite DEF EflCounts, CountTypeOK
  <1>3. /\ efl' \in [Efl -> Nat] /\ own' \in [Efl -> Nat]
        /\ \A n \in Efl : n # m => efl'[n] = efl[n] /\ own'[n] = own[n]
        /\ efl'[m] = own'[m] + Cardinality(Holders(m))
    <2>1. CASE CallEflInit(m)
      BY <1>2, <2>1 DEF CallEflInit
    <2>2. CASE CallEflShutdown(m)
      <3>1. /\ efl' = [efl EXCEPT ![m] = IF @ > 0 THEN @ - 1 ELSE 0]
            /\ own' = [own EXCEPT ![m] = IF @ > 0 THEN @ - 1 ELSE 0]
            /\ own[m] > 0 \/ efl[m] = 0
        BY <2>2 DEF CallEflShutdown, EflShutdown
      <3>2. efl[m] \in Nat /\ own[m] \in Nat
        BY <1>2
      <3>3. /\ efl'[m] = IF efl[m] > 0 THEN efl[m] - 1 ELSE 0
            /\ own'[m] = IF own[m] > 0 THEN own[m] - 1 ELSE 0
        BY <1>2, <3>1
      <3>4. efl'[m] = own'[m] + Cardinality(Holders(m))
        BY <1>2, <3>1, <3>2, <3>3
      <3> QED  BY <1>2, <3>1, <3>2, <3>4
    <2> QED  BY <2>1, <2>2
  <1>4. \A n : Holders(n)' = Holders(n)
    BY <1>1 DEF Holders, Has
  <1>5. EflCounts'
    BY <1>1, <1>3, <1>4 DEF EflCounts
  <1>6. CountTypeOK'
    BY <1>1, <1>3 DEF CountTypeOK
  <1> QED  BY <1>1, <1>5, <1>6 DEF CountInv, Standing, Owners, Domains, Nested

LEMMA CountStep == CountInv /\ [CountNext]_countVars => CountInv'
  <1> SUFFICES ASSUME CountInv, [CountNext]_countVars PROVE CountInv'  OBVIOUS
  <1>1. ASSUME NEW l \in Library, LibraryStep(l) PROVE CountInv'
    BY <1>1, InitStepStep, InitFailsStep, InitDoneStep, UnwindStep, UndoDoneStep,
       ShutdownDoneStep DEF LibraryStep
  <1>2. ASSUME NEW l \in Library, CallInit(l) \/ CallShutdown(l) PROVE CountInv'
    BY <1>2, CallInitStep, CallShutdownStep
  <1>3. ASSUME NEW m \in Efl, CallEflInit(m) \/ CallEflShutdown(m) PROVE CountInv'
    BY <1>3, CallEflStep
  <1>4. CASE UNCHANGED countVars
    <2>1. UNCHANGED <<count, op, at, efl, domains, held, own>>
      BY <1>4 DEF countVars, libVars, clientVars
    <2>2. EflCounts' /\ Domains'
      BY <2>1, NothingTaken
    <2> QED  BY <2>1, <2>2 DEF CountInv, CountTypeOK, Standing, Owners, Nested
  <1> QED  BY <1>1, <1>2, <1>3, <1>4 DEF CountNext

LEMMA CountInvariant == CountSpec => []CountInv
  BY CountInvInit, CountStep, PTL DEF CountSpec

-----------------------------------------------------------------------------
(***************************************************************************)
(* The counts keep their types, and so never go below 0.                   *)
(***************************************************************************)
THEOREM CountTypes == CountSpec => []CountTypeOK
  <1>1. CountInv => CountTypeOK
    BY DEF CountInv
  <1> QED  BY <1>1, CountInvariant, PTL

(***************************************************************************)
(* Between two calls nothing is initialised but what somebody holds, each  *)
(* part once for each holder: no failed init leaves anything behind, and   *)
(* no shutdown undoes too much.                                            *)
(***************************************************************************)
THEOREM BalancedAlways == CountSpec => []Balanced
  <1>1. CountInv => Balanced
    <2> SUFFICES ASSUME CountInv, Resting PROVE Balanced!2  BY DEF Balanced
    <2>1. /\ CountTypeOK /\ Owners /\ Domains /\ EflCounts
          /\ "conf" \in Library /\ "rules" \in Library /\ Height("rules") = 5
      <3>1. CountTypeOK /\ Owners /\ Domains /\ EflCounts
        BY DEF CountInv
      <3>2. "conf" \in Library
        BY DEF Library
      <3> QED  BY <3>1, <3>2, CountFacts
    <2>2. \A l \in Library : /\ at[l] = (IF l \in Up THEN Height(l) ELSE 0)
                             /\ Height(l) \in Nat /\ Height(l) >= 3
      BY CountFacts DEF CountInv, Resting, Standing, Up
    <2>3. \A m \in Efl : Holders(m) = {l \in Up : m \in Needs(l)}
      <3> TAKE m \in Efl
      <3>1. ASSUME NEW l \in Library
            PROVE  Has(l, m) <=> l \in Up /\ m \in Needs(l)
        BY <2>2 DEF Has, Needs
      <3>2. Up \subseteq Library
        BY DEF Up
      <3> QED  BY <3>1, <3>2 DEF Holders
    <2>4. domains = Up
      BY <2>1, <2>2 DEF Domains, Up
    <2>5. count["conf"] = held["conf"] + Cardinality(Up \cap {"rules"})
      <3>1. CASE "rules" \in Up
        <4>1. at["rules"] = 5 /\ Up \cap {"rules"} = {"rules"}
          BY <2>1, <2>2, <3>1
        <4> QED  BY <2>1, <4>1, FS_Singleton DEF Owners
      <3>2. CASE "rules" \notin Up
        <4>1. at["rules"] = 0 /\ Up \cap {"rules"} = {}
          BY <2>1, <2>2, <3>2
        <4> QED  BY <2>1, <4>1, FS_EmptySet DEF Owners
      <3> QED  BY <3>1, <3>2
    <2> QED  BY <2>1, <2>3, <2>4, <2>5 DEF EflCounts
  <1> QED  BY <1>1, CountInvariant, PTL

(***************************************************************************)
(* No other library takes away what a library that is held needs.          *)
(***************************************************************************)
THEOREM UpWhileHeldAlways == CountSpec => []UpWhileHeld
  <1>1. CountInv => UpWhileHeld
    <2> SUFFICES ASSUME CountInv, NEW l \in Library, held[l] > 0,
                        op[l] \notin {"init", "undo"}
                 PROVE  /\ \A m \in Needs(l) \cap Efl : efl[m] > 0
                        /\ l \in domains
                        /\ "conf" \in Needs(l) => count["conf"] > 0 /\ op["conf"] = "rest"
      BY DEF UpWhileHeld
    <2>1. /\ CountTypeOK /\ Standing /\ Owners /\ Domains /\ EflCounts /\ Nested
          /\ count[l] \in Nat /\ held[l] \in Nat /\ Height(l) \in Nat /\ Height(l) >= 3
          /\ "conf" \in Library /\ "rules" \in Library /\ Height("rules") = 5
          /\ op[l] \in {"rest", "init", "undo", "shutdown"}
      BY CountFacts DEF CountInv
    <2>2. count[l] > 0
      BY <2>1 DEF Owners
    <2>3. op[l] = "rest" /\ at[l] = Height(l)
      BY <2>1, <2>2 DEF Standing
    <2>4. \A m \in Needs(l) \cap Efl : efl[m] > 0
      <3> TAKE m \in Needs(l) \cap Efl
      <3>1. l \in Holders(m)
        BY <2>3 DEF Holders, Has, Needs
      <3>2. Cardinality(Holders(m)) # 0 /\ Cardinality(Holders(m)) \in Nat
        BY <3>1, HoldersFinite, FS_EmptySet
      <3>3. efl[m] = own[m] + Cardinality(Holders(m)) /\ own[m] \in Nat
        BY <2>1 DEF EflCounts, CountTypeOK
      <3> QED  BY <3>2, <3>3
    <2>5. l \in domains
      BY <2>1, <2>3 DEF Domains
    <2>6. ASSUME "conf" \in Needs(l)
          PROVE  count["conf"] > 0 /\ op["conf"] = "rest"
      <3>1. l = "rules" /\ at["rules"] = 5
        BY <2>1, <2>3, <2>6, StepsFacts DEF Needs
      <3>2. count["conf"] = held["conf"] + 1 /\ held["conf"] \in Nat
        BY <2>1, <3>1 DEF Owners, CountTypeOK
      <3>3. op["conf"] # "shutdown"
        BY <2>1, <3>2 DEF Standing
      <3>4. op["conf"] \notin {"init", "undo"}
        BY <2>1, <2>3, <3>1 DEF Nested
      <3> QED  BY <2>1, <3>2, <3>3, <3>4 DEF CountTypeOK
    <2> QED  BY <2>4, <2>5, <2>6
  <1> QED  BY <1>1, CountInvariant, PTL

-----------------------------------------------------------------------------
(***************************************************************************)
(* main.  The calls that init and shut down each library and part of EFL.  *)
(***************************************************************************)
InitAt == [conf |-> 4, rules |-> 5, spy |-> 6, store |-> 7]
ShutdownAt == [conf |-> 13, rules |-> 12, spy |-> 11, store |-> 10]
EflInitAt == [eina |-> 1, ecore |-> 2]
EflShutdownAt == [eina |-> 16, ecore |-> 14]

\* main holds each library at most once, between its calls.
Holds ==
  \A l \in Library :
    /\ held[l] <= 1
    /\ next <= InitAt[l] \/ next > ShutdownAt[l] => held[l] = 0

Owns ==
  /\ \A m \in {"eina", "ecore"} :
       /\ own[m] <= 1
       /\ next <= EflInitAt[m] \/ next > EflShutdownAt[m] => own[m] = 0
  /\ \A m \in Efl \ {"eina", "ecore"} : own[m] = 0

MainInv ==
  /\ next \in 1..17
  /\ Holds /\ Owns
  /\ next > 14 => Resting
  /\ next > 15 => ~logDomain
  /\ status = "over" => next = 17

LEMMA CallsFacts ==
  /\ Len(Calls) = 16 /\ DOMAIN Calls = 1..16
  /\ \A i \in 1..16 :
       /\ Calls[i].what = "efl_init" => Calls[i].of \in {"eina", "ecore"} /\ i = EflInitAt[Calls[i].of]
       /\ Calls[i].what = "init" => Calls[i].of \in Library /\ i = InitAt[Calls[i].of]
       /\ Calls[i].what = "shutdown" => Calls[i].of \in Library /\ i = ShutdownAt[Calls[i].of]
       /\ Calls[i].what = "efl_shutdown" =>
            Calls[i].of \in {"eina", "ecore"} /\ i = EflShutdownAt[Calls[i].of]
       /\ i = 14 => Calls[i].what = "efl_shutdown"
       /\ i > 14 => Calls[i].what \in {"unregister", "efl_shutdown"}
       /\ Calls[i].what = "unregister" <=> i = 15
       /\ Calls[i].what = "new" => i = 8
  /\ \A l \in Library : Calls[ShutdownAt[l]] = Call("shutdown", l)
  /\ \A m \in {"eina", "ecore"} : Calls[EflShutdownAt[m]] = Call("efl_shutdown", m)
  <1> DEFINE S == {Startup[i] : i \in 1..9} \cup {Teardown[i] : i \in 1..7}
  <1>1. /\ Startup \in Seq(S) /\ Len(Startup) = 9
        /\ Teardown \in Seq(S) /\ Len(Teardown) = 7
    <2>1. /\ Startup[1] \in S /\ Startup[2] \in S /\ Startup[3] \in S
          /\ Startup[4] \in S /\ Startup[5] \in S /\ Startup[6] \in S
          /\ Startup[7] \in S /\ Startup[8] \in S /\ Startup[9] \in S
          /\ Teardown[1] \in S /\ Teardown[2] \in S /\ Teardown[3] \in S
          /\ Teardown[4] \in S /\ Teardown[5] \in S /\ Teardown[6] \in S
          /\ Teardown[7] \in S
      OBVIOUS
    <2> HIDE DEF S
    <2>2. Startup \in Seq(S)
      BY <2>1 DEF Startup
    <2>3. Teardown \in Seq(S)
      BY <2>1 DEF Teardown
    <2>4. Len(Startup) = 9
      BY DEF Startup
    <2>5. Len(Teardown) = 7
      BY DEF Teardown
    <2> QED  BY <2>2, <2>3, <2>4, <2>5
  <1> HIDE DEF S
  <1>2. /\ Len(Calls) = 16 /\ DOMAIN Calls = 1..16
        /\ \A i \in 1..16 : Calls[i] = IF i <= 9 THEN Startup[i] ELSE Teardown[i - 9]
    <2>1. /\ Calls \in Seq(S) /\ Len(Calls) = Len(Startup) + Len(Teardown)
          /\ \A i \in 1 .. Len(Startup) + Len(Teardown) : Calls[i] =
               IF i <= Len(Startup) THEN Startup[i] ELSE Teardown[i - Len(Startup)]
      BY <1>1, ConcatProperties DEF Calls
    <2>2. Len(Calls) = 16
      BY <1>1, <2>1
    <2>3. DOMAIN Calls = 1..16
      <3>1. DOMAIN Calls = 1..Len(Calls)
        BY <2>1, LenProperties
      <3> QED  BY <2>2, <3>1
    <2>4. Len(Startup) + Len(Teardown) = 16
      BY <1>1
    <2> QED  BY <1>1, <2>1, <2>2, <2>3, <2>4
  <1>3. /\ Calls[1] = Call("efl_init", "eina") /\ Calls[2] = Call("efl_init", "ecore")
        /\ Calls[3] = Call("options", "argv") /\ Calls[4] = Call("init", "conf")
        /\ Calls[5] = Call("init", "rules") /\ Calls[6] = Call("init", "spy")
        /\ Calls[7] = Call("init", "store") /\ Calls[8] = Call("new", "smman")
        /\ Calls[9] = Call("loop", "ecore")
    BY <1>2 DEF Startup
  <1>4. /\ Calls[10] = Call("shutdown", "store") /\ Calls[11] = Call("shutdown", "spy")
        /\ Calls[12] = Call("shutdown", "rules") /\ Calls[13] = Call("shutdown", "conf")
        /\ Calls[14] = Call("efl_shutdown", "ecore") /\ Calls[15] = Call("unregister", "smman")
        /\ Calls[16] = Call("efl_shutdown", "eina")
    BY <1>2 DEF Teardown
  <1>5. ASSUME NEW i \in 1..16
        PROVE  /\ Calls[i].what = "efl_init" =>
                    Calls[i].of \in {"eina", "ecore"} /\ i = EflInitAt[Calls[i].of]
               /\ Calls[i].what = "init" => Calls[i].of \in Library /\ i = InitAt[Calls[i].of]
               /\ Calls[i].what = "shutdown" =>
                    Calls[i].of \in Library /\ i = ShutdownAt[Calls[i].of]
               /\ Calls[i].what = "efl_shutdown" =>
                    Calls[i].of \in {"eina", "ecore"} /\ i = EflShutdownAt[Calls[i].of]
               /\ i = 14 => Calls[i].what = "efl_shutdown"
               /\ i > 14 => Calls[i].what \in {"unregister", "efl_shutdown"}
               /\ Calls[i].what = "unregister" <=> i = 15
               /\ Calls[i].what = "new" => i = 8
    <2>1. CASE i <= 9
      <3>1. i \in {1, 2, 3, 4, 5, 6, 7, 8, 9}
        BY <1>5, <2>1
      <3> QED  BY <1>3, <3>1 DEF Call, Library, InitAt, EflInitAt
    <2>2. CASE i > 9
      <3>1. i \in {10, 11, 12, 13, 14, 15, 16}
        BY <1>5, <2>2
      <3> QED  BY <1>4, <3>1 DEF Call, Library, ShutdownAt, EflShutdownAt
    <2> QED  BY <2>1, <2>2
  <1>6. \A l \in Library : Calls[ShutdownAt[l]] = Call("shutdown", l)
    BY <1>4 DEF Library, ShutdownAt
  <1>7. \A m \in {"eina", "ecore"} : Calls[EflShutdownAt[m]] = Call("efl_shutdown", m)
    BY <1>4 DEF EflShutdownAt
  <1> QED  BY <1>2, <1>5, <1>6, <1>7

LEMMA MainInvInit == MainInit => MainInv /\ CountInit
  <1> SUFFICES ASSUME MainInit PROVE MainInv  BY DEF MainInit
  <1>1. /\ next = 1 /\ status = "running" /\ \A l \in Library : held[l] = 0
        /\ \A m \in Efl : own[m] = 0
    BY DEF MainInit, CountInit
  <1>2. {"eina", "ecore"} \subseteq Efl
    BY DEF Efl
  <1> QED  BY <1>1, <1>2 DEF MainInv, Holds, Owns

\* The functions of a library never make more of what their client holds.
LEMMA LibraryStepHolds ==
  ASSUME CountInv, NEW l \in Library, LibraryStep(l)
  PROVE  /\ \A k \in Library : held'[k] \in Nat /\ held'[k] <= held[k]
         /\ own' = own /\ ~Resting
  <1>1. CountInv' /\ CountTypeOK /\ CountTypeOK'
    <2>1. [CountNext]_countVars
      BY DEF CountNext
    <2> QED  BY <2>1, CountStep DEF CountInv
  <1>2. held \in [Library -> Nat] /\ held' \in [Library -> Nat]
    BY <1>1 DEF CountTypeOK
  <1>3. op[l] # "rest"
    BY DEF LibraryStep, InitStep, InitFails, InitDone, Unwind, UndoDone, ShutdownDone, Runs
  <1>4. held' = held \/ held' = [held EXCEPT ![l] = @ - 1]
    BY DEF LibraryStep, InitStep, InitFails, InitDone, Unwind, UndoDone, ShutdownDone, clientVars
  <1>5. own' = own
    BY DEF LibraryStep, InitStep, InitFails, InitDone, Unwind, UndoDone, ShutdownDone, clientVars
  <1> QED  BY <1>2, <1>3, <1>4, <1>5 DEF Resting

(***************************************************************************)
(* Each call of main is one a client may make.  For libconf and for EFL    *)
(* this needs the order of the shutdowns: when main comes to them, librules*)
(* is down, and then every library is.                                     *)
(***************************************************************************)
LEMMA RestingFacts ==
  ASSUME CountInv, Resting
  PROVE  /\ \A l \in Library \ {"conf"} : held[l] = count[l]
         /\ held["rules"] = 0 => held["conf"] = count["conf"]
         /\ (\A l \in Library : held[l] = 0) =>
              /\ \A l \in Library : count[l] = 0
              /\ \A m \in Efl : efl[m] = own[m]
              /\ domains = {}
  <1>1. /\ CountTypeOK /\ Standing /\ Owners /\ Domains /\ EflCounts
        /\ {"conf", "rules"} \subseteq Library
    BY DEF CountInv, Library
  <1>2. \A l \in Library : at[l] = IF count[l] > 0 THEN Height(l) ELSE 0
    BY <1>1 DEF Resting, Standing
  <1>3. \A l \in Library \ {"conf"} : held[l] = count[l]
    BY <1>1 DEF Owners
  <1>4. ASSUME held["rules"] = 0  PROVE held["conf"] = count["conf"]
    <2>1. at["rules"] = 0
      BY <1>1, <1>2, <1>3, <1>4
    <2>2. count["conf"] = held["conf"] + 0
      BY <1>1, <2>1 DEF Owners
    <2> QED  BY <1>1, <2>2, CountFacts
  <1>5. ASSUME \A l \in Library : held[l] = 0
        PROVE  /\ \A l \in Library : count[l] = 0
               /\ \A m \in Efl : efl[m] = own[m]
               /\ domains = {}
    <2>1. \A l \in Library : count[l] = 0
      BY <1>1, <1>3, <1>4, <1>5
    <2>2. \A l \in Library : at[l] = 0
      BY <1>2, <2>1
    <2>3. domains = {}
      BY <1>1, <2>2 DEF Domains
    <2>4. \A m \in Efl : Holders(m) = {}
      BY <2>2 DEF Holders, Has
    <2>5. \A m \in Efl : efl[m] = own[m]
      <3>1. Cardinality({}) = 0
        BY FS_EmptySet
      <3>2. ASSUME NEW m \in Efl  PROVE efl[m] = own[m] + 0 /\ own[m] \in Nat
        BY <1>1, <2>4, <3>1 DEF EflCounts, CountTypeOK
      <3> QED  BY <3>2
    <2> QED  BY <2>1, <2>3, <2>5
  <1> QED  BY <1>3, <1>4, <1>5

LEMMA MainLegal ==
  ASSUME CountInv, MainInv, [MainNext]_mainVars
  PROVE  [CountNext]_countVars
  <1>1. CASE MainEflInit
    <2>1. PICK m \in Efl : CallEflInit(m) \/ UNCHANGED countVars
      BY <1>1, CallsFacts DEF MainEflInit, Now, Efl
    <2> QED  BY <2>1 DEF CountNext
  <1>2. CASE MainLibraryInit
    <2>1. Calls[next].of \in Library /\ CallInit(Calls[next].of)
      BY <1>2, CallsFacts DEF MainLibraryInit, Now
    <2> QED  BY <2>1 DEF CountNext
  <1>3. CASE MainShutdown
    <2> DEFINE l == Calls[next].of
    <2>1. l \in Library /\ next = ShutdownAt[l] /\ Resting /\ Shutdown(l)
      BY <1>3, CallsFacts DEF MainShutdown, Now
    <2>2. held[l] = count[l]
      <3>1. CASE l # "conf"
        BY <2>1, <3>1, RestingFacts
      <3>2. CASE l = "conf"
        <4>1. held["rules"] = 0
          BY <2>1, <3>2 DEF MainInv, Holds, ShutdownAt, Library
        <4> QED  BY <2>1, <3>2, <4>1, RestingFacts
      <3> QED  BY <3>1, <3>2
    <2>3. held[l] > 0 \/ count[l] = 0
      <3> HIDE DEF l
      <3>1. count[l] \in Nat
        BY <2>1, CountFacts DEF CountInv
      <3> QED  BY <2>2, <3>1
    <2> QED  BY <2>1, <2>3 DEF CallShutdown, CountNext
  <1>4. CASE MainEflShutdown
    <2> DEFINE m == Calls[next].of
    <2>1. m \in {"eina", "ecore"} /\ next = EflShutdownAt[m] /\ Resting /\ EflShutdown(m)
      BY <1>4, CallsFacts DEF MainEflShutdown, Now
    <2>2. m \in Efl
      BY <2>1 DEF Efl
    <2>3. \A l \in Library : held[l] = 0
      BY <2>1 DEF MainInv, Holds, ShutdownAt, EflShutdownAt, Library
    <2>4. efl[m] = own[m] /\ own[m] \in Nat
      <3> HIDE DEF m
      <3> QED  BY <2>1, <2>2, <2>3, RestingFacts DEF CountInv, CountTypeOK
    <2>5. own[m] > 0 \/ efl[m] = 0
      <3> HIDE DEF m
      <3> QED  BY <2>4
    <2> QED  BY <2>1, <2>2, <2>5 DEF CallEflShutdown, CountNext
  <1>5. CASE MainOptions \/ MainNew \/ MainLoop \/ MainUnregister \/ MainReturn
             \/ UNCHANGED mainVars
    BY <1>5 DEF MainOptions, MainNew, MainLoop, MainUnregister, MainReturn, mainVars
  <1>6. CASE \E l \in Library : LibraryStep(l)
    BY <1>6 DEF CountNext
  <1> QED  BY <1>1, <1>2, <1>3, <1>4, <1>5, <1>6 DEF MainNext, MainCall, Returned

(***************************************************************************)
(* A call other than a shutdown takes nothing back.                        *)
(***************************************************************************)
LEMMA HoldsOn ==
  ASSUME MainInv, next \in DOMAIN Calls, next' = next + 1,
         UNCHANGED held, Calls[next].what # "shutdown"
  PROVE  Holds'
  <1>1. ASSUME NEW l \in Library  PROVE next # ShutdownAt[l]
    <2>1. Calls[ShutdownAt[l]] = Call("shutdown", l)
      BY CallsFacts
    <2>2. Calls[ShutdownAt[l]].what = "shutdown"
      BY <2>1 DEF Call
    <2> QED  BY <2>2
  <1>2. ASSUME NEW l \in Library
        PROVE  /\ held'[l] <= 1
               /\ next' <= InitAt[l] \/ next' > ShutdownAt[l] => held'[l] = 0
    <2>1. ShutdownAt[l] \in Nat /\ InitAt[l] \in Nat /\ next \in Nat
      BY DEF ShutdownAt, InitAt, Library, MainInv
    <2>2. next # ShutdownAt[l]
      BY <1>1
    <2> QED  BY <2>1, <2>2 DEF MainInv, Holds
  <1> QED  BY <1>2 DEF Holds

LEMMA OwnsOn ==
  ASSUME MainInv, next \in DOMAIN Calls, next' = next + 1,
         UNCHANGED own, Calls[next].what # "efl_shutdown"
  PROVE  Owns'
  <1>1. \A m \in {"eina", "ecore"} : next # EflShutdownAt[m]
    BY CallsFacts DEF Call
  <1>2. ASSUME NEW m \in {"eina", "ecore"}
        PROVE  /\ own'[m] <= 1
               /\ next' <= EflInitAt[m] \/ next' > EflShutdownAt[m] => own'[m] = 0
    <2>1. EflShutdownAt[m] \in Nat /\ EflInitAt[m] \in Nat /\ next \in Nat
      BY DEF EflShutdownAt, EflInitAt, MainInv
    <2>2. next # EflShutdownAt[m]
      BY <1>1
    <2> QED  BY <2>1, <2>2 DEF MainInv, Owns
  <1> QED  BY <1>2 DEF MainInv, Owns

LEMMA MainStep ==
  ASSUME CountInv, MainInv, [MainNext]_mainVars
  PROVE  MainInv'
  <1>1. /\ CountTypeOK /\ next \in 1..17 /\ Holds /\ Owns
        /\ next > 14 => Resting
        /\ next > 15 => ~logDomain
        /\ status = "over" => next = 17
    BY DEF CountInv, MainInv
  <1>2. \A what : Now(what) => /\ status = "running" /\ Resting /\ next \in DOMAIN Calls
                               /\ next \in 1..16 /\ Calls[next].what = what
    BY CallsFacts DEF Now
  <1>3. CASE \E l \in Library : LibraryStep(l) /\ UNCHANGED <<next, status, logDomain>>
    <2>1. PICK l \in Library : LibraryStep(l) /\ UNCHANGED <<next, status, logDomain>>
      BY <1>3
    <2>2. /\ \A k \in Library : held'[k] \in Nat /\ held'[k] <= held[k]
          /\ own' = own /\ ~Resting
      BY <2>1, LibraryStepHolds
    <2>3. Holds'
      <3>1. \A k \in Library : held[k] \in Nat
        BY <1>1 DEF CountTypeOK
      <3>2. ASSUME NEW k \in Library
            PROVE  /\ held'[k] <= 1
                   /\ next' <= InitAt[k] \/ next' > ShutdownAt[k] => held'[k] = 0
        <4>1. held[k] <= 1 /\ (next <= InitAt[k] \/ next > ShutdownAt[k] => held[k] = 0)
          BY <1>1 DEF Holds
        <4>2. next' = next /\ held'[k] \in Nat /\ held[k] \in Nat /\ held'[k] <= held[k]
          BY <2>1, <2>2, <3>1
        <4> QED  BY <4>1, <4>2
      <3> QED  BY <3>2 DEF Holds
    <2> QED  BY <1>1, <2>1, <2>2, <2>3 DEF MainInv, Owns
  <1>4. CASE MainEflInit
    <2> DEFINE m == Calls[next].of
    <2>1. /\ Now("efl_init") /\ next' = next + 1 /\ UNCHANGED <<status, logDomain>>
          /\ CallEflInit(m) \/ (efl[m] = 0 /\ UNCHANGED countVars)
      BY <1>4 DEF MainEflInit, GoOn
    <2>2. /\ m \in {"eina", "ecore"} /\ next = EflInitAt[m]
          /\ next \in 1..16 /\ next \in DOMAIN Calls /\ status = "running"
          /\ Calls[next].what = "efl_init" /\ next <= 2
      BY <1>2, <2>1, CallsFacts DEF EflInitAt
    <2>3. held' = held /\ UNCHANGED <<count, at, op>>
      BY <2>1 DEF CallEflInit, countVars, libVars, clientVars
    <2>4. own[m] = 0 /\ m \in Efl
      BY <1>1, <2>2 DEF Owns, Efl
    <2>5. own' = own \/ own' = [own EXCEPT ![m] = 1]
      <3> HIDE DEF m
      <3> QED  BY <2>1, <2>4 DEF CallEflInit, countVars, clientVars
    <2>6. \A k \in Efl : k # m => own'[k] = own[k]
      <3> HIDE DEF m
      <3> QED  BY <1>1, <2>5 DEF CountTypeOK
    <2>7. own'[m] <= 1
      <3> HIDE DEF m
      <3> QED  BY <1>1, <2>4, <2>5 DEF CountTypeOK
    <2>8. Owns'
      <3> HIDE DEF m
      <3>1. ASSUME NEW k \in {"eina", "ecore"}
            PROVE  /\ own'[k] <= 1
                   /\ next' <= EflInitAt[k] \/ next' > EflShutdownAt[k] => own'[k] = 0
        <4>1. k \in Efl
          BY DEF Efl
        <4>2. CASE k = m
          BY <2>1, <2>2, <2>7, <4>2 DEF EflShutdownAt, EflInitAt
        <4>3. CASE k # m
          BY <1>1, <2>1, <2>2, <2>6, <4>1, <4>3 DEF Owns, EflShutdownAt, EflInitAt
        <4> QED  BY <4>2, <4>3
      <3> QED  BY <1>1, <2>2, <2>6, <3>1 DEF Owns
    <2>9. Holds'
      BY <2>1, <2>2, <2>3, HoldsOn
    <2> HIDE DEF m
    <2> QED  BY <1>1, <2>1, <2>2, <2>8, <2>9 DEF MainInv
  <1>5. CASE MainLibraryInit
    <2> DEFINE l == Calls[next].of
    <2>1. /\ Now("init") /\ next' = next + 1 /\ UNCHANGED <<status, logDomain>>
          /\ held' = [held EXCEPT ![l] = @ + 1] /\ own' = own
      BY <1>5 DEF MainLibraryInit, GoOn, CallInit
    <2>2. /\ l \in Library /\ next = InitAt[l] /\ next <= 7
          /\ next \in 1..16 /\ next \in DOMAIN Calls /\ status = "running"
          /\ Calls[next].what = "init"
      BY <1>2, <2>1, CallsFacts DEF InitAt, Library
    <2>3. held[l] = 0
      BY <1>1, <2>2 DEF Holds
    <2>4. held'[l] = 1 /\ \A k \in Library : k # l => held'[k] = held[k]
      <3> HIDE DEF l
      <3> QED  BY <1>1, <2>1, <2>2, <2>3 DEF CountTypeOK
    <2>5. Holds'
      <3> HIDE DEF l
      <3>1. ASSUME NEW k \in Library
            PROVE  /\ held'[k] <= 1
                   /\ next' <= InitAt[k] \/ next' > ShutdownAt[k] => held'[k] = 0
        <4>1. InitAt[k] \in Nat /\ ShutdownAt[k] \in 10..13 /\ next \in Nat
          BY <2>2 DEF InitAt, ShutdownAt, Library
        <4>2. CASE k = l
          BY <2>1, <2>2, <2>4, <4>1, <4>2
        <4>3. CASE k # l
          BY <1>1, <2>1, <2>2, <2>4, <4>1, <4>3 DEF Holds
        <4> QED  BY <4>2, <4>3
      <3> QED  BY <3>1 DEF Holds
    <2>6. Owns'
      BY <2>1, <2>2, OwnsOn
    <2> HIDE DEF l
    <2> QED  BY <1>1, <2>1, <2>2, <2>5, <2>6 DEF MainInv
  <1>6. CASE MainShutdown
    <2> DEFINE l == Calls[next].of
    <2>1. /\ Now("shutdown") /\ next' = next + 1 /\ UNCHANGED <<status, logDomain>>
          /\ held' = [held EXCEPT ![l] = IF @ > 0 THEN @ - 1 ELSE 0] /\ own' = own
      BY <1>6 DEF MainShutdown, GoOn, Shutdown
    <2>2. /\ l \in Library /\ next = ShutdownAt[l] /\ next <= 13 /\ next >= 10
          /\ next \in 1..16 /\ next \in DOMAIN Calls /\ status = "running"
          /\ Calls[next].what = "shutdown"
      BY <1>2, <2>1, CallsFacts DEF ShutdownAt, Library
    <2>3. held[l] \in Nat /\ held[l] <= 1
      BY <1>1, <2>2 DEF Holds, CountTypeOK
    <2>4. held'[l] = 0 /\ \A k \in Library : k # l => held'[k] = held[k]
      <3> HIDE DEF l
      <3> QED  BY <1>1, <2>1, <2>2, <2>3 DEF CountTypeOK
    <2>5. Holds'
      <3> HIDE DEF l
      <3>1. ASSUME NEW k \in Library
            PROVE  /\ held'[k] <= 1
                   /\ next' <= InitAt[k] \/ next' > ShutdownAt[k] => held'[k] = 0
        <4>1. InitAt[k] \in 4..7 /\ ShutdownAt[k] \in 10..13 /\ next \in Nat
              /\ (ShutdownAt[k] = ShutdownAt[l] => k = l)
          BY <2>2 DEF InitAt, ShutdownAt, Library
        <4>2. CASE k = l
          BY <2>4, <4>2
        <4>3. CASE k # l
          BY <1>1, <2>1, <2>2, <2>4, <4>1, <4>3 DEF Holds
        <4> QED  BY <4>2, <4>3
      <3> QED  BY <3>1 DEF Holds
    <2>6. Owns'
      BY <2>1, <2>2, OwnsOn
    <2> HIDE DEF l
    <2> QED  BY <1>1, <2>1, <2>2, <2>5, <2>6 DEF MainInv
  <1>7. CASE MainEflShutdown
    <2> DEFINE m == Calls[next].of
    <2>1. /\ Now("efl_shutdown") /\ next' = next + 1 /\ UNCHANGED <<status, logDomain>>
          /\ own' = [own EXCEPT ![m] = IF @ > 0 THEN @ - 1 ELSE 0]
          /\ UNCHANGED <<held, op>>
      BY <1>7 DEF MainEflShutdown, GoOn, EflShutdown, libVars
    <2>2. /\ m \in {"eina", "ecore"} /\ next = EflShutdownAt[m] /\ next >= 14
          /\ next \in 1..16 /\ next \in DOMAIN Calls /\ status = "running" /\ Resting
          /\ Calls[next].what = "efl_shutdown" /\ next # 15
      BY <1>2, <2>1, CallsFacts DEF EflShutdownAt
    <2>3. m \in Efl /\ own[m] \in Nat /\ own[m] <= 1
      BY <1>1, <2>2 DEF Owns, CountTypeOK, Efl
    <2>4. own'[m] = 0 /\ \A k \in Efl : k # m => own'[k] = own[k]
      <3> HIDE DEF m
      <3> QED  BY <1>1, <2>1, <2>3 DEF CountTypeOK
    <2>5. Owns'
      <3> HIDE DEF m
      <3>1. ASSUME NEW k \in {"eina", "ecore"}
            PROVE  /\ own'[k] <= 1
                   /\ next' <= EflInitAt[k] \/ next' > EflShutdownAt[k] => own'[k] = 0
        <4>1. k \in Efl
          BY DEF Efl
        <4>2. CASE k = m
          BY <2>4, <4>2
        <4>3. CASE k # m
          BY <1>1, <2>1, <2>2, <2>4, <4>1, <4>3 DEF Owns, EflShutdownAt, EflInitAt
        <4> QED  BY <4>2, <4>3
      <3> QED  BY <1>1, <2>2, <2>4, <3>1 DEF Owns
    <2>6. Holds'
      BY <2>1, <2>2, HoldsOn
    <2>7. Resting'
      BY <2>1, <2>2 DEF Resting
    <2>8. next' > 15 => ~logDomain'
      <3> HIDE DEF m
      <3> QED  BY <1>1, <2>1, <2>2
    <2> HIDE DEF m
    <2> QED  BY <1>1, <2>1, <2>2, <2>5, <2>6, <2>7, <2>8 DEF MainInv
  <1>8. CASE MainUnregister
    <2>1. /\ Now("unregister") /\ next' = next + 1 /\ status' = status /\ logDomain' = FALSE
          /\ UNCHANGED <<held, own, op>>
      BY <1>8 DEF MainUnregister, GoOn, countVars, clientVars, libVars
    <2>2. /\ next = 15 /\ next \in DOMAIN Calls /\ status = "running" /\ Resting
          /\ Calls[next].what = "unregister"
      BY <1>2, <2>1, CallsFacts
    <2>3. Holds' /\ Owns'
      BY <2>1, <2>2, HoldsOn, OwnsOn
    <2> QED  BY <2>1, <2>2, <2>3 DEF MainInv, Resting
  <1>9. CASE MainOptions \/ MainNew \/ MainLoop
    <2>1. /\ Now("options") \/ Now("new") \/ Now("loop")
          /\ \/ next' = next + 1 /\ status' = status
             \/ status' = "early" /\ next' = next
          /\ UNCHANGED <<held, own, op>>
      BY <1>9 DEF MainOptions, MainNew, MainLoop, GoOn, ReturnEarly, countVars,
                  clientVars, libVars
    <2>2. /\ next <= 14 /\ next # 14 /\ next \in 1..16 /\ next \in DOMAIN Calls
          /\ status = "running" /\ Resting
          /\ Calls[next].what \notin {"shutdown", "efl_shutdown"}
      <3>1. /\ next \in 1..16 /\ next \in DOMAIN Calls /\ status = "running" /\ Resting
            /\ Calls[next].what \in {"options", "new", "loop"}
        BY <1>2, <2>1
      <3> QED  BY <3>1, CallsFacts
    <2>3. CASE next' = next + 1 /\ status' = status
      <3>1. Holds' /\ Owns'
        BY <2>1, <2>2, <2>3, HoldsOn, OwnsOn
      <3> QED  BY <2>2, <2>3, <3>1 DEF MainInv
    <2>4. CASE status' = "early" /\ next' = next
      BY <1>1, <2>1, <2>2, <2>4 DEF MainInv, Holds, Owns
    <2> QED  BY <2>1, <2>3, <2>4
  <1>10. CASE MainReturn
    <2>1. /\ next > 16 /\ next' = next /\ logDomain' = logDomain /\ UNCHANGED <<held, own, op>>
      BY <1>10, CallsFacts DEF MainReturn, countVars, clientVars, libVars
    <2> QED  BY <1>1, <2>1 DEF MainInv, Holds, Owns, Resting
  <1>11. CASE UNCHANGED mainVars
    BY <1>11 DEF MainInv, Holds, Owns, Resting, mainVars, countVars, clientVars, libVars
  <1> QED  BY <1>3, <1>4, <1>5, <1>6, <1>7, <1>8, <1>9, <1>10, <1>11
           DEF MainNext, MainCall, Returned

LEMMA MainInvariant == MainSpec => [](CountInv /\ MainInv)
  <1>1. MainInit => CountInv /\ MainInv
    BY MainInvInit, CountInvInit
  <1>2. CountInv /\ MainInv /\ [MainNext]_mainVars => CountInv' /\ MainInv'
    BY MainLegal, MainStep, CountStep
  <1> QED  BY <1>1, <1>2, PTL DEF MainSpec

(***************************************************************************)
(* main is a client that keeps to the rules of CountSpec, whatever init    *)
(* failed without its noticing: it shuts nothing down that it does not     *)
(* hold unless it is down, and never takes libconf away from librules.     *)
(***************************************************************************)
THEOREM MainCallsLegally == MainSpec => CallsAreLegal
  <1>1. MainInit => CountInit
    BY DEF MainInit
  <1>2. CountInv /\ MainInv /\ [MainNext]_mainVars => [CountNext]_countVars
    BY MainLegal
  <1> QED  BY <1>1, <1>2, MainInvariant, PTL DEF MainSpec, CallsAreLegal, CountSpec

(***************************************************************************)
(* What was proved of every client holds in smman.                         *)
(***************************************************************************)
THEOREM MainBalanced == MainSpec => [](CountTypeOK /\ Balanced /\ UpWhileHeld)
  BY MainCallsLegally, CountTypes, BalancedAlways, UpWhileHeldAlways, PTL DEF CallsAreLegal

(***************************************************************************)
(* When main returns 0 everything it or a library initialised is shut      *)
(* down, whatever failed at startup and was undone on the way.             *)
(***************************************************************************)
THEOREM CleanExitAlways == MainSpec => []CleanExit
  <1>1. CountInv /\ MainInv => CleanExit
    <2> SUFFICES ASSUME CountInv, MainInv, status = "over"
                 PROVE  /\ \A l \in Library : count[l] = 0
                        /\ \A m \in Efl : efl[m] = 0
                        /\ domains = {} /\ ~logDomain
      BY DEF CleanExit
    <2>1. next = 17 /\ Resting /\ ~logDomain
      BY DEF MainInv
    <2>2. \A l \in Library : held[l] = 0
      BY <2>1 DEF MainInv, Holds, ShutdownAt, Library
    <2>3. \A m \in Efl : own[m] = 0
      BY <2>1 DEF MainInv, Owns, EflShutdownAt, Efl
    <2> QED  BY <2>1, <2>2, <2>3, RestingFacts
  <1> QED  BY <1>1, MainInvariant, PTL
=============================================================================
