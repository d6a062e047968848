--------------------------- MODULE BackendLemmas ---------------------------
(***************************************************************************)
(* What the proofs about the backends cite.  First what holds of the       *)
(* caller whatever the backend does, as an inductive invariant with one    *)
(* lemma per step: `places' are the places of a backend's calls, `working' *)
(* those of create_or_update_server among them.  Then what the loop over   *)
(* the rules of an azure server computes, for every sequence of wanted     *)
(* rules and whatever rules the server has: an invariant of the loop, and  *)
(* one lemma per step.                                                     *)
(***************************************************************************)
EXTENDS ServerCaller, RuleLoop, TLAPS, SequenceTheorems

Ends == {"delete", "delete_secret", "release"}

\* The places are none of the caller's own.
Apart(places, working) ==
    working \subseteq places /\ "idle" \notin places /\ Ends \cap places = {}

\* A call belongs to an object, a deletion to an object that is being deleted; a call that
\* brings about a server does what its spec says, and says that the password is new as long
\* as none is published; the one that is published is the one the handler works with.
CallerInv(places, working) ==
    /\ CallerType(places)
    /\ object.exists => object.spec \in Specs /\ password # 0
    /\ ~object.exists => ~object.done /\ ~object.deleting
    /\ ~At("idle") => object.exists
    /\ call.pc \in Ends \cup (places \ working) => object.deleting
    /\ call.pc \in working =>
           ~object.done /\ call.spec \in Specs /\ call.changed = (published = 0)
    /\ published # 0 => published = password
    /\ \A k \in Kinds : budget[k] <= Budget[k]

\* A step that does not give back what was spent.
Frugal == budget' \in [Kinds -> Nat] /\ \A k \in Kinds : budget'[k] <= budget[k]

LEMMA SpendIsFrugal ==
    ASSUME budget \in [Kinds -> Nat], NEW k \in Kinds, Spend(k)
    PROVE  Frugal
BY DEF Spend, Frugal

LEMMA KeepIsFrugal ==
    ASSUME budget \in [Kinds -> Nat], UNCHANGED budget
    PROVE  Frugal
BY DEF Frugal

LEMMA FrugalBudget ==
    ASSUME NEW places, NEW working, CallerInv(places, working), Frugal
    PROVE  budget' \in [Kinds -> Nat] /\ \A k \in Kinds : budget'[k] <= Budget[k]
<1> SUFFICES ASSUME NEW k \in Kinds PROVE budget'[k] <= Budget[k]
  BY DEF Frugal
<1>1. budget[k] \in Nat /\ budget'[k] \in Nat /\ Budget[k] \in Nat
  BY CallerAssumption DEF CallerInv, CallerType, Frugal
<1> QED
  BY <1>1 DEF CallerInv, Frugal

\* What is whole now was whole before, and what is spent does not look whole.
LEMMA WholeBefore ==
    ASSUME NEW places, NEW working, CallerInv(places, working), Frugal,
           NEW k \in Kinds, budget'[k] = Budget[k]
    PROVE  budget[k] = Budget[k]
<1>1. budget[k] \in Nat /\ budget'[k] \in Nat /\ Budget[k] \in Nat
  BY CallerAssumption DEF CallerInv, CallerType, Frugal
<1> QED
  BY <1>1 DEF CallerInv, Frugal

LEMMA SpentIsNotWhole ==
    ASSUME NEW places, NEW working, CallerInv(places, working), NEW k \in Kinds, Spend(k)
    PROVE  budget'[k] # Budget[k]
<1>1. budget[k] \in Nat /\ Budget[k] \in Nat /\ budget[k] <= Budget[k]
  BY CallerAssumption DEF CallerInv, CallerType
<1>2. budget'[k] = budget[k] - 1
  BY DEF CallerInv, CallerType, Spend
<1> QED
  BY <1>1, <1>2

\* Initially there is no object and no call.
LEMMA CallerInitially ==
    ASSUME NEW places, NEW working, Apart(places, working), CallerInit
    PROVE  CallerInv(places, working)
<1>1. Budget \in [Kinds -> Nat]
  BY CallerAssumption
<1>2. CallerType(places)
  BY <1>1 DEF CallerInit, CallerType, NoObject, NoCall
<1>3. /\ ~object.exists /\ ~object.done /\ ~object.deleting /\ published = 0
      /\ call.pc = "idle" /\ \A k \in Kinds : budget[k] <= Budget[k]
  BY <1>1 DEF CallerInit, NoObject, NoCall
<1>4. "idle" \notin Ends \cup places
  BY DEF Ends, Apart
<1> QED
  BY <1>2, <1>3, <1>4 DEF CallerInv, At, Apart

\* The call goes on, and stays what it is: one that works, or one that deletes.
LEMMA CallerSteps ==
    ASSUME NEW places, NEW working, Apart(places, working), CallerInv(places, working),
           NEW from \in places \cup Ends, NEW next \in places \cup Ends,
           next \in working => from \in working,
           next \notin working => from \notin working,
           Step(from, next), Frugal
    PROVE  CallerInv(places, working)'
BY FrugalBudget DEF CallerInv, CallerType, Step, At, Ends, Apart, resource

\* The call ends without a result, or the caller sees nothing of the step.
LEMMA CallerBreaks ==
    ASSUME NEW places, NEW working, Apart(places, working), CallerInv(places, working),
           call' = NoCall, UNCHANGED resource, Frugal
    PROVE  CallerInv(places, working)'
BY FrugalBudget DEF CallerInv, CallerType, NoCall, At, Ends, Apart, resource

LEMMA CallerStays ==
    ASSUME NEW places, NEW working, Apart(places, working), CallerInv(places, working),
           UNCHANGED <<resource, call>>, Frugal
    PROVE  CallerInv(places, working)'
BY FrugalBudget DEF CallerInv, CallerType, At, Ends, Apart, resource

LEMMA CallerBegins ==
    ASSUME NEW places, NEW working, Apart(places, working), CallerInv(places, working),
           NEW next \in working, Begin(next)
    PROVE  CallerInv(places, working)'
BY DEF CallerInv, CallerType, Begin, At, Ends, Apart, resource

LEMMA CallerFinishes ==
    ASSUME NEW places, NEW working, Apart(places, working), CallerInv(places, working),
           NEW from \in working, Finish(from)
    PROVE  CallerInv(places, working)'
BY DEF CallerInv, CallerType, Finish, NoCall, At, Ends, Apart

LEMMA CallerFinds ==
    ASSUME NEW places, NEW working, Apart(places, working), CallerInv(places, working),
           NEW found \in BOOLEAN, BeginDelete(found), Frugal
    PROVE  CallerInv(places, working)'
BY FrugalBudget
   DEF CallerInv, CallerType, BeginDelete, NoCall, At, Ends, Apart, resource

LEMMA CallerEnds ==
    ASSUME NEW places, NEW working, Apart(places, working), CallerInv(places, working),
           DeleteCredentials \/ Release
    PROVE  CallerInv(places, working)' /\ Frugal
<1>0. budget \in [Kinds -> Nat]
  BY DEF CallerInv, CallerType
<1>1. CASE DeleteCredentials
  <2>1. Frugal
    BY <1>0, <1>1, SpendIsFrugal, KeepIsFrugal DEF DeleteCredentials, MayFail, Kinds
  <2> QED
    BY <1>1, <2>1, FrugalBudget
       DEF CallerInv, CallerType, DeleteCredentials, At, Ends, Apart
<1>2. CASE Release
  <2>1. Frugal
    BY <1>0, <1>2, KeepIsFrugal DEF Release
  <2> QED
    BY <1>2, <2>1 DEF CallerInv, CallerType, Release, NoObject, NoCall, At, Ends, Apart
<1> QED
  BY <1>1, <1>2

LEMMA UsersAct ==
    ASSUME NEW places, NEW working, Apart(places, working), CallerInv(places, working), User
    PROVE  CallerInv(places, working)' /\ Frugal
<1>0. budget \in [Kinds -> Nat]
  BY DEF CallerInv, CallerType
<1>1. ASSUME NEW s \in Specs, CreateObject(s)
      PROVE  CallerInv(places, working)' /\ Frugal
  <2>1. Frugal
    BY <1>0, <1>1, SpendIsFrugal DEF CreateObject, Kinds
  <2>2. object' = [exists |-> TRUE, deleting |-> FALSE, done |-> FALSE, spec |-> s]
    BY <1>1 DEF CreateObject, NoObject
  <2>3. budget' \in [Kinds -> Nat] /\ \A k \in Kinds : budget'[k] <= Budget[k]
    BY <2>1, FrugalBudget
  <2>4. /\ password' \in Nat \ {0} /\ (published # 0 => password' = published)
        /\ published' = published /\ call' = call
    BY <1>1 DEF CallerInv, CallerType, CreateObject
  <2>5. CallerType(places)'
    BY <2>2, <2>3, <2>4 DEF CallerInv, CallerType
  <2> QED
    BY <1>1, <2>1, <2>2, <2>3, <2>4, <2>5 DEF CallerInv, CreateObject, At, Ends, Apart
<1>2. ASSUME NEW s \in Specs, EditSpec(s)
      PROVE  CallerInv(places, working)' /\ Frugal
  <2>1. Frugal
    BY <1>0, <1>2, SpendIsFrugal DEF EditSpec, Kinds
  <2> QED
    BY <1>2, <2>1, FrugalBudget
       DEF CallerInv, CallerType, EditSpec, At, Ends, Apart
<1>3. CASE Reset
  <2>1. Frugal
    BY <1>0, <1>3, SpendIsFrugal DEF Reset, Kinds
  <2>2. budget' \in [Kinds -> Nat] /\ \A k \in Kinds : budget'[k] <= Budget[k]
    BY <2>1, FrugalBudget
  <2>3. /\ password' \in Nat \ {0} /\ published' = 0
        /\ object' = [object EXCEPT !.done = FALSE] /\ call' = call
    BY <1>3 DEF CallerInv, CallerType, Reset
  <2>4. CallerType(places)'
    BY <2>2, <2>3 DEF CallerInv, CallerType
  <2> QED
    BY <1>3, <2>1, <2>2, <2>3, <2>4 DEF CallerInv, CallerType, Reset, At, Ends, Apart
<1>4. CASE DeleteObject
  <2>1. Frugal
    BY <1>0, <1>4, SpendIsFrugal DEF DeleteObject, Kinds
  <2> QED
    BY <1>4, <2>1, FrugalBudget
       DEF CallerInv, CallerType, DeleteObject, At, Ends, Apart
<1> QED
  BY <1>1, <1>2, <1>3, <1>4 DEF User
-----------------------------------------------------------------------------
(* The rules of one kind *)

LEMMA RulesTypes ==
    ASSUME NEW names, NEW ranges, NEW f
    PROVE  f \in RuleTables(names, ranges) <=>
               /\ f = [n \in DOMAIN f |-> f[n]] /\ DOMAIN f \subseteq names
               /\ \A n \in DOMAIN f : f[n] \in ranges
<1>1. ASSUME f \in RuleTables(names, ranges)
      PROVE  /\ f = [n \in DOMAIN f |-> f[n]] /\ DOMAIN f \subseteq names
             /\ \A n \in DOMAIN f : f[n] \in ranges
  <2>1. PICK N \in SUBSET names : f \in [N -> ranges]
    BY <1>1 DEF RuleTables
  <2> QED
    BY <2>1
<1>2. ASSUME f = [n \in DOMAIN f |-> f[n]], DOMAIN f \subseteq names,
             \A n \in DOMAIN f : f[n] \in ranges
      PROVE  f \in RuleTables(names, ranges)
  <2>1. f \in [DOMAIN f -> ranges]
    BY <1>2
  <2> QED
    BY <1>2, <2>1 DEF RuleTables
<1> QED
  BY <1>1, <1>2

LEMMA NoRulesType ==
    ASSUME NEW names, NEW ranges
    PROVE  NoRules \in RuleTables(names, ranges) /\ DOMAIN NoRules = {}
<1>1. NoRules = [n \in DOMAIN NoRules |-> NoRules[n]] /\ DOMAIN NoRules = {}
  BY DEF NoRules
<1> QED
  BY <1>1, RulesTypes

LEMMA WithoutType ==
    ASSUME NEW names, NEW ranges,
           NEW f \in RuleTables(names, ranges), NEW n
    PROVE  Without(f, n) \in RuleTables(names, ranges)
<1>1. Without(f, n) = [m \in DOMAIN Without(f, n) |-> Without(f, n)[m]]
  BY DEF Without
<1>2. /\ DOMAIN Without(f, n) \subseteq DOMAIN f
      /\ \A m \in DOMAIN Without(f, n) : Without(f, n)[m] = f[m]
  BY DEF Without
<1>3. DOMAIN f \subseteq names /\ \A m \in DOMAIN f : f[m] \in ranges
  BY RulesTypes
<1>4. /\ DOMAIN Without(f, n) \subseteq names
      /\ \A m \in DOMAIN Without(f, n) : Without(f, n)[m] \in ranges
  BY <1>2, <1>3
<1> QED
  BY <1>1, <1>4, RulesTypes

LEMMA WithType ==
    ASSUME NEW names, NEW ranges,
           NEW f \in RuleTables(names, ranges), NEW r \in RuleRecords(names, ranges)
    PROVE  With(f, r) \in RuleTables(names, ranges)
<1>1. With(f, r) = [m \in DOMAIN With(f, r) |-> With(f, r)[m]]
  BY DEF With
<1>2. r.name \in names /\ r.range \in ranges
  BY DEF RuleRecords
<1>3. DOMAIN f \subseteq names /\ \A m \in DOMAIN f : f[m] \in ranges
  BY RulesTypes
<1>4. DOMAIN With(f, r) \subseteq names /\ \A m \in DOMAIN With(f, r) : With(f, r)[m] \in ranges
  BY <1>2, <1>3 DEF With
<1> QED
  BY <1>1, <1>4, RulesTypes
-----------------------------------------------------------------------------
(* The loop *)

\* The i-th of the wanted rules is the last of its name among the first k.
IsLast(all, k, i, n) ==
    /\ i \in 1..k /\ all[i].name = n
    /\ \A j \in 1..k : all[j].name = n => j <= i

\* The loop is through with all but the rules td, the last ones wanted: rs are the rules of
\* the server, ex those it has listed and not come across.  What it has not come across is
\* as listed; what it has come across, and that is nothing else, says what the last of the
\* rules of the name says.
Through(all, rs, ex, td) ==
    /\ Len(td) <= Len(all)
    /\ \A i \in 1..Len(td) : td[i] = all[Len(all) - Len(td) + i]
    /\ \A n \in DOMAIN ex : n \in DOMAIN rs
    /\ \A i \in 1..(Len(all) - Len(td)) : all[i].name \in DOMAIN rs \ DOMAIN ex
    /\ \A n \in DOMAIN ex : rs[n] = ex[n]
    /\ \A n \in DOMAIN rs \ DOMAIN ex :
           \E i \in 1..(Len(all) - Len(td)) :
               IsLast(all, Len(all) - Len(td), i, n) /\ rs[n] = all[i].range

LEMMA LoopBegins ==
    ASSUME NEW Rs, NEW all \in Seq(Rs), NEW rs
    PROVE  Through(all, rs, rs, all)
<1>1. Len(all) \in Nat /\ Len(all) - Len(all) = 0
  OBVIOUS
<1> QED
  BY <1>1 DEF Through

LEMMA LoopSets ==
    ASSUME NEW Rs, NEW all \in Seq(Rs), NEW td \in Seq(Rs), NEW rs, NEW ex,
           td # <<>>, Through(all, rs, ex, td), NEW rs2,
           rs2 = IF Head(td).name \in DOMAIN ex /\ ex[Head(td).name] = Head(td).range THEN rs
                 ELSE With(rs, Head(td))
    PROVE  /\ Through(all, rs2, Without(ex, Head(td).name), Tail(td))
           /\ DOMAIN rs \subseteq DOMAIN rs2
<1> DEFINE r  == Head(td)
           k  == Len(all) - Len(td)
           ex2 == Without(ex, r.name)
<1>1. /\ r = td[1] /\ Tail(td) \in Seq(Rs)
      /\ Len(td) \in Nat \ {0} /\ Len(Tail(td)) = Len(td) - 1 /\ Len(all) \in Nat
      /\ \A i \in 1..Len(td) - 1 : Tail(td)[i] = td[i + 1]
  BY HeadTailProperties
<1>2. k \in Nat /\ Len(all) - Len(Tail(td)) = k + 1 /\ all[k + 1] = r
  BY <1>1 DEF Through
<1>3. /\ DOMAIN ex2 = DOMAIN ex \ {r.name} /\ \A n \in DOMAIN ex2 : ex2[n] = ex[n]
  BY DEF Without
<1>4. /\ DOMAIN rs2 = DOMAIN rs \cup {r.name}
      /\ rs2[r.name] = r.range /\ \A n \in DOMAIN rs \ {r.name} : rs2[n] = rs[n]
  <2>1. CASE r.name \in DOMAIN ex /\ ex[r.name] = r.range
    BY <2>1 DEF Through
  <2>2. CASE ~(r.name \in DOMAIN ex /\ ex[r.name] = r.range)
    <3>1. rs2 = With(rs, r)
      BY <2>2
    <3>2. /\ DOMAIN With(rs, r) = DOMAIN rs \cup {r.name}
          /\ With(rs, r)[r.name] = r.range
          /\ \A n \in DOMAIN rs \ {r.name} : With(rs, r)[n] = rs[n]
      BY DEF With
    <3> QED
      BY <3>1, <3>2
  <2> QED
    BY <2>1, <2>2
<1>5. \A i \in 1..Len(Tail(td)) : Tail(td)[i] = all[Len(all) - Len(Tail(td)) + i]
  <2> SUFFICES ASSUME NEW i \in 1..Len(Tail(td))
               PROVE  Tail(td)[i] = all[Len(all) - Len(Tail(td)) + i]
    OBVIOUS
  <2>1. i + 1 \in 1..Len(td) /\ Tail(td)[i] = td[i + 1]
    BY <1>1
  <2>2. td[i + 1] = all[Len(all) - Len(td) + (i + 1)]
    BY <2>1 DEF Through
  <2>3. Len(all) - Len(td) + (i + 1) = Len(all) - Len(Tail(td)) + i
    BY <1>1
  <2> QED
    BY <2>1, <2>2, <2>3
<1>6. \A n \in DOMAIN ex2 : n \in DOMAIN rs2 /\ rs2[n] = ex2[n]
  BY <1>3, <1>4 DEF Through
<1>7. \A i \in 1..k : all[i].name \in DOMAIN rs \ DOMAIN ex
  BY DEF Through
<1>8. \A i \in 1..(k + 1) : all[i].name \in DOMAIN rs2 \ DOMAIN ex2
  <2> SUFFICES ASSUME NEW i \in 1..(k + 1) PROVE all[i].name \in DOMAIN rs2 \ DOMAIN ex2
    OBVIOUS
  <2>1. CASE i = k + 1
    BY <1>2, <1>3, <1>4, <2>1
  <2>2. CASE i # k + 1
    BY <1>2, <1>3, <1>4, <1>7, <2>2
  <2> QED
    BY <2>1, <2>2
<1>9. ASSUME NEW n \in DOMAIN rs2 \ DOMAIN ex2
      PROVE  \E i \in 1..(k + 1) : IsLast(all, k + 1, i, n) /\ rs2[n] = all[i].range
  <2>1. CASE n = r.name
    <3>1. IsLast(all, k + 1, k + 1, n) /\ rs2[n] = all[k + 1].range
      BY <1>2, <1>4, <2>1 DEF IsLast
    <3> QED
      BY <1>2, <3>1
  <2>2. CASE n # r.name
    <3>1. n \in DOMAIN rs \ DOMAIN ex /\ rs2[n] = rs[n]
      BY <1>3, <1>4, <2>2
    <3>2. PICK i \in 1..k : IsLast(all, k, i, n) /\ rs[n] = all[i].range
      BY <3>1 DEF Through
    <3>3. IsLast(all, k + 1, i, n)
      BY <1>2, <2>2, <3>2 DEF IsLast
    <3> QED
      BY <1>2, <3>1, <3>2, <3>3
  <2> QED
    BY <2>1, <2>2
<1>10. Through(all, rs2, ex2, Tail(td))
  <2>1. Len(Tail(td)) <= Len(all)
    BY <1>1, <1>2
  <2> HIDE DEF ex2, k, r
  <2> QED
    BY <1>2, <1>5, <1>6, <1>8, <1>9, <2>1 DEF Through
<1> QED
  BY <1>4, <1>10

LEMMA LoopDeletes ==
    ASSUME NEW Rs, NEW all \in Seq(Rs), NEW rs, NEW ex,
           Through(all, rs, ex, <<>>), NEW n \in DOMAIN ex
    PROVE  /\ Through(all, Without(rs, n), Without(ex, n), <<>>)
           /\ \A i \in 1..Len(all) : all[i].name # n
<1>1. Len(all) \in Nat /\ Len(all) - Len(<<>>) = Len(all)
  OBVIOUS
<1>2. \A i \in 1..Len(all) : all[i].name \in DOMAIN rs \ DOMAIN ex
  BY <1>1 DEF Through
<1>3. /\ DOMAIN Without(rs, n) = DOMAIN rs \ {n}
      /\ \A m \in DOMAIN rs \ {n} : Without(rs, n)[m] = rs[m]
      /\ DOMAIN Without(ex, n) = DOMAIN ex \ {n}
      /\ \A m \in DOMAIN ex \ {n} : Without(ex, n)[m] = ex[m]
  BY DEF Without
<1> QED
  BY <1>1, <1>2, <1>3 DEF Through

LEMMA LoopEnds ==
    ASSUME NEW Rs, NEW all \in Seq(Rs), NEW rs, rs = [n \in DOMAIN rs |-> rs[n]],
           Through(all, rs, NoRules, <<>>)
    PROVE  rs = Wanted(all)
<1> DEFINE said    == {all[i].name : i \in DOMAIN all}
           last(n) == CHOOSE i \in DOMAIN all :
                          all[i].name = n /\ \A j \in DOMAIN all : all[j].name = n => j <= i
<1>1. /\ Len(all) \in Nat /\ Len(all) - Len(<<>>) = Len(all) /\ DOMAIN all = 1..Len(all)
      /\ DOMAIN NoRules = {}
  BY NoRulesType
<1>2. \A n \in DOMAIN rs :
          \E i \in 1..Len(all) : IsLast(all, Len(all), i, n) /\ rs[n] = all[i].range
  BY <1>1 DEF Through
<1>3. DOMAIN rs = said
  <2>1. said \subseteq DOMAIN rs
    BY <1>1 DEF Through
  <2>2. DOMAIN rs \subseteq said
    BY <1>1, <1>2 DEF IsLast
  <2> QED
    BY <2>1, <2>2
<1>4. ASSUME NEW n \in DOMAIN rs PROVE rs[n] = all[last(n)].range
  <2>1. PICK i \in 1..Len(all) : IsLast(all, Len(all), i, n) /\ rs[n] = all[i].range
    BY <1>2
  <2>2. /\ i \in DOMAIN all
        /\ all[i].name = n /\ \A j \in DOMAIN all : all[j].name = n => j <= i
    BY <1>1, <2>1 DEF IsLast
  <2>3. /\ last(n) \in DOMAIN all /\ all[last(n)].name = n
        /\ \A j \in DOMAIN all : all[j].name = n => j <= last(n)
    BY <2>2
  <2>4. last(n) = i
    BY <1>1, <2>2, <2>3
  <2> QED
    BY <2>1, <2>4
<1>5. rs = [n \in said |-> all[last(n)].range]
  <2> HIDE DEF last, said
  <2> QED
    BY <1>3, <1>4
<1> QED
  BY <1>5 DEF Wanted
=============================================================================
