-------------------------- MODULE AzureSingleProofs --------------------------
(***************************************************************************)
(* Theorems about AzureSingle, for all rules, extensions, options and      *)
(* specs, and every bound on what users and failures do.                   *)
(***************************************************************************)
EXTENDS AzureSingle, BackendLemmas

Working  == {"read", "server", "lock", "list_vnets", "vnet", "list_rules", "firewall",
             "endpoint", "record", "extensions", "restart", "return"}
Places   == Working \cup {"delete_record", "delete_server"}
Brought  == Working \ {"read", "server"}
Linked   == {"extensions", "restart", "return"}
Ruled    == Linked \cup {"endpoint", "record"}
Whole(k) == budget[k] = Budget[k]

SingleType ==
    /\ options \in Options
    /\ server \in [exists : BOOLEAN, size : Nat, password : Nat, marked : BOOLEAN,
                   locked : BOOLEAN]
    /\ seen \in BOOLEAN
    /\ rules \in [RuleKinds -> RulesType] /\ existing \in RulesType /\ todo \in Seq(Rules)
    /\ public \in BOOLEAN /\ endpoint \in BOOLEAN /\ record \in BOOLEAN
    /\ preload \subseteq Extensions /\ in_force \subseteq Extensions

\* A call that is past the server has brought the one its spec and the options ask for.
ServerInv ==
    call.pc \in Brought =>
        /\ server.exists /\ server.size = call.spec.size /\ ~server.marked
        /\ public = options.public

\* The rules of either kind are those wanted once the call is through with them.
RuleInv ==
    /\ call.pc \in {"list_vnets", "vnet", "list_rules", "firewall"} => options.public
    /\ call.pc = "vnet" => Through(options.vnets, rules["vnet"], existing, todo)
    /\ call.pc \in Ruled \cup {"list_rules", "firewall"} /\ options.public =>
           rules["vnet"] = Wanted(options.vnets)
    /\ call.pc = "firewall" =>
           Through(WantedRules(call.spec), rules["firewall"], existing, todo)
    /\ call.pc \in Ruled /\ options.public =>
           rules["firewall"] = Wanted(WantedRules(call.spec))

\* The endpoint has its record; while no attempt broke off, a list of extensions that is
\* not in force is followed by the restart.
LinkInv ==
    /\ call.pc = "record" => endpoint
    /\ call.pc \in Linked /\ options.endpoint => endpoint /\ record
    /\ call.pc \in {"restart", "return"} => preload = call.spec.extensions
    /\ Whole("abort") => in_force = preload \/ call.pc = "restart"

Configured(spec) ==
    /\ server.exists /\ server.size = spec.size /\ ~server.marked
    /\ public = options.public
    /\ options.public => /\ rules["vnet"] = Wanted(options.vnets)
                         /\ rules["firewall"] = Wanted(WantedRules(spec))
    /\ options.endpoint => endpoint /\ record
    /\ preload = spec.extensions

FinishedInv == object.done /\ ~object.deleting => Configured(object.spec)

SingleInv ==
    CallerInv(Places, Working) /\ SingleType
    /\ ServerInv /\ RuleInv /\ LinkInv /\ FinishedInv

LEMMA ApartPlaces == Apart(Places, Working)
BY DEF Apart, Places, Working, Ends

LEMMA ConstantTypes ==
    /\ NoServer \in [exists : BOOLEAN, size : Nat, password : Nat, marked : BOOLEAN,
                     locked : BOOLEAN]
    /\ ~NoServer.exists /\ ~NoServer.marked
    /\ NoRules \in RulesType /\ <<>> \in Seq(Rules) /\ RuleKinds = {"vnet", "firewall"}
    /\ \A o \in Options : /\ o.public \in BOOLEAN /\ o.locks \in BOOLEAN /\ o.fake \in BOOLEAN
                          /\ o.endpoint \in BOOLEAN /\ o.cleanup \in BOOLEAN
                          /\ o.vnets \in Seq(Rules) /\ o.rules \in Seq(Rules)
BY NoRulesType, SingleAssumption, AzureAssumption DEF NoServer, RulesType

LEMMA SpecTypes ==
    ASSUME NEW s \in Specs, SingleType
    PROVE  s.size \in Nat \ {0} /\ WantedRules(s) \in Seq(Rules) /\ s.extensions \subseteq Extensions
BY AzureAssumption, SingleAssumption DEF WantedRules, SingleType

LEMMA InitSingle == Init => SingleInv
<1> SUFFICES ASSUME Init PROVE SingleInv
  OBVIOUS
<1>1. CallerInv(Places, Working)
  BY ApartPlaces, CallerInitially DEF Init, AzureInit
<1>2. SingleType
  BY ConstantTypes DEF Init, AzureInit, SingleType
<1>3. /\ ~object.done /\ call.pc = "idle" /\ ~endpoint /\ ~record /\ in_force = preload
  BY DEF Init, AzureInit, CallerInit, NoObject, NoCall
<1> QED
  BY <1>1, <1>2, <1>3
     DEF SingleInv, ServerInv, RuleInv, LinkInv, FinishedInv, Ruled, Linked, Brought, Working
-----------------------------------------------------------------------------
(* Steps that bring nothing about *)

\* The server is as before, apart from its lock and its password.
SameServer ==
    /\ UNCHANGED <<rules, public, endpoint, record, preload, in_force>>
    /\ server'.exists = server.exists /\ server'.size = server.size
    /\ server'.marked = server.marked

\* The call ends without a result, or has not begun to bring anything about, and either
\* the options are the same or the object has to be handled again.
LEMMA NothingBrought ==
    ASSUME SingleInv, CallerInv(Places, Working)', Frugal, SingleType', SameServer,
           call'.pc \in {"idle", "read", "server", "delete"},
           Whole("abort")' => in_force = preload,
           \/ ~object'.done
           \/ UNCHANGED <<options, object>>
    PROVE  SingleInv'
<1>1. ServerInv'
  BY DEF SingleInv, ServerInv, SameServer, Brought, Working
<1>2. RuleInv' /\ LinkInv'
  BY DEF SingleInv, RuleInv, LinkInv, SameServer, Ruled, Linked
<1>3. FinishedInv'
  BY DEF SingleInv, FinishedInv, Configured, WantedRules, SameServer
<1> QED
  BY <1>1, <1>2, <1>3 DEF SingleInv

LEMMA BreaksKeep ==
    ASSUME SingleInv, call' = NoCall, UNCHANGED resource, Frugal, Forget, Kept,
           Whole("abort")' => in_force = preload
    PROVE  SingleInv'
<1>1. CallerInv(Places, Working)'
  BY ApartPlaces, CallerBreaks DEF SingleInv
<1>2. SingleType' /\ SameServer
  BY ConstantTypes DEF SingleInv, SingleType, Forget, Kept, SameServer, private, preloaded
<1>3. call'.pc = "idle" /\ UNCHANGED <<options, object>>
  BY DEF NoCall, resource, Kept
<1> QED
  BY <1>1, <1>2, <1>3, NothingBrought

\* The operator is restarted with other options.
LEMMA ReconfigureKeeps ==
    ASSUME SingleInv, NEW o \in Options, Reconfigure(o)
    PROVE  SingleInv'
<1>0. CallerInv(Places, Working) /\ budget \in [Kinds -> Nat] /\ SingleType
  BY DEF SingleInv, CallerInv, CallerType
<1>1. Frugal /\ ~Whole("abort")'
  BY <1>0, SpendIsFrugal, SpentIsNotWhole DEF Reconfigure, Whole, Kinds
<1>2. /\ object' = [object EXCEPT !.done = FALSE] /\ call' = NoCall
      /\ UNCHANGED <<password, published>> /\ options' = o
  BY DEF Reconfigure
<1>3. /\ object' \in [exists : BOOLEAN, deleting : BOOLEAN, done : BOOLEAN,
                      spec : Specs \cup {NoSpec}]
      /\ object'.exists = object.exists /\ object'.deleting = object.deleting
      /\ object'.spec = object.spec /\ ~object'.done
  BY <1>0, <1>2 DEF CallerInv, CallerType
<1>4. CallerInv(Places, Working)'
  BY <1>0, <1>1, <1>2, <1>3, FrugalBudget
     DEF CallerInv, CallerType, NoCall, At, Ends, Places, Working
<1>5. SingleType' /\ SameServer
  BY <1>0, ConstantTypes DEF SingleType, Forget, Reconfigure, SameServer, private, preloaded
<1>6. call'.pc = "idle"
  BY <1>2 DEF NoCall
<1> QED
  BY <1>1, <1>3, <1>4, <1>5, <1>6, NothingBrought

LEMMA UsersKeep ==
    ASSUME SingleInv, User, UNCHANGED <<azure, ruled, private, preloaded>>
    PROVE  SingleInv'
<1>1. CallerInv(Places, Working)' /\ Frugal /\ SingleType'
  BY ApartPlaces, UsersAct
     DEF SingleInv, SingleType, azure, ruled, private, preloaded
<1>2. Whole("abort")' => Whole("abort")
  BY <1>1, WholeBefore DEF SingleInv, Whole, Kinds
<1>3. /\ UNCHANGED call
      /\ object'.done /\ ~object'.deleting => object' = object
  BY DEF SingleInv, CallerInv, CallerType, User, CreateObject, EditSpec, Reset, DeleteObject,
         NoObject
<1>4. /\ UNCHANGED <<server, options, rules, existing, todo>>
      /\ UNCHANGED <<public, endpoint, record, preload, in_force>>
  BY DEF azure, ruled, private, preloaded
<1>5. ServerInv' /\ RuleInv' /\ LinkInv' /\ FinishedInv'
  BY <1>2, <1>3, <1>4 DEF SingleInv, ServerInv, RuleInv, LinkInv, FinishedInv, Configured, WantedRules
<1> QED
  BY <1>1, <1>5 DEF SingleInv

LEMMA AdministratorKeeps ==
    ASSUME SingleInv, Administrator
    PROVE  SingleInv'
<1>1. /\ UNCHANGED <<object, password, published, call, budget>>
      /\ UNCHANGED <<options, rules, existing, todo, seen>>
      /\ UNCHANGED <<public, endpoint, record, preload, in_force>>
      /\ server' = [server EXCEPT !.locked = FALSE]
  BY DEF Administrator, RemoveLock, resource, ruled, private, preloaded
<1>2. CallerInv(Places, Working)'
  BY <1>1, ApartPlaces, CallerStays, KeepIsFrugal DEF SingleInv, CallerInv, CallerType, resource
<1>3. SingleType' /\ SameServer
  BY <1>1 DEF SingleInv, SingleType, SameServer
<1>4. UNCHANGED Whole("abort")
  BY <1>1 DEF Whole
<1>5. ServerInv' /\ RuleInv' /\ LinkInv' /\ FinishedInv'
  BY <1>1, <1>3, <1>4
     DEF SingleInv, ServerInv, RuleInv, LinkInv, FinishedInv, Configured, WantedRules, SameServer
<1> QED
  BY <1>2, <1>3, <1>5 DEF SingleInv
-----------------------------------------------------------------------------
(* create_or_update_server *)

\* The call goes from one of its places to another.
LEMMA Going ==
    ASSUME SingleInv, NEW from \in Working, NEW next \in Working, Move(from, next)
    PROVE  /\ CallerInv(Places, Working)'
           /\ call.pc = from /\ call'.pc = next /\ call'.spec = call.spec
           /\ UNCHANGED object
           /\ UNCHANGED Whole("abort")
           /\ call.spec \in Specs /\ password \in Nat
           /\ FinishedInv'
<1>1. CallerInv(Places, Working)'
  BY ApartPlaces, CallerSteps, KeepIsFrugal DEF SingleInv, CallerInv, CallerType, Move, Places
<1> QED
  BY <1>1 DEF SingleInv, CallerInv, CallerType, Move, Step, At, resource, Whole, FinishedInv

LEMMA BringingKeeps ==
    ASSUME SingleInv, BringServer \/ LockServer
    PROVE  SingleInv'
<1>0. SingleType /\ ServerInv /\ RuleInv /\ LinkInv
  BY DEF SingleInv
<1>1. CASE BringServer
  <2>1. Move("server", "lock")
    BY <1>1 DEF BringServer, Bring
  <2>2. /\ CallerInv(Places, Working)'
        /\ call.pc = "server" /\ call'.pc = "lock" /\ call'.spec = call.spec
        /\ UNCHANGED Whole("abort") /\ call.spec \in Specs /\ password \in Nat
        /\ FinishedInv'
    BY <2>1, Going DEF Working
  <2>3. /\ UNCHANGED <<options, rules, existing, todo, seen>>
        /\ UNCHANGED <<endpoint, record, preload, in_force>>
        /\ public' = options.public
    BY <1>1 DEF BringServer, Bring, ruled, preloaded
  <2>4. /\ server' \in [exists : BOOLEAN, size : Nat, password : Nat, marked : BOOLEAN,
                        locked : BOOLEAN]
        /\ server'.exists /\ server'.size = call.spec.size /\ ~server'.marked
    <3>1. CASE seen => NeedsUpdate
      <4>1. server' = [server EXCEPT !.exists = TRUE, !.size = call.spec.size,
                                     !.password = password, !.marked = FALSE]
        BY <1>1, <3>1 DEF BringServer, Bring
      <4>2. call.spec.size \in Nat
        BY <1>0, <2>2, SpecTypes
      <4> QED
        BY <1>0, <2>2, <4>1, <4>2 DEF SingleType
    <3>2. CASE ~(seen => NeedsUpdate)
      <4>1. server' = server /\ server.exists /\ server.size = call.spec.size /\ ~server.marked
        BY <1>1, <3>2 DEF BringServer, Bring, NeedsUpdate
      <4> QED
        BY <1>0, <4>1 DEF SingleType
    <3> QED
      BY <3>1, <3>2
  <2>5. SingleType'
    BY <1>0, <2>3, <2>4, ConstantTypes DEF SingleType
  <2>6. ServerInv'
    BY <1>0, <2>2, <2>3, <2>4 DEF ServerInv
  <2>7. RuleInv' /\ LinkInv'
    BY <1>0, <2>2, <2>3 DEF RuleInv, LinkInv, Ruled, Linked
  <2> QED
    BY <2>2, <2>5, <2>6, <2>7 DEF SingleInv
<1>2. CASE LockServer
  <2>1. PICK next \in {"list_vnets", "endpoint"} :
            /\ next = IF options.public THEN "list_vnets" ELSE "endpoint"
            /\ Move("lock", next)
    BY <1>2 DEF LockServer, Lock
  <2>2. /\ CallerInv(Places, Working)'
        /\ call.pc = "lock" /\ call'.pc = next /\ call'.spec = call.spec
        /\ UNCHANGED Whole("abort") /\ FinishedInv'
    BY <2>1, Going DEF Working
  <2>3. /\ UNCHANGED <<options, rules, existing, todo, seen>>
        /\ UNCHANGED <<public, endpoint, record, preload, in_force>>
        /\ server' = [server EXCEPT !.locked = @ \/ options.locks]
    BY <1>2 DEF LockServer, Lock, ruled, private, preloaded
  <2>4. SingleType' /\ SameServer /\ options.public \in BOOLEAN
    BY <1>0, <2>3, ConstantTypes DEF SingleType, SameServer
  <2>5. ServerInv'
    BY <1>0, <2>2, <2>3, <2>4 DEF ServerInv, SameServer, Brought, Working
  <2>6. RuleInv' /\ LinkInv'
    BY <1>0, <2>1, <2>2, <2>3, <2>4 DEF RuleInv, LinkInv, Ruled, Linked
  <2> QED
    BY <2>2, <2>4, <2>5, <2>6 DEF SingleInv
<1> QED
  BY <1>1, <1>2

\* The loop over the rules of one kind, whatever the kind.
RulesTyped ==
    /\ rules \in [RuleKinds -> RulesType] /\ existing \in RulesType /\ todo \in Seq(Rules)

LEMMA LoopStep ==
    ASSUME NEW k \in RuleKinds, NEW all \in Seq(Rules), RulesTyped,
           Through(all, rules[k], existing, todo), SyncRules(k)
    PROVE  /\ RulesTyped' /\ Through(all, rules'[k], existing', todo')
           /\ \A j \in RuleKinds \ {k} : rules'[j] = rules[j]
<1>0. /\ rules \in [RuleKinds -> RulesType] /\ rules[k] \in RulesType
      /\ existing \in RulesType /\ todo \in Seq(Rules)
  BY DEF RulesTyped
<1>1. CASE SetRule(k)
  <2> DEFINE r == Head(todo)
  <2>1. /\ todo # <<>> /\ todo' = Tail(todo) /\ existing' = Without(existing, r.name)
        /\ rules' = IF r.name \in DOMAIN existing /\ existing[r.name] = r.range THEN rules
                    ELSE [rules EXCEPT ![k] = With(rules[k], r)]
    BY <1>1 DEF SetRule
  <2>2. r \in Rules /\ Tail(todo) \in Seq(Rules)
    BY <1>0, <2>1, HeadTailProperties
  <2>3. With(rules[k], r) \in RulesType
    BY <1>0, <2>2, WithType DEF Rules, RulesType
  <2>4. rules'[k] = IF r.name \in DOMAIN existing /\ existing[r.name] = r.range THEN rules[k]
                    ELSE With(rules[k], r)
    BY <1>0, <2>1
  <2>5. Through(all, rules'[k], existing', todo')
    BY <1>0, <2>1, <2>4, LoopSets
  <2>6. existing' \in RulesType
    BY <1>0, <2>1, WithoutType DEF RulesType
  <2>7. rules' \in [RuleKinds -> RulesType] /\ \A j \in RuleKinds \ {k} : rules'[j] = rules[j]
    BY <1>0, <2>1, <2>3
  <2> QED
    BY <2>1, <2>2, <2>5, <2>6, <2>7 DEF RulesTyped
<1>2. CASE \E n \in RuleNames : DeleteRule(k, n)
  <2>1. PICK n \in DOMAIN existing :
            /\ todo = <<>> /\ todo' = todo /\ existing' = Without(existing, n)
            /\ rules' = [rules EXCEPT ![k] = Without(rules[k], n)]
    BY <1>2 DEF DeleteRule
  <2>2. rules'[k] = Without(rules[k], n)
    BY <1>0, <2>1
  <2>3. Through(all, rules'[k], existing', todo')
    BY <1>0, <2>1, <2>2, LoopDeletes
  <2>4. Without(rules[k], n) \in RulesType /\ existing' \in RulesType
    BY <1>0, <2>1, WithoutType DEF RulesType
  <2>5. rules' \in [RuleKinds -> RulesType] /\ \A j \in RuleKinds \ {k} : rules'[j] = rules[j]
    BY <1>0, <2>1, <2>4
  <2> QED
    BY <1>0, <2>1, <2>3, <2>4, <2>5 DEF RulesTyped
<1> QED
  BY <1>1, <1>2 DEF SyncRules

LEMMA LoopDone ==
    ASSUME NEW k \in RuleKinds, NEW all \in Seq(Rules), RulesTyped,
           Through(all, rules[k], existing, todo), todo = <<>>, existing = NoRules
    PROVE  rules[k] = Wanted(all)
<1>1. rules[k] = [n \in DOMAIN rules[k] |-> rules[k][n]]
  BY RulesTypes DEF RulesTyped, RulesType
<1> QED
  BY <1>1, LoopEnds

\* A step over the rules leaves everything else alone.
LEMMA RulesOnly ==
    ASSUME SingleInv, RulesTyped', NEW from \in Brought \ {"restart"},
           NEW next \in Brought \ (Linked \cup {"record"}), Move(from, next),
           UNCHANGED <<options, server, seen, public, endpoint, record, preload, in_force>>
    PROVE  /\ RuleInv' => SingleInv'
           /\ call.pc = from /\ call'.pc = next /\ call'.spec = call.spec
           /\ options \in Options /\ call.spec \in Specs
<1>1. /\ CallerInv(Places, Working)'
      /\ call.pc = from /\ call'.pc = next /\ call'.spec = call.spec
      /\ UNCHANGED Whole("abort") /\ call.spec \in Specs /\ FinishedInv'
  BY Going DEF Brought
<1>2. SingleType'
  BY DEF SingleInv, SingleType, RulesTyped
<1>3. ServerInv'
  BY <1>1 DEF SingleInv, ServerInv, Brought, Working
<1>4. LinkInv'
  BY <1>1 DEF SingleInv, LinkInv, Linked
<1> QED
  BY <1>1, <1>2, <1>3, <1>4 DEF SingleInv, SingleType

LEMMA VnetsKeep ==
    ASSUME SingleInv, ListVnets \/ SyncVnets \/ EndVnets
    PROVE  SingleInv'
<1>0. /\ RulesTyped /\ RuleInv /\ options \in Options /\ options.vnets \in Seq(Rules)
      /\ "vnet" \in RuleKinds /\ "firewall" \in RuleKinds
      /\ rules \in [RuleKinds -> RulesType]
  BY ConstantTypes DEF SingleInv, SingleType, RulesTyped
<1>1. CASE ListVnets
  <2>1. /\ Move("list_vnets", "vnet") /\ UNCHANGED rules
        /\ UNCHANGED <<options, server, seen, public, endpoint, record, preload, in_force>>
        /\ existing' = rules["vnet"] /\ todo' = options.vnets
    BY <1>1 DEF ListVnets, ListRules, azure, private, preloaded
  <2>2. RulesTyped' /\ Through(options.vnets, rules["vnet"], existing', todo')
    BY <1>0, <2>1, LoopBegins DEF RulesTyped
  <2>3. /\ RuleInv' => SingleInv'
        /\ call.pc = "list_vnets" /\ call'.pc = "vnet" /\ call'.spec = call.spec
    BY <2>1, <2>2, RulesOnly DEF Brought, Working, Linked
  <2> QED
    BY <1>0, <2>1, <2>2, <2>3 DEF RuleInv, Ruled, Linked
<1>2. CASE SyncVnets
  <2>1. /\ Move("vnet", "vnet") /\ SyncRules("vnet")
        /\ UNCHANGED <<options, server, seen, public, endpoint, record, preload, in_force>>
    BY <1>2 DEF SyncVnets, SyncRules, SetRule, DeleteRule, azure, private, preloaded
  <2>2. Through(options.vnets, rules["vnet"], existing, todo)
    BY <1>0, <2>1 DEF RuleInv, Move, Step, At
  <2>3. RulesTyped' /\ Through(options.vnets, rules'["vnet"], existing', todo')
    BY <1>0, <2>1, <2>2, LoopStep
  <2>4. /\ RuleInv' => SingleInv'
        /\ call.pc = "vnet" /\ call'.pc = "vnet" /\ call'.spec = call.spec
    BY <2>1, <2>3, RulesOnly DEF Brought, Working, Linked
  <2> QED
    BY <1>0, <2>1, <2>3, <2>4 DEF RuleInv, Ruled, Linked
<1>3. CASE EndVnets
  <2>1. /\ Move("vnet", "list_rules") /\ UNCHANGED <<rules, existing, todo>>
        /\ UNCHANGED <<options, server, seen, public, endpoint, record, preload, in_force>>
        /\ todo = <<>> /\ existing = NoRules
    BY <1>3 DEF EndVnets, RulesDone, azure, ruled, private, preloaded
  <2>2. /\ RuleInv' => SingleInv'
        /\ call.pc = "vnet" /\ call'.pc = "list_rules" /\ call'.spec = call.spec
    BY <1>0, <2>1, RulesOnly DEF Brought, Working, Linked, RulesTyped
  <2>3. rules["vnet"] = Wanted(options.vnets)
    BY <1>0, <2>1, <2>2, LoopDone DEF RuleInv
  <2> QED
    BY <1>0, <2>1, <2>2, <2>3 DEF RuleInv, Ruled, Linked
<1> QED
  BY <1>1, <1>2, <1>3

LEMMA FirewallKeeps ==
    ASSUME SingleInv, ListFirewall \/ SyncFirewall \/ EndFirewall
    PROVE  SingleInv'
<1>0. /\ RulesTyped /\ RuleInv
      /\ "vnet" \in RuleKinds /\ "firewall" \in RuleKinds
      /\ rules \in [RuleKinds -> RulesType]
  BY ConstantTypes DEF SingleInv, SingleType, RulesTyped
<1> DEFINE all == WantedRules(call.spec)
<1>1. CASE ListFirewall
  <2>1. /\ Move("list_rules", "firewall") /\ UNCHANGED rules
        /\ UNCHANGED <<options, server, seen, public, endpoint, record, preload, in_force>>
        /\ existing' = rules["firewall"] /\ todo' = all
    BY <1>1 DEF ListFirewall, ListRules, azure, private, preloaded
  <2>2. all \in Seq(Rules)
    BY <2>1, Going, SpecTypes DEF SingleInv, Working
  <2>3. RulesTyped' /\ Through(all, rules["firewall"], existing', todo')
    BY <1>0, <2>1, <2>2, LoopBegins DEF RulesTyped
  <2>4. /\ RuleInv' => SingleInv'
        /\ call.pc = "list_rules" /\ call'.pc = "firewall" /\ call'.spec = call.spec
    BY <2>1, <2>3, RulesOnly DEF Brought, Working, Linked
  <2> QED
    BY <1>0, <2>1, <2>3, <2>4 DEF RuleInv, WantedRules, Ruled, Linked
<1>2. CASE SyncFirewall
  <2>1. /\ Move("firewall", "firewall") /\ SyncRules("firewall")
        /\ UNCHANGED <<options, server, seen, public, endpoint, record, preload, in_force>>
    BY <1>2 DEF SyncFirewall, SyncRules, SetRule, DeleteRule, azure, private, preloaded
  <2>2. all \in Seq(Rules)
    BY <2>1, Going, SpecTypes DEF SingleInv, Working
  <2>3. Through(all, rules["firewall"], existing, todo)
    BY <1>0, <2>1 DEF RuleInv, Move, Step, At
  <2>4. /\ RulesTyped' /\ Through(all, rules'["firewall"], existing', todo')
        /\ rules'["vnet"] = rules["vnet"]
    BY <1>0, <2>1, <2>2, <2>3, LoopStep
  <2>5. /\ RuleInv' => SingleInv'
        /\ call.pc = "firewall" /\ call'.pc = "firewall" /\ call'.spec = call.spec
    BY <2>1, <2>4, RulesOnly DEF Brought, Working, Linked
  <2> QED
    BY <1>0, <2>1, <2>4, <2>5 DEF RuleInv, WantedRules, Ruled, Linked
<1>3. CASE EndFirewall
  <2>1. /\ Move("firewall", "endpoint") /\ UNCHANGED <<rules, existing, todo>>
        /\ UNCHANGED <<options, server, seen, public, endpoint, record, preload, in_force>>
        /\ todo = <<>> /\ existing = NoRules
    BY <1>3 DEF EndFirewall, RulesDone, azure, ruled, private, preloaded
  <2>2. all \in Seq(Rules)
    BY <2>1, Going, SpecTypes DEF SingleInv, Working
  <2>3. /\ RuleInv' => SingleInv'
        /\ call.pc = "firewall" /\ call'.pc = "endpoint" /\ call'.spec = call.spec
    BY <1>0, <2>1, RulesOnly DEF Brought, Working, Linked, RulesTyped
  <2>4. rules["firewall"] = Wanted(all)
    BY <1>0, <2>1, <2>2, <2>3, LoopDone DEF RuleInv
  <2> QED
    BY <1>0, <2>1, <2>3, <2>4 DEF RuleInv, WantedRules, Ruled, Linked
<1> QED
  BY <1>1, <1>2, <1>3

LEMMA LinkingKeeps ==
    ASSUME SingleInv, CreateEndpoint \/ CreateRecord \/ PutExtensions \/ RestartServer
    PROVE  SingleInv'
<1>0. /\ SingleType /\ ServerInv /\ RuleInv /\ LinkInv
      /\ options.endpoint \in BOOLEAN
  BY ConstantTypes DEF SingleInv, SingleType
<1>1. ASSUME NEW from \in Ruled \ {"return"}, NEW next \in Ruled, Move(from, next),
             UNCHANGED <<options, server, seen, rules, existing, todo, public>>,
             endpoint' \in BOOLEAN, record' \in BOOLEAN,
             preload' \subseteq Extensions, in_force' \subseteq Extensions
      PROVE  /\ LinkInv' => SingleInv'
             /\ call.pc = from /\ call'.pc = next /\ call'.spec = call.spec
             /\ UNCHANGED Whole("abort") /\ call.spec \in Specs
  <2>1. /\ CallerInv(Places, Working)'
        /\ call.pc = from /\ call'.pc = next /\ call'.spec = call.spec
        /\ UNCHANGED Whole("abort") /\ call.spec \in Specs /\ FinishedInv'
    BY <1>1, Going DEF Ruled, Linked, Working
  <2>2. SingleType'
    BY <1>0, <1>1 DEF SingleType
  <2>3. ServerInv'
    BY <1>0, <1>1, <2>1 DEF ServerInv, Brought, Working, Ruled, Linked
  <2>4. RuleInv'
    BY <1>0, <1>1, <2>1 DEF RuleInv, WantedRules, Ruled, Linked
  <2> QED
    BY <2>1, <2>2, <2>3, <2>4 DEF SingleInv
<1>2. CASE CreateEndpoint
  <2>1. PICK next \in {"record", "extensions"} :
            /\ next = IF options.endpoint THEN "record" ELSE "extensions"
            /\ Move("endpoint", next)
    BY <1>2 DEF CreateEndpoint
  <2>2. /\ UNCHANGED <<options, server, seen, rules, existing, todo, public, record>>
        /\ UNCHANGED <<preload, in_force>>
        /\ endpoint' = (endpoint \/ options.endpoint)
    BY <1>2 DEF CreateEndpoint, azure, ruled, preloaded
  <2>3. /\ LinkInv' => SingleInv'
        /\ call.pc = "endpoint" /\ call'.pc = next /\ UNCHANGED Whole("abort")
    BY <1>0, <1>1, <2>1, <2>2 DEF SingleType, Ruled, Linked
  <2> QED
    BY <1>0, <2>1, <2>2, <2>3 DEF LinkInv, Linked
<1>3. CASE CreateRecord
  <2>1. /\ Move("record", "extensions") /\ record' = TRUE
        /\ UNCHANGED <<options, server, seen, rules, existing, todo, public, endpoint>>
        /\ UNCHANGED <<preload, in_force>>
    BY <1>3 DEF CreateRecord, azure, ruled, preloaded
  <2>2. /\ LinkInv' => SingleInv'
        /\ call.pc = "record" /\ call'.pc = "extensions" /\ UNCHANGED Whole("abort")
    BY <1>0, <1>1, <2>1 DEF SingleType, Ruled, Linked
  <2> QED
    BY <1>0, <2>1, <2>2 DEF LinkInv, Linked
<1>4. CASE PutExtensions
  <2>1. PICK next \in {"return", "restart"} :
            /\ next = IF call.spec.extensions = preload THEN "return" ELSE "restart"
            /\ Move("extensions", next)
    BY <1>4 DEF PutExtensions
  <2>2. /\ UNCHANGED <<options, server, seen, rules, existing, todo, public, endpoint, record>>
        /\ UNCHANGED in_force /\ preload' = call.spec.extensions
    BY <1>4 DEF PutExtensions, azure, ruled, private
  <2>3. preload' \subseteq Extensions
    BY <2>1, <2>2, Going, SpecTypes DEF SingleInv, Working
  <2>4. /\ LinkInv' => SingleInv'
        /\ call.pc = "extensions" /\ call'.pc = next /\ call'.spec = call.spec
        /\ UNCHANGED Whole("abort")
    BY <1>0, <1>1, <2>1, <2>2, <2>3 DEF SingleType, Ruled, Linked
  <2> QED
    BY <1>0, <2>1, <2>2, <2>4 DEF LinkInv, Linked
<1>5. CASE RestartServer
  <2>1. /\ Move("restart", "return") /\ in_force' = preload
        /\ UNCHANGED <<options, server, seen, rules, existing, todo, public, endpoint, record>>
        /\ UNCHANGED preload
    BY <1>5 DEF RestartServer, azure, ruled, private
  <2>2. /\ LinkInv' => SingleInv'
        /\ call.pc = "restart" /\ call'.pc = "return" /\ call'.spec = call.spec
        /\ UNCHANGED Whole("abort")
    BY <1>0, <1>1, <2>1 DEF SingleType, Ruled, Linked
  <2> QED
    BY <1>0, <2>1, <2>2 DEF LinkInv, Linked
<1> QED
  BY <1>2, <1>3, <1>4, <1>5

LEMMA ReturnKeeps ==
    ASSUME SingleInv, Return
    PROVE  SingleInv'
<1>1. CallerInv(Places, Working)'
  BY ApartPlaces, CallerFinishes DEF SingleInv, Return, Working
<1>2. /\ call.pc = "return" /\ call'.pc = "idle"
      /\ object' = [object EXCEPT !.done = (object.spec = call.spec)]
      /\ UNCHANGED <<budget, options, server, rules, public, endpoint, record, preload, in_force>>
      /\ UNCHANGED Whole("abort")
  BY DEF Return, Finish, At, NoCall, Kept, Whole, private, preloaded
<1>3. SingleType'
  BY <1>2, ConstantTypes DEF SingleInv, SingleType, Return, Forget
<1>4. ServerInv' /\ RuleInv' /\ LinkInv'
  BY <1>2 DEF SingleInv, ServerInv, RuleInv, LinkInv, Brought, Working, Ruled, Linked
<1>5. Configured(call.spec)
  BY <1>2 DEF SingleInv, ServerInv, RuleInv, LinkInv, Configured, Brought, Working, Ruled, Linked
<1>6. FinishedInv'
  <2>1. object'.spec = object.spec /\ (object'.done => object.spec = call.spec)
    BY <1>2 DEF SingleInv, CallerInv, CallerType
  <2>2. Configured(object.spec)' <=> Configured(object.spec)
    BY <1>2, <2>1 DEF Configured, WantedRules
  <2> QED
    BY <1>5, <2>1, <2>2 DEF FinishedInv
<1> QED
  BY <1>1, <1>3, <1>4, <1>6 DEF SingleInv
-----------------------------------------------------------------------------
(* The steps of a deletion *)

\* Whatever a deletion does to the server, what was finished is not any more.
LEMMA DeletionGoes ==
    ASSUME SingleInv, NEW from \in (Places \ Working) \cup Ends,
           NEW next \in (Places \ Working) \cup Ends, Move(from, next)
    PROVE  /\ CallerInv(Places, Working)'
           /\ call.pc = from /\ call'.pc = next
           /\ UNCHANGED Whole("abort") /\ FinishedInv'
<1>0. /\ CallerInv(Places, Working) /\ from \notin Working /\ next \notin Working
      /\ from \in Places \cup Ends /\ next \in Places \cup Ends /\ budget \in [Kinds -> Nat]
  BY ApartPlaces DEF SingleInv, CallerInv, CallerType, Ends, Working, Places
<1>1. CallerInv(Places, Working)'
  BY <1>0, ApartPlaces, CallerSteps, KeepIsFrugal DEF Move
<1>2. /\ call.pc = from /\ call'.pc = next /\ UNCHANGED <<object, budget>>
  BY <1>0 DEF Move, Step, At, resource, CallerInv, CallerType
<1>3. object.deleting
  BY <1>0, <1>2 DEF CallerInv
<1> QED
  BY <1>1, <1>2, <1>3 DEF FinishedInv, Whole

LEMMA DeletingKeeps ==
    ASSUME SingleInv, FindServer \/ MarkServer \/ DeleteEndpoint \/ DeleteRecord \/ DeleteServer
    PROVE  SingleInv'
<1>0. /\ CallerInv(Places, Working) /\ SingleType /\ ServerInv /\ RuleInv /\ LinkInv
      /\ FinishedInv /\ budget \in [Kinds -> Nat] /\ options.cleanup \in BOOLEAN
  BY ConstantTypes DEF SingleInv, CallerInv, CallerType, SingleType
<1> USE DEF Brought, Working, Ruled, Linked
<1>1. CASE FindServer
  <2>1. /\ UNCHANGED <<options, server, seen, rules, existing, todo>>
        /\ UNCHANGED <<public, endpoint, record, preload, in_force>>
        /\ BeginDelete(server.exists) /\ UNCHANGED budget
    BY <1>1 DEF FindServer, azure, ruled, private, preloaded
  <2>2. server.exists \in BOOLEAN /\ Frugal
    BY <1>0, <2>1, KeepIsFrugal DEF SingleType
  <2>3. CallerInv(Places, Working)'
    BY <1>0, <2>1, <2>2, ApartPlaces, CallerFinds
  <2>4. /\ call'.pc = (IF server.exists THEN "delete" ELSE "delete_secret")
        /\ call.pc = "idle" /\ UNCHANGED object
    BY <2>1 DEF BeginDelete, At, NoCall, resource
  <2>5. SingleType' /\ FinishedInv'
    BY <1>0, <2>1, <2>4 DEF SingleType, FinishedInv, Configured, WantedRules
  <2> QED
    BY <1>0, <2>1, <2>3, <2>4, <2>5 DEF SingleInv, ServerInv, RuleInv, LinkInv, Whole
<1>2. CASE MarkServer
  <2>1. /\ Move("delete", "delete_secret") /\ server' = [server EXCEPT !.marked = TRUE]
        /\ UNCHANGED <<options, seen, rules, existing, todo>>
        /\ UNCHANGED <<public, endpoint, record, preload, in_force>>
    BY <1>2 DEF MarkServer, Mark, ruled, private, preloaded
  <2>2. /\ CallerInv(Places, Working)' /\ FinishedInv'
        /\ call.pc = "delete" /\ call'.pc = "delete_secret" /\ UNCHANGED Whole("abort")
    BY <2>1, DeletionGoes DEF Ends
  <2>3. SingleType' /\ server'.exists = server.exists
    BY <1>0, <2>1 DEF SingleType
  <2> QED
    BY <1>0, <2>1, <2>2, <2>3 DEF SingleInv, ServerInv, RuleInv, LinkInv
<1>3. CASE DeleteEndpoint
  <2>1. PICK next \in {"delete_record", "delete_server"} :
            /\ next = IF options.cleanup THEN "delete_record" ELSE "delete_server"
            /\ Move("delete", next)
    BY <1>3 DEF DeleteEndpoint
  <2>2. /\ endpoint' = (endpoint /\ ~options.cleanup)
        /\ UNCHANGED <<options, server, seen, rules, existing, todo>>
        /\ UNCHANGED <<public, record, preload, in_force>>
    BY <1>3 DEF DeleteEndpoint, azure, ruled, preloaded
  <2>3. /\ CallerInv(Places, Working)' /\ FinishedInv'
        /\ call.pc = "delete" /\ call'.pc = next /\ UNCHANGED Whole("abort")
    BY <2>1, DeletionGoes DEF Ends, Places
  <2>4. SingleType'
    BY <1>0, <2>2 DEF SingleType
  <2>5. ServerInv'
    BY <1>0, <2>1, <2>2, <2>3 DEF ServerInv
  <2> QED
    BY <1>0, <2>2, <2>3, <2>4, <2>5 DEF SingleInv, RuleInv, LinkInv
<1>4. CASE DeleteRecord
  <2>1. /\ Move("delete_record", "delete_server") /\ record' = FALSE
        /\ UNCHANGED <<options, server, seen, rules, existing, todo>>
        /\ UNCHANGED <<public, endpoint, preload, in_force>>
    BY <1>4 DEF DeleteRecord, azure, ruled, preloaded
  <2>2. /\ CallerInv(Places, Working)' /\ FinishedInv'
        /\ call.pc = "delete_record" /\ call'.pc = "delete_server" /\ UNCHANGED Whole("abort")
    BY <2>1, DeletionGoes DEF Places
  <2>3. SingleType'
    BY <1>0, <2>1 DEF SingleType
  <2> QED
    BY <1>0, <2>1, <2>2, <2>3 DEF SingleInv, ServerInv, RuleInv, LinkInv
<1>5. CASE DeleteServer
  <2>1. /\ Move("delete_server", "delete_secret") /\ server' = NoServer
        /\ rules' = [k \in RuleKinds |-> NoRules] /\ preload' = {} /\ in_force' = {}
        /\ UNCHANGED <<options, seen, existing, todo, public, endpoint, record>>
    BY <1>5 DEF DeleteServer, Remove, private
  <2>2. /\ CallerInv(Places, Working)' /\ FinishedInv'
        /\ call.pc = "delete_server" /\ call'.pc = "delete_secret" /\ UNCHANGED Whole("abort")
    BY <2>1, DeletionGoes DEF Ends, Places
  <2>3. SingleType'
    BY <1>0, <2>1, ConstantTypes DEF SingleType
  <2> QED
    BY <1>0, <2>1, <2>2, <2>3 DEF SingleInv, ServerInv, RuleInv, LinkInv
<1> QED
  BY <1>1, <1>2, <1>3, <1>4, <1>5

LEMMA EndKeeps ==
    ASSUME SingleInv, EndDelete
    PROVE  SingleInv'
<1>1. CallerInv(Places, Working)' /\ Frugal
  BY ApartPlaces, CallerEnds DEF SingleInv, EndDelete
<1>2. /\ UNCHANGED <<options, server, seen, rules, existing, todo>>
      /\ UNCHANGED <<public, endpoint, record, preload, in_force>>
  BY DEF EndDelete, azure, ruled, private, preloaded
<1>3. /\ call.pc \in {"delete_secret", "release"} /\ call'.pc \in {"release", "idle"}
      /\ UNCHANGED object \/ ~object'.done
  BY DEF EndDelete, DeleteCredentials, Release, At, NoObject, NoCall, SingleInv, CallerInv,
         CallerType
<1>4. Whole("abort")' => Whole("abort")
  BY <1>1, WholeBefore DEF SingleInv, Whole, Kinds
<1>5. SingleType' /\ FinishedInv'
  BY <1>2, <1>3 DEF SingleInv, SingleType, FinishedInv, Configured, WantedRules
<1> QED
  BY <1>1, <1>2, <1>3, <1>4, <1>5
     DEF SingleInv, ServerInv, RuleInv, LinkInv, Brought, Working, Ruled, Linked
-----------------------------------------------------------------------------
LEMMA SingleStep == SingleInv /\ [Next]_vars => SingleInv'
<1> SUFFICES ASSUME SingleInv, [Next]_vars PROVE SingleInv'
  OBVIOUS
<1>0. CallerInv(Places, Working) /\ SingleType /\ LinkInv /\ budget \in [Kinds -> Nat]
  BY DEF SingleInv, CallerInv, CallerType
<1>1. CASE Call
  <2>1. CallerInv(Places, Working)' /\ Frugal
    BY <1>0, <1>1, ApartPlaces, CallerBegins, KeepIsFrugal DEF Call, Begin, Working
  <2>2. /\ call.pc = "idle" /\ call'.pc = "read" /\ UNCHANGED <<object, budget>>
        /\ UNCHANGED <<options, server, seen, rules, existing, todo>>
        /\ UNCHANGED <<public, endpoint, record, preload, in_force>>
    BY <1>1 DEF Call, Begin, At, resource, azure, ruled, private, preloaded
  <2>3. SingleType' /\ SameServer /\ (Whole("abort")' => in_force = preload)
    BY <1>0, <2>2 DEF SingleType, SameServer, LinkInv, Whole
  <2> QED
    BY <2>1, <2>2, <2>3, NothingBrought
<1>2. CASE ReadServer
  <2>1. Step("read", "server") /\ Frugal
    BY <1>0, <1>2, SpendIsFrugal, KeepIsFrugal DEF ReadServer, Look, MayFail, Kinds
  <2>2. CallerInv(Places, Working)'
    BY <1>0, <2>1, ApartPlaces, CallerSteps DEF Places, Working
  <2>3. /\ call.pc = "read" /\ call'.pc = "server" /\ UNCHANGED object
        /\ UNCHANGED <<options, server, rules, existing, todo>>
        /\ UNCHANGED <<public, endpoint, record, preload, in_force>>
    BY <1>0, <1>2, <2>1 DEF ReadServer, Look, Step, At, resource, ruled, private, preloaded,
                            CallerInv, CallerType
  <2>4. SingleType' /\ SameServer
    BY <1>0, <1>2, <2>3 DEF SingleType, SameServer, ReadServer, Look
  <2>5. Whole("abort")' => in_force = preload
    BY <1>0, <2>1, <2>3, WholeBefore DEF LinkInv, Whole, Kinds
  <2> QED
    BY <2>1, <2>2, <2>3, <2>4, <2>5, NothingBrought
<1>3. CASE CloudRefuses \/ RuleUnreadable
  <2>1. /\ call.pc \in {"server", "delete_server", "firewall"}
        /\ Raise /\ Forget /\ Kept /\ UNCHANGED budget
    BY <1>3 DEF CloudRefuses, RuleUnreadable, Refuses, Raise, At
  <2>2. Whole("abort")' => in_force = preload
    BY <1>0, <2>1 DEF LinkInv, Whole
  <2> QED
    BY <1>0, <2>1, <2>2, BreaksKeep, KeepIsFrugal DEF Raise
<1>4. CASE Abort
  <2>1. Spend("abort") /\ call' = NoCall /\ UNCHANGED resource /\ Forget /\ Kept
    BY <1>4 DEF Abort, Break
  <2>2. Frugal /\ ~Whole("abort")'
    BY <1>0, <2>1, SpendIsFrugal, SpentIsNotWhole DEF Whole, Kinds
  <2> QED
    BY <2>1, <2>2, BreaksKeep
<1>5. CASE UNCHANGED vars
  <2>1. UNCHANGED Whole("abort") /\ CallerInv(Places, Working)' /\ SingleType'
    BY <1>0, <1>5 DEF vars, Whole, CallerInv, CallerType, SingleType, At
  <2>2. ServerInv' /\ RuleInv' /\ LinkInv' /\ FinishedInv'
    BY <1>5, <2>1
       DEF vars, SingleInv, ServerInv, RuleInv, LinkInv, FinishedInv, Configured, WantedRules
  <2> QED
    BY <2>1, <2>2 DEF SingleInv
<1> QED
  BY <1>1, <1>2, <1>3, <1>4, <1>5, BringingKeeps, VnetsKeep, FirewallKeeps, LinkingKeeps,
     ReturnKeeps, DeletingKeeps, EndKeeps, AdministratorKeeps, UsersKeep, ReconfigureKeeps
     DEF Next, Operator

\* The inductive invariant holds in every state; what follows are its consequences.
THEOREM SingleInvariant == Spec => []SingleInv
BY InitSingle, SingleStep, PTL DEF Spec

\* Every variable has its type (TypeOK).
THEOREM TypeCorrect == Spec => []TypeOK
<1>1. SingleInv => TypeOK
  BY DEF SingleInv, CallerInv, CallerType, SingleType, TypeOK, AzureType, Places, Working
<1> QED
  BY <1>1, SingleInvariant, PTL

\* A finished server has the rules of both kinds, the endpoint and the extensions that the
\* spec and the options in force ask for and no mark, whatever it had before, wherever
\* attempts broke off and with whatever options the operator was restarted
\* (azure_postgresql.py:161-255).
THEOREM FinishedAlwaysConfigured == Spec => []FinishedIsConfigured
<1>1. SingleInv => FinishedIsConfigured
  BY DEF SingleInv, LinkInv, FinishedInv, Configured, FinishedIsConfigured, Settled, At, Whole
<1> QED
  BY <1>1, SingleInvariant, PTL

-----------------------------------------------------------------------------
(* The backend implements the credential contract. *)

live == [p \in {"server"} |-> server.password]

\* The published password is the one of the server; a call that is past the server has
\* brought the one it is going to publish.
PasswordInv ==
    /\ server.exists = (server.password # 0)
    /\ published # 0 => server.password \in {0, published}
    /\ call.pc \in Brought => server.password = IF call.changed THEN password ELSE published

LEMMA PasswordStep ==
    ASSUME SingleInv, PasswordInv, [Next]_vars
    PROVE  PasswordInv' /\ [Contract!Next]_<<live, published>>
<1>0. /\ CallerInv(Places, Working) /\ SingleType /\ ServerInv
      /\ server.password \in Nat /\ password \in Nat
  BY DEF SingleInv, SingleType, CallerInv, CallerType
<1> USE DEF live
<1>1. ASSUME server'.exists = server.exists, server'.password = server.password,
             published' \in {0, published},
             call'.pc \in Brought => /\ call.pc \in Brought /\ call'.changed = call.changed
                                    /\ UNCHANGED <<password, published>>
      PROVE  PasswordInv' /\ [Contract!Next]_<<live, published>>
  BY <1>1 DEF PasswordInv, Contract!Next, Contract!Withdraw
<1>2. CASE BringServer
  <2>1. /\ call.pc = "server" /\ call'.pc = "lock" /\ call'.changed = call.changed
        /\ UNCHANGED <<password, published>>
    BY <1>0, <1>2 DEF BringServer, Bring, Move, Step, At, resource, CallerInv, CallerType
  <2>2. /\ call.changed = (published = 0) /\ password # 0 /\ published \in {0, password}
    BY <1>0, <2>1 DEF CallerInv, At, Working
  <2>3. CASE seen => NeedsUpdate
    <3>1. server' = [server EXCEPT !.exists = TRUE, !.size = call.spec.size,
                                   !.password = password, !.marked = FALSE]
      BY <1>2, <2>3 DEF BringServer, Bring
    <3>2. server'.exists /\ server'.password = password
      BY <1>0, <3>1 DEF SingleType
    <3>3. Contract!Apply("server")
      BY <1>0, <2>1, <2>2, <3>2 DEF Contract!Apply
    <3> QED
      BY <2>1, <2>2, <3>2, <3>3 DEF PasswordInv, Contract!Next
  <2>4. CASE ~(seen => NeedsUpdate)
    <3>1. server' = server /\ server.exists /\ ~call.changed
      BY <1>2, <2>4 DEF BringServer, Bring, NeedsUpdate
    <3> QED
      BY <2>1, <2>2, <3>1 DEF PasswordInv
  <2> QED
    BY <2>3, <2>4
<1>3. CASE DeleteServer
  <2>1. /\ server'.password = 0 /\ server'.exists = FALSE /\ call'.pc = "delete_secret"
        /\ published' = published
    BY <1>0, <1>3 DEF DeleteServer, Remove, Move, Step, resource, NoServer, CallerInv, CallerType
  <2>2. Contract!Remove("server")
    BY <2>1 DEF Contract!Remove
  <2> QED
    BY <2>1, <2>2 DEF PasswordInv, Brought, Working, Contract!Next
<1>4. CASE Return
  <2>1. /\ server' = server /\ call.pc = "return" /\ call'.pc = "idle"
        /\ published' = IF call.changed THEN password ELSE published
    BY <1>4 DEF Return, Finish, Kept, At, NoCall
  <2>2. server.password = published' /\ server.password # 0
    BY <1>0, <2>1 DEF PasswordInv, ServerInv, Brought, Working
  <2>3. Contract!Publish("server")
    BY <2>1, <2>2 DEF Contract!Publish
  <2> QED
    BY <2>1, <2>2, <2>3 DEF PasswordInv, Brought, Working, Contract!Next
<1>5. CASE \/ Call \/ ReadServer \/ LockServer \/ ListVnets \/ SyncVnets \/ EndVnets
           \/ ListFirewall \/ SyncFirewall \/ EndFirewall \/ CreateEndpoint \/ CreateRecord
           \/ PutExtensions \/ RestartServer
           \/ FindServer \/ MarkServer \/ DeleteEndpoint \/ DeleteRecord
  <2>1. UNCHANGED <<password, published>>
    BY <1>5 DEF Call, Begin, ReadServer, Look, LockServer, Lock, ListVnets, SyncVnets, EndVnets,
                ListFirewall, SyncFirewall, EndFirewall, ListRules, SyncRules, SetRule,
                DeleteRule, RulesDone, CreateEndpoint, CreateRecord, PutExtensions,
                RestartServer, FindServer, BeginDelete, MarkServer, Mark, DeleteEndpoint,
                DeleteRecord, Move, Step, resource
  <2>2. server'.password = server.password /\ server'.exists = server.exists
    <3>1. CASE LockServer \/ MarkServer
      BY <1>0, <3>1 DEF LockServer, Lock, MarkServer, Mark, SingleType
    <3>2. CASE ~(LockServer \/ MarkServer)
      BY <1>5, <3>2 DEF Call, ReadServer, Look, ListVnets, SyncVnets, EndVnets, ListFirewall,
                SyncFirewall, EndFirewall, ListRules, SyncRules, SetRule, DeleteRule, RulesDone,
                CreateEndpoint, CreateRecord, PutExtensions, RestartServer, FindServer,
                DeleteEndpoint, DeleteRecord, azure
    <3> QED
      BY <3>1, <3>2
  <2>3. call'.pc \in Brought => call.pc \in Brought /\ call'.changed = call.changed
    <3>1. CASE Call \/ ReadServer \/ FindServer
      BY <1>0, <3>1 DEF Call, Begin, ReadServer, Look, Step, FindServer, BeginDelete, NoCall,
                        CallerInv, CallerType, Brought, Working
    <3>2. CASE MarkServer \/ DeleteEndpoint \/ DeleteRecord
      BY <1>0, <3>2 DEF MarkServer, Mark, DeleteEndpoint, DeleteRecord, Move, Step, CallerInv,
                        CallerType, Brought, Working
    <3>3. CASE ~(Call \/ ReadServer \/ FindServer \/ MarkServer \/ DeleteEndpoint \/ DeleteRecord)
      BY <1>0, <1>5, <3>3
         DEF LockServer, Lock, ListVnets, SyncVnets, EndVnets, ListFirewall, SyncFirewall,
             EndFirewall, ListRules, SyncRules, SetRule, DeleteRule, RulesDone, CreateEndpoint,
             CreateRecord, PutExtensions, RestartServer, Move, Step, At, CallerInv, CallerType,
             Brought, Working
    <3> QED
      BY <3>1, <3>2, <3>3
  <2> QED
    BY <1>1, <2>1, <2>2, <2>3
<1>6. CASE CloudRefuses \/ RuleUnreadable \/ Abort \/ \E o \in Options : Reconfigure(o)
  <2>1. server' = server /\ published' = published /\ call'.pc = "idle"
    BY <1>6 DEF CloudRefuses, RuleUnreadable, Abort, Reconfigure, Raise, Break, Kept, resource,
                NoCall
  <2> QED
    BY <1>1, <2>1 DEF Brought, Working
<1>7. CASE Administrator
  <2>1. /\ UNCHANGED <<password, published, call>>
        /\ server'.password = server.password /\ server'.exists = server.exists
    BY <1>0, <1>7 DEF Administrator, RemoveLock, resource, SingleType
  <2> QED
    BY <1>1, <2>1
<1>8. CASE EndDelete
  <2>1. server' = server /\ published' \in {0, published} /\ call'.pc \in {"release", "idle"}
    BY <1>0, <1>8 DEF EndDelete, DeleteCredentials, Release, azure, NoCall, CallerInv, CallerType
  <2> QED
    BY <1>1, <2>1 DEF Brought, Working
<1>9. CASE User /\ UNCHANGED <<azure, ruled, private, preloaded>>
  <2>1. server' = server /\ call' = call /\ published' \in {0, published}
    BY <1>9 DEF User, CreateObject, EditSpec, Reset, DeleteObject, azure
  <2>2. call.pc \in Brought => UNCHANGED <<password, published>>
    BY <1>0, <1>9 DEF User, CreateObject, EditSpec, Reset, DeleteObject, At, Brought, Working,
                      CallerInv
  <2> QED
    BY <1>1, <2>1, <2>2
<1>10. CASE UNCHANGED vars
  BY <1>1, <1>10 DEF vars
<1> QED
  BY <1>2, <1>3, <1>4, <1>5, <1>6, <1>7, <1>8, <1>9, <1>10 DEF Next, Operator

\* The password of the server changes only while none is published, and the one that is
\* published is in force, whatever options the operator is restarted with: an update that
\* finds nothing else to change sends a new password all the same (azure_postgresql.py:115).
THEOREM SingleKeepsContract == Spec => KeepsContract
<1>1. Init => PasswordInv /\ Contract!Init
  <2>1. Init => /\ server = NoServer /\ published = 0 /\ call.pc = "idle"
    BY DEF Init, AzureInit, CallerInit, NoCall
  <2>2. NoServer.password = 0 /\ NoServer.exists = FALSE
    BY DEF NoServer
  <2> QED
    BY <2>1, <2>2 DEF PasswordInv, Brought, Working, Contract!Init, live
<1>2. SingleInv /\ PasswordInv /\ [Next]_vars =>
          PasswordInv' /\ [Contract!Next]_<<live, published>>
  BY PasswordStep
<1> QED
  BY <1>1, <1>2, SingleInvariant, PTL DEF Spec, KeepsContract, Contract!Spec, live
=============================================================================
