------------------------- MODULE AzureFlexibleProofs -------------------------
(***************************************************************************)
(* Theorems about AzureFlexible, for all rules, extensions, parameters,    *)
(* options and specs, and every bound on what users and failures do.       *)
(***************************************************************************)
EXTENDS AzureFlexible, BackendLemmas

Places   == {"read", "server", "lock", "list_rules", "firewall", "preload", "extensions",
             "parameters", "return"}
Brought  == Places \ {"read", "server"}
Whole(k) == budget[k] = Budget[k]

FlexType ==
    /\ options \in Options
    /\ server \in [exists : BOOLEAN, size : Nat, password : Nat, marked : BOOLEAN,
                   locked : BOOLEAN]
    /\ seen \in BOOLEAN
    /\ rules \in [RuleKinds -> RulesType] /\ existing \in RulesType /\ todo \in Seq(Rules)
    /\ config \in ConfigType /\ in_force \in ConfigType
    /\ left \subseteq Parameters /\ restart \in BOOLEAN

\* The published password is the one of the server; a call that is past the server has
\* brought the one it is going to publish; a server that is not there any more, or has no
\* object, was only marked.
ServerInv ==
    /\ server.exists = (server.password # 0)
    /\ published # 0 => server.password \in {0, published}
    /\ call.pc \in Brought =>
           /\ server.exists /\ server.size = call.spec.size
           /\ server.password = IF call.changed THEN password ELSE published
    /\ ~options.fake /\ server.exists =>
           object.exists /\ call.pc \notin {"delete_secret", "release"}

\* As long as no failure was swallowed a mark goes with credentials that are gone, so that
\* the next call sends its parameters.
MarkInv ==
    Whole("fault") =>
        /\ server.marked => published = 0 \/ (object.deleting /\ call.pc \notin Places)
        /\ call.pc = "release" => published = 0
        /\ call.pc \in Brought => ~server.marked

\* The rules of a public server are those wanted once the call is through with them.
RuleInv ==
    /\ ~options.public => rules["firewall"] = NoRules
    /\ call.pc \in {"list_rules", "firewall"} => options.public
    /\ call.pc = "firewall" =>
           Through(WantedRules(call.spec), rules["firewall"], existing, todo)
    /\ call.pc \in {"preload", "extensions", "parameters", "return"} /\ options.public =>
           rules["firewall"] = Wanted(WantedRules(call.spec))

\* The configuration, part by part; while no attempt broke off, what is not in force is
\* remembered by the call that stored it.
ConfigInv ==
    /\ call.pc \in {"extensions", "parameters", "return"} =>
           config.preload = PreloadExtensions(call.spec)
    /\ call.pc \in {"parameters", "return"} => config.allowed = AllExtensions(call.spec)
    /\ call.pc = "parameters" =>
           \A p \in Parameters \ left : config.parameters[p] = Parameter(call.spec, p)
    /\ call.pc = "return" =>
           \A p \in Parameters : config.parameters[p] = Parameter(call.spec, p)
    /\ Whole("abort") => in_force = config \/ (restart /\ call.pc \in {"extensions", "parameters"})

Configured(spec) ==
    /\ server.exists /\ server.size = spec.size
    /\ rules["firewall"] = IF options.public THEN Wanted(WantedRules(spec)) ELSE NoRules
    /\ config.preload = PreloadExtensions(spec) /\ config.allowed = AllExtensions(spec)
    /\ \A p \in Parameters : config.parameters[p] = Parameter(spec, p)
    /\ Whole("abort") => in_force = config
    /\ Whole("fault") => ~server.marked

FinishedInv == object.done /\ ~object.deleting => Configured(object.spec)

FlexInv ==
    CallerInv(Places, Places) /\ FlexType
    /\ ServerInv /\ MarkInv /\ RuleInv /\ ConfigInv /\ FinishedInv

LEMMA ApartPlaces == Apart(Places, Places)
BY DEF Apart, Places, Ends

LEMMA ConstantTypes ==
    /\ Defaults \in ConfigType
    /\ NoServer \in [exists : BOOLEAN, size : Nat, password : Nat, marked : BOOLEAN,
                     locked : BOOLEAN]
    /\ ~NoServer.exists /\ NoServer.password = 0 /\ ~NoServer.marked
    /\ NoRules \in RulesType /\ <<>> \in Seq(Rules)
    /\ RuleKinds = {"firewall"}
    /\ \A o \in Options : o.public \in BOOLEAN /\ o.locks \in BOOLEAN /\ o.fake \in BOOLEAN
BY NoRulesType, FlexibleAssumption, AzureAssumption DEF Defaults, ConfigType, NoServer, RulesType

LEMMA SpecTypes ==
    ASSUME NEW s \in Specs
    PROVE  /\ s.size \in Nat \ {0} /\ WantedRules(s) \in Seq(Rules)
           /\ AllExtensions(s) \subseteq Extensions /\ PreloadExtensions(s) \subseteq Extensions
           /\ \A p \in Parameters : Parameter(s, p) \in Nat
BY AzureAssumption, FlexibleAssumption
   DEF WantedRules, AllExtensions, PreloadExtensions, Parameter

LEMMA InitFlex == Init => FlexInv
<1> SUFFICES ASSUME Init PROVE FlexInv
  OBVIOUS
<1>1. CallerInv(Places, Places)
  BY ApartPlaces, CallerInitially DEF Init, AzureInit
<1>2. FlexType
  BY ConstantTypes DEF Init, AzureInit, FlexType
<1>3. /\ ~object.exists /\ ~object.done /\ call.pc = "idle" /\ published = 0
      /\ server = NoServer /\ rules["firewall"] = NoRules /\ in_force = config
  BY ConstantTypes DEF Init, AzureInit, CallerInit, NoObject, NoCall
<1> QED
  BY <1>1, <1>2, <1>3, ConstantTypes
     DEF FlexInv, ServerInv, MarkInv, RuleInv, ConfigInv, FinishedInv, Brought, Places
-----------------------------------------------------------------------------
(* Steps that bring nothing about *)

\* The server is as before, apart from its lock.
SameServer ==
    /\ UNCHANGED <<options, rules, config, in_force>>
    /\ server'.exists = server.exists /\ server'.size = server.size
    /\ server'.password = server.password /\ server'.marked = server.marked

\* The call ends without a result, or has not begun to bring anything about.
LEMMA NothingBrought ==
    ASSUME FlexInv, CallerInv(Places, Places)', Frugal, FlexType', SameServer,
           UNCHANGED <<object, password, published>>,
           call'.pc \in {"idle", "read", "server", "delete"},
           Whole("abort")' => in_force = config,
           call'.pc \in Places => call.pc \in Places \/ ~object.deleting
    PROVE  FlexInv'
<1>1. (Whole("abort")' => Whole("abort")) /\ (Whole("fault")' => Whole("fault"))
  BY WholeBefore DEF FlexInv, Whole, Kinds
<1>2. ServerInv' /\ MarkInv'
  BY <1>1 DEF FlexInv, ServerInv, MarkInv, SameServer, Brought, Places
<1>3. RuleInv' /\ ConfigInv'
  BY <1>1 DEF FlexInv, RuleInv, ConfigInv, SameServer
<1>4. FinishedInv'
  BY <1>1 DEF FlexInv, FinishedInv, Configured, SameServer
<1> QED
  BY <1>2, <1>3, <1>4 DEF FlexInv

LEMMA BreaksKeep ==
    ASSUME FlexInv, call' = NoCall, UNCHANGED resource, Frugal, Forget, Kept,
           Whole("abort")' => in_force = config
    PROVE  FlexInv'
<1>1. CallerInv(Places, Places)'
  BY ApartPlaces, CallerBreaks DEF FlexInv
<1>2. FlexType' /\ SameServer
  BY ConstantTypes DEF FlexInv, FlexType, Forget, Kept, SameServer
<1>3. call'.pc = "idle" /\ UNCHANGED <<object, password, published>>
  BY DEF NoCall, resource
<1> QED
  BY <1>1, <1>2, <1>3, NothingBrought DEF Places

LEMMA UsersKeep ==
    ASSUME FlexInv, User, UNCHANGED <<azure, ruled, configured>>
    PROVE  FlexInv'
<1>1. CallerInv(Places, Places)' /\ Frugal /\ FlexType'
  BY ApartPlaces, UsersAct DEF FlexInv, FlexType, azure, ruled, configured
<1>2. (Whole("abort")' => Whole("abort")) /\ (Whole("fault")' => Whole("fault"))
  BY <1>1, WholeBefore DEF FlexInv, Whole, Kinds
<1>3. /\ UNCHANGED call /\ published' \in {0, published}
      /\ object'.done /\ ~object'.deleting => object' = object
      /\ object.exists => object'.exists
      /\ object'.exists
      /\ call.pc \in Places => UNCHANGED <<password, published>>
      /\ object.deleting => object'.deleting
  BY DEF FlexInv, CallerInv, CallerType, User, CreateObject, EditSpec, Reset, DeleteObject,
         NoObject, At, Places
<1>4. UNCHANGED <<server, options, rules, existing, todo, config, in_force, left, restart>>
  BY DEF azure, ruled, configured
<1>5. ServerInv' /\ MarkInv'
  BY <1>2, <1>3, <1>4 DEF FlexInv, ServerInv, MarkInv, Brought
<1>6. RuleInv' /\ ConfigInv' /\ FinishedInv'
  BY <1>2, <1>3, <1>4 DEF FlexInv, RuleInv, ConfigInv, FinishedInv, Configured
<1> QED
  BY <1>1, <1>5, <1>6 DEF FlexInv

LEMMA AdministratorKeeps ==
    ASSUME FlexInv, Administrator
    PROVE  FlexInv'
<1>1. /\ UNCHANGED <<object, password, published, call, budget>>
      /\ UNCHANGED <<options, rules, existing, todo, config, in_force, left, restart, seen>>
      /\ server' = [server EXCEPT !.locked = FALSE]
  BY DEF Administrator, RemoveLock, resource, ruled, configured
<1>2. CallerInv(Places, Places)'
  BY <1>1, ApartPlaces, CallerStays, KeepIsFrugal DEF FlexInv, CallerInv, CallerType, resource
<1>3. FlexType' /\ SameServer
  BY <1>1 DEF FlexInv, FlexType, SameServer
<1>4. UNCHANGED <<Whole("abort"), Whole("fault")>>
  BY <1>1 DEF Whole
<1>5. ServerInv' /\ MarkInv'
  BY <1>1, <1>3, <1>4 DEF FlexInv, ServerInv, MarkInv, SameServer
<1>6. RuleInv' /\ ConfigInv' /\ FinishedInv'
  BY <1>1, <1>3, <1>4
     DEF FlexInv, RuleInv, ConfigInv, FinishedInv, Configured, SameServer
<1> QED
  BY <1>2, <1>3, <1>5, <1>6 DEF FlexInv
-----------------------------------------------------------------------------
(* create_or_update_server *)

\* The call goes from one of its places to another.
LEMMA Going ==
    ASSUME FlexInv, NEW from \in Places, NEW next \in Places, Move(from, next)
    PROVE  /\ CallerInv(Places, Places)'
           /\ call.pc = from /\ call'.pc = next
           /\ call'.spec = call.spec /\ call'.changed = call.changed
           /\ UNCHANGED <<object, password, published, budget>>
           /\ UNCHANGED <<Whole("abort"), Whole("fault")>>
           /\ object.exists /\ ~object.done /\ call.spec \in Specs
           /\ password # 0 /\ call.changed = (published = 0)
<1>1. CallerInv(Places, Places)'
  BY ApartPlaces, CallerSteps, KeepIsFrugal DEF FlexInv, CallerInv, CallerType, Move
<1> QED
  BY <1>1 DEF FlexInv, CallerInv, CallerType, Move, Step, At, resource, Whole, Places

LEMMA BringingKeeps ==
    ASSUME FlexInv, BringServer \/ LockServer
    PROVE  FlexInv'
<1>0. /\ FlexType /\ ServerInv /\ MarkInv /\ RuleInv /\ ConfigInv
      /\ password \in Nat
  BY DEF FlexInv, CallerInv, CallerType
<1>1. CASE BringServer
  <2>1. Move("server", "lock")
    BY <1>1 DEF BringServer, Bring
  <2>2. /\ CallerInv(Places, Places)'
        /\ call.pc = "server" /\ call'.pc = "lock"
        /\ call'.spec = call.spec /\ call'.changed = call.changed
        /\ UNCHANGED <<object, password, published, budget>>
        /\ UNCHANGED <<Whole("abort"), Whole("fault")>>
        /\ object.exists /\ ~object.done /\ call.spec \in Specs
        /\ password # 0 /\ call.changed = (published = 0)
    BY <2>1, Going DEF Places
  <2>3. UNCHANGED <<options, rules, existing, todo, seen, config, in_force, left, restart>>
    BY <1>1 DEF BringServer, Bring, ruled, configured
  <2>4. CASE seen => NeedsUpdate
    <3>1. server' = [server EXCEPT !.exists = TRUE, !.size = call.spec.size,
                                   !.password = password, !.marked = FALSE]
      BY <1>1, <2>4 DEF BringServer, Bring
    <3>2. call.spec.size \in Nat
      BY <2>2, SpecTypes
    <3>3. /\ FlexType' /\ server'.exists /\ server'.size = call.spec.size
          /\ server'.password = password /\ ~server'.marked
      BY <1>0, <2>3, <3>1, <3>2 DEF FlexType
    <3>4. published # 0 => published = password
      BY DEF FlexInv, CallerInv
    <3>5. ServerInv' /\ MarkInv'
      BY <1>0, <2>2, <2>3, <3>3, <3>4 DEF ServerInv, MarkInv
    <3> QED
      BY <1>0, <2>2, <2>3, <3>3, <3>5 DEF FlexInv, RuleInv, ConfigInv, FinishedInv
  <2>5. CASE ~(seen => NeedsUpdate)
    <3>1. server' = server /\ server.exists /\ server.size = call.spec.size /\ ~call.changed
      BY <1>1, <2>5 DEF BringServer, Bring, NeedsUpdate
    <3>2. FlexType' /\ server.password = published
      BY <1>0, <2>2, <2>3, <3>1 DEF FlexType, ServerInv
    <3>3. Whole("fault") => ~server.marked
      BY <1>0, <2>2, <3>1 DEF MarkInv, FlexType, Places
    <3>4. ServerInv' /\ MarkInv'
      BY <1>0, <2>2, <2>3, <3>1, <3>2, <3>3 DEF ServerInv, MarkInv
    <3> QED
      BY <1>0, <2>2, <2>3, <3>1, <3>2, <3>4 DEF FlexInv, RuleInv, ConfigInv, FinishedInv
  <2> QED
    BY <2>4, <2>5
<1>2. CASE LockServer
  <2>1. PICK next \in {"list_rules", "preload"} :
            /\ next = IF options.public THEN "list_rules" ELSE "preload"
            /\ Move("lock", next)
    BY <1>2 DEF LockServer, Lock
  <2>2. /\ CallerInv(Places, Places)'
        /\ call.pc = "lock" /\ call'.pc = next
        /\ call'.spec = call.spec /\ call'.changed = call.changed
        /\ UNCHANGED <<object, password, published, budget>>
        /\ UNCHANGED <<Whole("abort"), Whole("fault")>>
        /\ ~object.done
    BY <2>1, Going DEF Places
  <2>3. /\ UNCHANGED <<options, rules, existing, todo, seen, config, in_force, left, restart>>
        /\ server' = [server EXCEPT !.locked = @ \/ options.locks]
    BY <1>2 DEF LockServer, Lock, ruled, configured
  <2>4. FlexType' /\ SameServer /\ options.public \in BOOLEAN
    BY <1>0, <2>3, ConstantTypes DEF FlexType, SameServer
  <2>5. ServerInv' /\ MarkInv'
    BY <1>0, <2>2, <2>3, <2>4 DEF ServerInv, MarkInv, SameServer, Brought, Places
  <2> QED
    BY <1>0, <2>1, <2>2, <2>3, <2>4, <2>5 DEF FlexInv, RuleInv, ConfigInv, FinishedInv
<1> QED
  BY <1>1, <1>2

\* The steps past the server leave it alone.
LEMMA ServerKept ==
    ASSUME FlexInv, call.pc \in Brought, call'.pc \in Brought, UNCHANGED <<options, server>>,
           call'.spec = call.spec, call'.changed = call.changed,
           UNCHANGED <<object, password, published, budget>>
    PROVE  ServerInv' /\ MarkInv'
BY DEF FlexInv, ServerInv, MarkInv, Whole, Brought, Places

LEMMA RulesKeep ==
    ASSUME FlexInv, ListWantedRules \/ SetRules \/ EndRules
    PROVE  FlexInv'
<1>1. PICK from \in {"list_rules", "firewall"}, next \in {"firewall", "preload"} :
          /\ Move(from, next)
          /\ ListWantedRules => from = "list_rules" /\ next = "firewall"
          /\ SetRules => from = "firewall" /\ next = "firewall"
          /\ EndRules => from = "firewall" /\ next = "preload"
  <2>1. /\ ListWantedRules => Move("list_rules", "firewall")
        /\ SetRules => Move("firewall", "firewall")
        /\ EndRules => Move("firewall", "preload")
    BY DEF ListWantedRules, ListRules, SetRules, SyncRules, SetRule, DeleteRule, EndRules,
           RulesDone
  <2>2. \A a, b : Move(a, b) => call.pc = a /\ call'.pc = b
    BY DEF FlexInv, CallerInv, CallerType, Move, Step, At
  <2> QED
    BY <2>1, <2>2
<1> DEFINE all == WantedRules(call.spec)
<1>2. /\ CallerInv(Places, Places)'
      /\ call.pc = from /\ call'.pc = next
      /\ call'.spec = call.spec /\ call'.changed = call.changed
      /\ UNCHANGED <<object, password, published, budget>>
      /\ UNCHANGED <<Whole("abort"), Whole("fault")>>
      /\ ~object.done /\ call.spec \in Specs
  BY <1>1, Going DEF Places
<1>3. UNCHANGED <<options, server, seen, config, in_force, left, restart>>
  BY DEF ListWantedRules, ListRules, SetRules, SyncRules, SetRule, DeleteRule, EndRules,
         RulesDone, azure, configured
<1>4. ServerInv' /\ MarkInv'
  BY <1>1, <1>2, <1>3, ServerKept DEF Brought, Places
<1>5. /\ rules \in [{"firewall"} -> RulesType] /\ rules["firewall"] \in RulesType
      /\ existing \in RulesType /\ todo \in Seq(Rules) /\ all \in Seq(Rules)
      /\ RuleInv /\ ConfigInv
  BY <1>2, ConstantTypes, SpecTypes DEF FlexInv, FlexType
<1>6. options.public
  BY <1>1, <1>2 DEF FlexInv, RuleInv
<1>7. /\ rules' \in [{"firewall"} -> RulesType] /\ existing' \in RulesType
      /\ todo' \in Seq(Rules)
      /\ next = "firewall" => Through(all, rules'["firewall"], existing', todo')
      /\ next = "preload" => rules'["firewall"] = Wanted(all)
  <2>1. CASE ListWantedRules
    BY <1>1, <1>5, <2>1, LoopBegins DEF ListWantedRules, ListRules
  <2>2. CASE SetRules
    <3>1. Through(all, rules["firewall"], existing, todo)
      BY <1>1, <1>2, <1>5, <2>2 DEF RuleInv
    <3>2. CASE SetRule("firewall")
      <4>1. /\ todo # <<>> /\ todo' = Tail(todo)
            /\ existing' = Without(existing, Head(todo).name)
            /\ rules' = IF /\ Head(todo).name \in DOMAIN existing
                           /\ existing[Head(todo).name] = Head(todo).range
                        THEN rules
                        ELSE [rules EXCEPT !["firewall"] = With(rules["firewall"], Head(todo))]
        BY <3>2 DEF SetRule
      <4>2. rules'["firewall"] = IF /\ Head(todo).name \in DOMAIN existing
                                    /\ existing[Head(todo).name] = Head(todo).range
                                 THEN rules["firewall"]
                                 ELSE With(rules["firewall"], Head(todo))
        BY <1>5, <4>1
      <4>3. /\ Through(all, rules'["firewall"], existing', todo')
            /\ rules'["firewall"] \in RulesType
        <5>1. Through(all, rules'["firewall"], existing', todo')
          BY <1>5, <3>1, <4>1, <4>2, LoopSets
        <5>2. Head(todo) \in Rules
          BY <1>5, <4>1, HeadTailProperties
        <5>3. With(rules["firewall"], Head(todo)) \in RulesType
          BY <1>5, <5>2, WithType DEF Rules, RulesType
        <5> QED
          BY <1>5, <4>2, <5>1, <5>3
      <4>4. rules' \in [{"firewall"} -> RulesType]
        BY <1>5, <4>1, <4>2, <4>3
      <4>5. todo' \in Seq(Rules) /\ existing' \in RulesType
        BY <1>5, <4>1, WithoutType, HeadTailProperties DEF RulesType
      <4> QED
        BY <1>1, <2>2, <4>3, <4>4, <4>5
    <3>3. CASE \E n \in RuleNames : DeleteRule("firewall", n)
      <4>1. PICK n \in DOMAIN existing :
                /\ todo = <<>> /\ todo' = todo
                /\ existing' = Without(existing, n)
                /\ rules' = [rules EXCEPT !["firewall"] = Without(rules["firewall"], n)]
        BY <3>3 DEF DeleteRule
      <4>2. rules'["firewall"] = Without(rules["firewall"], n)
        BY <1>5, <4>1
      <4>3. Through(all, rules'["firewall"], existing', todo')
        BY <1>5, <3>1, <4>1, <4>2, LoopDeletes
      <4>4. /\ rules' \in [{"firewall"} -> RulesType] /\ existing' \in RulesType
            /\ todo' \in Seq(Rules)
        BY <1>5, <4>1, WithoutType DEF RulesType
      <4> QED
        BY <1>1, <2>2, <4>3, <4>4
    <3> QED
      BY <2>2, <3>2, <3>3 DEF SetRules, SyncRules
  <2>3. CASE EndRules
    <3>1. /\ todo = <<>> /\ existing = NoRules
          /\ UNCHANGED <<rules, existing, todo>>
      BY <2>3 DEF EndRules, RulesDone, ruled
    <3>2. Through(all, rules["firewall"], NoRules, <<>>)
      BY <1>1, <1>2, <1>5, <2>3, <3>1 DEF RuleInv
    <3>3. rules["firewall"] = [n \in DOMAIN rules["firewall"] |-> rules["firewall"][n]]
      BY <1>5, RulesTypes DEF RulesType
    <3>4. rules["firewall"] = Wanted(all)
      BY <1>5, <3>2, <3>3, LoopEnds
    <3> QED
      BY <1>1, <1>5, <2>3, <3>1, <3>4
  <2> QED
    BY <2>1, <2>2, <2>3
<1>8. FlexType'
  BY <1>3, <1>7, ConstantTypes DEF FlexInv, FlexType
<1>9. RuleInv'
  BY <1>1, <1>2, <1>3, <1>6, <1>7 DEF RuleInv
<1>10. ConfigInv' /\ FinishedInv'
  BY <1>1, <1>2, <1>3, <1>5 DEF ConfigInv, FinishedInv
<1> QED
  BY <1>2, <1>4, <1>8, <1>9, <1>10 DEF FlexInv

LEMMA ConfigurationKeeps ==
    ASSUME FlexInv,
           \/ SetPreload \/ SetExtensions \/ (\E p \in Parameters : SetParameter(p))
           \/ RestartServer
    PROVE  FlexInv'
<1>1. PICK from \in {"preload", "extensions", "parameters"},
           next \in {"extensions", "parameters", "return"} :
          /\ Move(from, next)
          /\ SetPreload => from = "preload" /\ next = "extensions"
          /\ SetExtensions => from = "extensions" /\ next = "parameters"
          /\ (\E p \in Parameters : SetParameter(p)) => from = "parameters" /\ next = "parameters"
          /\ RestartServer => from = "parameters" /\ next = "return"
  <2> USE DEF SetPreload, SetExtensions, SetParameter, RestartServer, Move, Step, At
  <2>0. call \in [pc : Places \cup {"idle", "delete", "delete_secret", "release"},
                  spec : Specs \cup {NoSpec}, changed : BOOLEAN]
    BY DEF FlexInv, CallerInv, CallerType
  <2>1. CASE SetPreload
    BY <2>0, <2>1
  <2>2. CASE SetExtensions
    BY <2>0, <2>2
  <2>3. CASE \E p \in Parameters : SetParameter(p)
    BY <2>0, <2>3
  <2>4. CASE RestartServer
    BY <2>0, <2>4
  <2> QED
    BY <2>1, <2>2, <2>3, <2>4
<1>2. /\ CallerInv(Places, Places)'
      /\ call.pc = from /\ call'.pc = next
      /\ call'.spec = call.spec /\ call'.changed = call.changed
      /\ UNCHANGED <<object, password, published, budget>>
      /\ UNCHANGED <<Whole("abort"), Whole("fault")>>
      /\ ~object.done /\ call.spec \in Specs
  BY <1>1, Going DEF Places
<1>3. UNCHANGED <<options, server, seen, rules, existing, todo>>
  BY DEF SetPreload, SetExtensions, SetParameter, RestartServer, Put, azure, ruled
<1>4. ServerInv' /\ MarkInv'
  BY <1>1, <1>2, <1>3, ServerKept DEF Brought, Places
<1>5. RuleInv'
  BY <1>1, <1>2, <1>3 DEF FlexInv, RuleInv
<1>6. /\ FlexType /\ ConfigInv
      /\ PreloadExtensions(call.spec) \subseteq Extensions
      /\ AllExtensions(call.spec) \subseteq Extensions
      /\ \A p \in Parameters : Parameter(call.spec, p) \in Nat
      /\ config \in ConfigType /\ in_force \in ConfigType
  BY <1>2, SpecTypes DEF FlexInv, FlexType
<1>7. FinishedInv'
  BY <1>2 DEF FinishedInv
<1> SUFFICES FlexType' /\ ConfigInv'
  BY <1>2, <1>4, <1>5, <1>7 DEF FlexInv
\* What is stored while something is not in force asks for a restart.
<1>8. ASSUME NEW new, Put(new), from \in {"preload", "extensions", "parameters"}
      PROVE  Whole("abort")' => in_force' = config' \/ restart'
  BY <1>2, <1>6, <1>8 DEF Put, ConfigInv
<1>9. CASE SetPreload
  <2>1. config' = [config EXCEPT !.preload = PreloadExtensions(call.spec)] /\ UNCHANGED left
    BY <1>9 DEF SetPreload, Put
  <2>2. config' \in ConfigType /\ config'.preload = PreloadExtensions(call.spec)
    BY <1>6, <2>1 DEF ConfigType
  <2>3. UNCHANGED in_force /\ restart' \in BOOLEAN
    BY <1>6, <1>9 DEF SetPreload, Put, FlexType
  <2>4. Whole("abort")' => in_force' = config' \/ restart'
    BY <1>8, <1>9 DEF SetPreload
  <2> QED
    BY <1>1, <1>2, <1>3, <1>6, <1>9, <2>1, <2>2, <2>3, <2>4 DEF FlexType, ConfigInv
<1>10. CASE SetExtensions
  <2>1. config' = [config EXCEPT !.allowed = AllExtensions(call.spec)] /\ left' = Parameters
    BY <1>10 DEF SetExtensions, Put
  <2>2. /\ config' \in ConfigType /\ config'.allowed = AllExtensions(call.spec)
        /\ config'.preload = config.preload
    BY <1>6, <2>1 DEF ConfigType
  <2>3. UNCHANGED in_force /\ restart' \in BOOLEAN
    BY <1>6, <1>10 DEF SetExtensions, Put, FlexType
  <2>4. Whole("abort")' => in_force' = config' \/ restart'
    BY <1>8, <1>10 DEF SetExtensions
  <2> QED
    BY <1>1, <1>2, <1>3, <1>6, <1>10, <2>1, <2>2, <2>3, <2>4 DEF FlexType, ConfigInv
<1>11. ASSUME NEW p \in Parameters, SetParameter(p) PROVE FlexType' /\ ConfigInv'
  <2>1. /\ config' = [config EXCEPT !.parameters =
                          [config.parameters EXCEPT ![p] = Parameter(call.spec, p)]]
        /\ left' = left \ {p}
    BY <1>11 DEF SetParameter, Put
  <2>2. config.parameters \in [Parameters -> Nat]
    BY <1>6 DEF ConfigType
  <2>3. [config.parameters EXCEPT ![p] = Parameter(call.spec, p)] \in [Parameters -> Nat]
    BY <1>6, <2>2
  <2>4. /\ config' \in ConfigType /\ config'.allowed = config.allowed
        /\ config'.preload = config.preload
        /\ config'.parameters = [config.parameters EXCEPT ![p] = Parameter(call.spec, p)]
    BY <1>6, <2>1, <2>3 DEF ConfigType
  <2>5. UNCHANGED in_force /\ restart' \in BOOLEAN
    BY <1>6, <1>11 DEF SetParameter, Put, FlexType
  <2>6. Whole("abort")' => in_force' = config' \/ restart'
    BY <1>8, <1>11 DEF SetParameter
  <2>7. from = "parameters" /\ next = "parameters"
    BY <1>1, <1>11
  <2>8. \A q \in Parameters \ left' : config'.parameters[q] = Parameter(call'.spec, q)
    BY <1>2, <1>6, <2>1, <2>2, <2>4, <2>7 DEF ConfigInv, Parameter
  <2>9. FlexType'
    BY <1>3, <1>6, <2>1, <2>4, <2>5 DEF FlexType
  <2> QED
    BY <1>2, <1>6, <2>4, <2>5, <2>6, <2>7, <2>8, <2>9
       DEF ConfigInv, PreloadExtensions, AllExtensions
<1>12. CASE RestartServer
  <2>1. /\ UNCHANGED <<config, left, restart>> /\ left = {}
        /\ in_force' = IF restart THEN config ELSE in_force
    BY <1>12 DEF RestartServer
  <2>2. FlexType'
    BY <1>3, <1>6, <2>1 DEF FlexType
  <2>3. from = "parameters" /\ next = "return"
    BY <1>1, <1>12
  <2> QED
    BY <1>2, <1>6, <2>1, <2>2, <2>3
       DEF ConfigInv, PreloadExtensions, AllExtensions, Parameter
<1> QED
  BY <1>9, <1>10, <1>11, <1>12

LEMMA ReturnKeeps ==
    ASSUME FlexInv, Return
    PROVE  FlexInv'
<1>1. CallerInv(Places, Places)'
  BY ApartPlaces, CallerFinishes DEF FlexInv, Return, Places
<1>2. /\ call.pc = "return" /\ call' = NoCall /\ call'.pc = "idle"
      /\ published' = (IF call.changed THEN password ELSE published)
      /\ object' = [object EXCEPT !.done = (object.spec = call.spec)]
      /\ UNCHANGED <<password, budget, options, server, rules, config, in_force>>
      /\ UNCHANGED <<Whole("abort"), Whole("fault")>>
  BY DEF Return, Finish, At, NoCall, Kept, Whole
<1>3. FlexType'
  BY <1>2, ConstantTypes DEF FlexInv, FlexType, Return, Forget, Kept
<1>4. /\ object'.exists = object.exists /\ object'.deleting = object.deleting
      /\ object'.spec = object.spec /\ object.exists
      /\ object'.done => object.spec = call.spec
  BY <1>2 DEF FlexInv, CallerInv, CallerType, At
<1>5. server.exists /\ server.password = published' /\ (Whole("fault") => ~server.marked)
  BY <1>2 DEF FlexInv, ServerInv, MarkInv, Brought, Places
<1>6. ServerInv' /\ MarkInv'
  BY <1>2, <1>4, <1>5 DEF FlexInv, ServerInv, MarkInv, Brought, Places
<1>7. RuleInv' /\ ConfigInv'
  BY <1>2 DEF FlexInv, RuleInv, ConfigInv
<1>8. Configured(call.spec)
  <2>1. options.public \in BOOLEAN
    BY ConstantTypes DEF FlexInv, FlexType
  <2> QED
    BY <1>2, <1>5, <2>1 DEF FlexInv, ServerInv, RuleInv, ConfigInv, Configured, Brought, Places
<1>9. FinishedInv'
  <2>1. Configured(object.spec)' <=> Configured(object.spec)
    BY <1>2, <1>4 DEF Configured, WantedRules, PreloadExtensions, AllExtensions, Parameter
  <2> QED
    BY <1>4, <1>8, <2>1 DEF FinishedInv
<1> QED
  BY <1>1, <1>3, <1>6, <1>7, <1>9 DEF FlexInv

\* The steps of a deletion.
LEMMA DeletingKeeps ==
    ASSUME FlexInv, FindServer \/ MarkServer \/ DeleteServer \/ EndDelete
    PROVE  FlexInv'
<1>0. /\ CallerInv(Places, Places) /\ FlexType /\ ServerInv /\ MarkInv /\ RuleInv /\ ConfigInv
      /\ FinishedInv /\ budget \in [Kinds -> Nat]
  BY DEF FlexInv, CallerInv, CallerType
<1>1. CASE FindServer
  <2>1. server.exists \in BOOLEAN /\ Frugal /\ BeginDelete(server.exists)
    BY <1>0, <1>1, KeepIsFrugal DEF FindServer, FlexType
  <2>2. CallerInv(Places, Places)'
    BY <1>0, <2>1, ApartPlaces, CallerFinds
  <2>3. /\ call'.pc = (IF server.exists THEN "delete" ELSE "delete_secret")
        /\ call.pc = "idle" /\ object.deleting
        /\ UNCHANGED <<object, password, published, budget>>
        /\ UNCHANGED <<options, server, seen, rules, existing, todo>>
        /\ UNCHANGED <<config, in_force, left, restart>>
        /\ UNCHANGED <<Whole("abort"), Whole("fault")>>
    BY <1>1 DEF FindServer, BeginDelete, At, NoCall, resource, azure, ruled, configured, Whole
  <2>4. FlexType' /\ FinishedInv'
    BY <1>0, <2>3 DEF FlexType, FinishedInv
  <2>5. ServerInv' /\ MarkInv'
    BY <1>0, <2>3 DEF ServerInv, MarkInv, Brought, Places
  <2> QED
    BY <1>0, <2>2, <2>3, <2>4, <2>5 DEF FlexInv, RuleInv, ConfigInv
<1>2. CASE MarkServer \/ DeleteServer
  <2>1. Move("delete", "delete_secret")
    BY <1>2 DEF MarkServer, Mark, DeleteServer, Remove
  <2>2. CallerInv(Places, Places)'
    BY <1>0, <2>1, ApartPlaces, CallerSteps, KeepIsFrugal DEF Move, Ends, Places
  <2>3. /\ call.pc = "delete" /\ call'.pc = "delete_secret" /\ object.deleting
        /\ UNCHANGED <<object, password, published, budget>>
        /\ UNCHANGED <<Whole("abort"), Whole("fault")>>
    BY <1>0, <2>1 DEF Move, Step, At, resource, CallerInv, CallerType, Ends, Whole
  <2>4. CASE MarkServer
    <3>1. /\ options.fake /\ server' = [server EXCEPT !.marked = TRUE]
          /\ UNCHANGED <<options, seen, rules, existing, todo, config, in_force, left, restart>>
      BY <2>4 DEF MarkServer, Mark, ruled, configured
    <3>2. FlexType' /\ FinishedInv'
      BY <1>0, <2>3, <3>1 DEF FlexType, FinishedInv
    <3>3. /\ server'.exists = server.exists /\ server'.password = server.password
      BY <1>0, <3>1 DEF FlexType
    <3>4. ServerInv' /\ MarkInv'
      BY <1>0, <2>3, <3>1, <3>3 DEF ServerInv, MarkInv, Brought, Places
    <3> QED
      BY <1>0, <2>2, <2>3, <3>1, <3>2, <3>4 DEF FlexInv, RuleInv, ConfigInv
  <2>5. CASE DeleteServer
    <3>1. /\ server' = NoServer /\ rules' = [k \in RuleKinds |-> NoRules]
          /\ config' = Defaults /\ in_force' = Defaults
          /\ UNCHANGED <<options, seen, existing, todo, left, restart>>
      BY <2>5 DEF DeleteServer, Remove
    <3>2. FlexType' /\ FinishedInv'
      BY <1>0, <2>3, <3>1, ConstantTypes DEF FlexType, FinishedInv
    <3>3. ServerInv' /\ MarkInv'
      BY <2>3, <3>1, ConstantTypes DEF ServerInv, MarkInv, Brought, Places
    <3>4. rules'["firewall"] = NoRules
      BY <3>1, ConstantTypes
    <3> QED
      BY <2>2, <2>3, <3>1, <3>2, <3>3, <3>4 DEF FlexInv, RuleInv, ConfigInv
  <2> QED
    BY <1>2, <2>4, <2>5
<1>3. CASE EndDelete
  <2>1. CallerInv(Places, Places)' /\ Frugal
    BY <1>0, <1>3, ApartPlaces, CallerEnds DEF EndDelete
  <2>2. /\ UNCHANGED <<options, server, seen, rules, existing, todo>>
        /\ UNCHANGED <<config, in_force, left, restart>>
    BY <1>3 DEF EndDelete, azure, ruled, configured
  <2>3. (Whole("abort")' => Whole("abort")) /\ (Whole("fault")' => Whole("fault"))
    BY <1>0, <2>1, WholeBefore DEF Whole, Kinds
  <2>4. FlexType'
    BY <1>0, <2>2 DEF FlexType
  <2>5. CASE DeleteCredentials
    <3>1. /\ call.pc = "delete_secret" /\ call'.pc = "release"
          /\ object' = object /\ object.deleting /\ published' \in {0, published}
      BY <1>0, <2>5 DEF DeleteCredentials, At, CallerInv, CallerType, Ends
    <3>2. Whole("fault")' => published' = 0
      BY <1>0, <2>5, SpentIsNotWhole DEF DeleteCredentials, MayFail, Whole, Kinds
    <3>3. ServerInv' /\ MarkInv'
      BY <1>0, <2>2, <2>3, <3>1, <3>2 DEF ServerInv, MarkInv, Brought, Places
    <3> QED
      BY <1>0, <2>1, <2>2, <2>3, <2>4, <3>1, <3>3 DEF FlexInv, RuleInv, ConfigInv, FinishedInv
  <2>6. CASE Release
    <3>1. /\ call.pc = "release" /\ call'.pc = "idle" /\ published' = published
          /\ ~object'.done /\ ~object'.deleting
      BY <2>6 DEF Release, At, NoObject, NoCall
    <3>2. ServerInv' /\ MarkInv'
      BY <1>0, <2>2, <2>3, <3>1 DEF ServerInv, MarkInv, Brought, Places
    <3> QED
      BY <1>0, <2>1, <2>2, <2>3, <2>4, <3>1, <3>2 DEF FlexInv, RuleInv, ConfigInv, FinishedInv
  <2> QED
    BY <1>3, <2>5, <2>6 DEF EndDelete
<1> QED
  BY <1>1, <1>2, <1>3

LEMMA FlexStep == FlexInv /\ [Next]_vars => FlexInv'
<1> SUFFICES ASSUME FlexInv, [Next]_vars PROVE FlexInv'
  OBVIOUS
<1>0. CallerInv(Places, Places) /\ FlexType /\ ConfigInv /\ budget \in [Kinds -> Nat]
  BY DEF FlexInv, CallerInv, CallerType
<1>1. CASE Call
  <2>1. CallerInv(Places, Places)' /\ Frugal
    BY <1>0, <1>1, ApartPlaces, CallerBegins, KeepIsFrugal DEF Call, Begin, Places
  <2>2. /\ call.pc = "idle" /\ call'.pc = "read" /\ ~object.deleting
        /\ UNCHANGED <<object, password, published, budget>>
        /\ UNCHANGED <<options, server, seen, rules, existing, todo>>
        /\ UNCHANGED <<config, in_force, left, restart>>
    BY <1>1 DEF Call, Begin, At, resource, azure, ruled, configured
  <2>3. FlexType' /\ SameServer
    BY <1>0, <2>2 DEF FlexType, SameServer
  <2>4. Whole("abort")' => in_force = config
    BY <1>0, <2>2 DEF ConfigInv, Whole
  <2> QED
    BY <2>1, <2>2, <2>3, <2>4, NothingBrought
<1>2. CASE ReadServer
  <2>1. Step("read", "server") /\ Frugal
    BY <1>0, <1>2, SpendIsFrugal, KeepIsFrugal DEF ReadServer, Look, MayFail, Kinds
  <2>2. CallerInv(Places, Places)'
    BY <1>0, <2>1, ApartPlaces, CallerSteps DEF Places
  <2>3. /\ call.pc = "read" /\ call'.pc = "server"
        /\ UNCHANGED <<object, password, published>>
        /\ UNCHANGED <<options, server, rules, existing, todo, config, in_force, left, restart>>
    BY <1>0, <1>2, <2>1 DEF ReadServer, Look, Step, At, resource, ruled, configured, CallerInv,
                           CallerType
  <2>4. FlexType' /\ SameServer
    BY <1>0, <1>2, <2>3 DEF FlexType, SameServer, ReadServer, Look
  <2>5. Whole("abort")' => in_force = config
    BY <1>0, <2>1, <2>3, WholeBefore DEF ConfigInv, Whole, Kinds
  <2>6. call.pc \in Places
    BY <2>3 DEF Places
  <2> QED
    BY <2>1, <2>2, <2>3, <2>4, <2>5, <2>6, NothingBrought
<1>3. CASE CloudRefuses
  <2>1. call.pc \in {"server", "delete"} /\ Raise /\ Forget /\ Kept /\ UNCHANGED budget
    BY <1>3 DEF CloudRefuses, Refuses, Raise, At
  <2>2. Whole("abort")' => in_force = config
    BY <1>0, <2>1 DEF ConfigInv, Whole
  <2> QED
    BY <1>0, <2>1, <2>2, BreaksKeep, KeepIsFrugal DEF Raise
<1>4. CASE Abort
  <2>1. Spend("abort") /\ call' = NoCall /\ UNCHANGED resource /\ Forget /\ Kept
    BY <1>4 DEF Abort, Break
  <2>2. Frugal /\ ~Whole("abort")'
    BY <1>0, <2>1, SpendIsFrugal, SpentIsNotWhole DEF Whole, Kinds
  <2> QED
    BY <2>1, <2>2, BreaksKeep
<1>5. CASE UNCHANGED vars
  <2>1. UNCHANGED <<Whole("abort"), Whole("fault")>>
    BY <1>5 DEF vars, Whole
  <2>2. CallerInv(Places, Places)' /\ FlexType'
    BY <1>0, <1>5 DEF vars, CallerInv, CallerType, FlexType, At
  <2>3. ServerInv' /\ MarkInv'
    BY <1>5, <2>1 DEF vars, FlexInv, ServerInv, MarkInv
  <2>4. RuleInv' /\ ConfigInv' /\ FinishedInv'
    BY <1>5, <2>1 DEF vars, FlexInv, RuleInv, ConfigInv, FinishedInv, Configured
  <2> QED
    BY <2>2, <2>3, <2>4 DEF FlexInv
<1> QED
  BY <1>1, <1>2, <1>3, <1>4, <1>5, BringingKeeps, RulesKeep, ConfigurationKeeps, ReturnKeeps,
     DeletingKeeps, AdministratorKeeps, UsersKeep
     DEF Next, Operator

\* The inductive invariant holds in every state; what follows are its consequences.
THEOREM FlexInvariant == Spec => []FlexInv
BY InitFlex, FlexStep, PTL DEF Spec

\* Every variable has its type (TypeOK).
THEOREM TypeCorrect == Spec => []TypeOK
<1>1. FlexInv => TypeOK
  BY DEF FlexInv, CallerInv, CallerType, FlexType, TypeOK, AzureType, Places
<1> QED
  BY <1>1, FlexInvariant, PTL

\* A finished server has the rules, extensions and parameters of the spec the user sees and
\* nothing besides, whatever it had before and wherever attempts broke off
\* (azure_postgresqlflexible.py:168-263).
THEOREM FinishedAlwaysConfigured == Spec => []FinishedIsConfigured
<1>1. ASSUME FlexInv, Settled PROVE FinishedIsConfigured
  <2>1. Configured(object.spec)
    BY <1>1 DEF Settled, FlexInv, FinishedInv
  <2>2. config = [preload |-> config.preload, allowed |-> config.allowed,
                  parameters |-> [p \in Parameters |-> config.parameters[p]]]
    BY <1>1 DEF FlexInv, FlexType, ConfigType
  <2>3. [p \in Parameters |-> config.parameters[p]] =
            [p \in Parameters |-> Parameter(object.spec, p)]
    BY <2>1 DEF Configured
  <2> QED
    BY <2>1, <2>2, <2>3 DEF FinishedIsConfigured, Configured, Whole
<1>2. FlexInv => FinishedIsConfigured
  BY <1>1 DEF FinishedIsConfigured
<1> QED
  BY <1>2, FlexInvariant, PTL

\* A deletion that is not fake leaves no server behind, also when it is refused until the
\* lock is gone, or breaks off (README.md:171).
THEOREM NoServerEverLeft == Spec => []NoServerLeft
<1>1. FlexInv => NoServerLeft
  BY DEF FlexInv, ServerInv, NoServerLeft
<1> QED
  BY <1>1, FlexInvariant, PTL
-----------------------------------------------------------------------------
(* A rule that is wanted stays. *)

\* Only the loop changes rules, and the deletion of the server.
LEMMA RulesChange ==
    ASSUME [Next]_vars
    PROVE  UNCHANGED rules \/ SetRules \/ DeleteServer
<1>1. CASE \/ Call \/ ReadServer \/ BringServer \/ LockServer \/ ListWantedRules \/ EndRules
           \/ SetPreload \/ SetExtensions \/ (\E p \in Parameters : SetParameter(p))
           \/ RestartServer
  BY <1>1 DEF Call, ReadServer, Look, BringServer, Bring, LockServer, Lock, ListWantedRules,
              ListRules, EndRules, RulesDone, SetPreload, SetExtensions, SetParameter, Put,
              RestartServer, ruled
<1>2. CASE \/ Return \/ FindServer \/ MarkServer \/ EndDelete \/ CloudRefuses \/ Abort
           \/ Administrator \/ (User /\ UNCHANGED <<azure, ruled, configured>>)
           \/ UNCHANGED vars
  BY <1>2 DEF Return, Kept, FindServer, MarkServer, Mark, EndDelete, CloudRefuses, Abort,
              Administrator, RemoveLock, ruled, vars
<1> QED
  BY <1>1, <1>2 DEF Next, Operator

\* Rules that are wanted are never taken away by the call that wants them, so an update locks
\* out no client it lets in again (azure_postgresqlflexible.py:180-189).
THEOREM WantedRulesAlwaysStay == Spec => WantedRulesStay
<1>1. ASSUME FlexInv, [Next]_vars, At("firewall"),
             NEW n \in DOMAIN rules["firewall"] \cap DOMAIN Wanted(WantedRules(call.spec))
      PROVE  n \in DOMAIN rules'["firewall"]
  <2> DEFINE all == WantedRules(call.spec)
  <2>1. /\ Through(all, rules["firewall"], existing, todo) /\ all \in Seq(Rules)
        /\ rules \in [{"firewall"} -> RulesType] /\ rules["firewall"] \in RulesType
        /\ existing \in RulesType /\ todo \in Seq(Rules)
    BY <1>1, SpecTypes, ConstantTypes
       DEF FlexInv, RuleInv, FlexType, CallerInv, Places, At
  <2>2. CASE UNCHANGED rules
    BY <1>1, <2>2
  <2>3. CASE SetRule("firewall")
    <3>1. todo # <<>> /\ Head(todo) \in Rules
      BY <2>1, <2>3, HeadTailProperties DEF SetRule
    <3>2. \/ UNCHANGED rules
          \/ rules'["firewall"] = With(rules["firewall"], Head(todo))
      BY <2>1, <2>3 DEF SetRule
    <3> QED
      BY <1>1, <2>1, <3>2 DEF With
  <2>4. CASE \E m \in RuleNames : DeleteRule("firewall", m)
    <3>1. PICK m \in DOMAIN existing :
              todo = <<>> /\ rules' = [rules EXCEPT !["firewall"] = Without(rules["firewall"], m)]
      BY <2>4 DEF DeleteRule
    <3>2. \A i \in 1..Len(all) : all[i].name # m
      BY <2>1, <3>1, LoopDeletes
    <3>3. n # m
      BY <1>1, <2>1, <3>2 DEF Wanted
    <3>4. rules'["firewall"] = Without(rules["firewall"], m)
      BY <2>1, <3>1
    <3>5. DOMAIN Without(rules["firewall"], m) = DOMAIN rules["firewall"] \ {m}
      BY DEF Without
    <3> QED
      BY <1>1, <3>3, <3>4, <3>5
  <2>5. ~DeleteServer
    BY <1>1 DEF DeleteServer, Remove, Move, Step, At
  <2> QED
    BY <1>1, <2>2, <2>3, <2>4, <2>5, RulesChange DEF SetRules, SyncRules
<1>2. FlexInv /\ [Next]_vars =>
          [At("firewall") =>
              \A n \in DOMAIN rules["firewall"] \cap DOMAIN Wanted(WantedRules(call.spec)) :
                  n \in DOMAIN rules'["firewall"]]_vars
  BY <1>1
<1> QED
  BY <1>2, FlexInvariant, PTL DEF Spec, WantedRulesStay
-----------------------------------------------------------------------------
(* The backend implements the credential contract. *)

live == [p \in {"server"} |-> server.password]

LEMMA ContractStep ==
    ASSUME FlexInv, [Next]_vars
    PROVE  [Contract!Next]_<<live, published>>
<1>0. /\ CallerInv(Places, Places) /\ FlexType /\ ServerInv
      /\ server.password \in Nat /\ password \in Nat
  BY DEF FlexInv, FlexType, CallerInv, CallerType
<1> USE DEF live
<1>1. ASSUME server'.password = server.password, published' \in {0, published}
      PROVE  [Contract!Next]_<<live, published>>
  BY <1>1 DEF Contract!Next, Contract!Withdraw
<1>2. CASE BringServer
  <2>1. published' = published /\ object.exists /\ published \in {0, password}
    BY <1>0, <1>2 DEF BringServer, Bring, Move, Step, At, resource, CallerInv
  <2>2. CASE server' = server
    BY <1>1, <2>1, <2>2
  <2>3. CASE server'.password = password
    <3>1. Contract!Apply("server")
      BY <1>0, <2>1, <2>3 DEF Contract!Apply
    <3> QED BY <3>1 DEF Contract!Next
  <2>4. server' = server \/ server'.password = password
    BY <1>0, <1>2 DEF BringServer, Bring, FlexType
  <2> QED BY <2>2, <2>3, <2>4
<1>3. CASE DeleteServer
  <2>1. server'.password = 0 /\ published' = published
    BY <1>3 DEF DeleteServer, Remove, Move, Step, resource, NoServer
  <2>2. Contract!Remove("server")
    BY <2>1 DEF Contract!Remove
  <2> QED BY <2>2 DEF Contract!Next
<1>4. CASE Return
  <2>1. /\ server' = server /\ call.pc = "return"
        /\ published' = IF call.changed THEN password ELSE published
    BY <1>4 DEF Return, Finish, Kept, At
  <2>2. server.password = published' /\ server.password # 0
    BY <1>0, <2>1 DEF ServerInv, Brought, Places, FlexType
  <2>3. Contract!Publish("server")
    BY <2>1, <2>2 DEF Contract!Publish
  <2> QED BY <2>3 DEF Contract!Next
<1>5. CASE \/ Call \/ ReadServer \/ LockServer \/ ListWantedRules \/ SetRules \/ EndRules
           \/ SetPreload \/ SetExtensions \/ (\E p \in Parameters : SetParameter(p))
           \/ RestartServer \/ FindServer \/ MarkServer
  <2>1. published' = published
    BY <1>5 DEF Call, Begin, ReadServer, Look, LockServer, Lock, ListWantedRules, ListRules,
                SetRules, SyncRules, SetRule, DeleteRule, EndRules, RulesDone, SetPreload,
                SetExtensions, SetParameter, RestartServer, FindServer, BeginDelete, MarkServer,
                Mark, Move, Step, resource
  <2>2. server'.password = server.password
    <3>1. CASE LockServer \/ MarkServer
      BY <1>0, <3>1 DEF LockServer, Lock, MarkServer, Mark, FlexType
    <3>2. CASE ~(LockServer \/ MarkServer)
      BY <1>5, <3>2 DEF Call, ReadServer, Look, ListWantedRules, ListRules, SetRules, SyncRules,
                SetRule, DeleteRule, EndRules, RulesDone, SetPreload, SetExtensions,
                SetParameter, Put, RestartServer, FindServer, azure
    <3> QED BY <3>1, <3>2
  <2> QED BY <1>1, <2>1, <2>2
<1>6. CASE CloudRefuses \/ Abort \/ Administrator
  <2>1. published' = published /\ server'.password = server.password
    BY <1>0, <1>6 DEF CloudRefuses, Abort, Raise, Break, Kept, Administrator, RemoveLock,
                      resource, FlexType
  <2> QED BY <1>1, <2>1
<1>7. CASE EndDelete \/ (User /\ UNCHANGED <<azure, ruled, configured>>)
  <2>1. server' = server /\ published' \in {0, published}
    BY <1>7 DEF EndDelete, DeleteCredentials, Release, User, CreateObject, EditSpec, Reset,
                DeleteObject, azure
  <2> QED BY <1>1, <2>1
<1>8. CASE UNCHANGED vars
  BY <1>1, <1>8 DEF vars
<1> QED
  BY <1>2, <1>3, <1>4, <1>5, <1>6, <1>7, <1>8 DEF Next, Operator

\* The password of the server changes only while none is published, and the one that is
\* published is in force: an update that finds nothing else to change sends it all the same
\* (azure_postgresqlflexible.py:127).
THEOREM FlexibleKeepsContract == Spec => KeepsContract
<1>1. Init => Contract!Init
  BY DEF Init, AzureInit, CallerInit, NoServer, Contract!Init
<1>2. FlexInv /\ [Next]_vars => [Contract!Next]_<<live, published>>
  BY ContractStep
<1> QED
  BY <1>1, <1>2, FlexInvariant, PTL DEF Spec, KeepsContract, Contract!Spec, live
=============================================================================
