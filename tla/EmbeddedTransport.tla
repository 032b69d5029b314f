-------------------------- MODULE EmbeddedTransport --------------------------
(***************************************************************************)
(* Which transport a request uses and what it sends back to core:         *)
(* plugin/embedded_transport*.go, plugin/provider.go and the helpers of    *)
(* plugin/transport_resource_util.go.                                      *)
(*                                                                         *)
(* A walk of Terraform starts a provider process, configures it and sends  *)
(* the requests of two resources of one type, which share the type's copy  *)
(* of the provider's configuration.  A plan walk may be followed by an     *)
(* apply walk in a process of its own, where every value is known.  The    *)
(* user may edit the configuration between the rounds.                     *)
(*                                                                         *)
(* Of its own attributes a resource has one, the payload: any attribute,   *)
(* or the configuration of an enos_vault_start, whose create renders it    *)
(* into files of the host.                                                 *)
(***************************************************************************)
EXTENDS VaultConfig, FiniteSets

CONSTANTS
    Resources,          \* resources of one type
    Edited,             \* those the user edits between rounds
    ProviderConfigs,    \* what the user may write in the provider block
    ResourceConfigs,    \* what the user may write in a resource, in a tuple
    Steady,             \* which of them the resources that are not edited have
    Kinds,              \* what the resource type does and which configs it has
    MaxRounds           \* bound: plans, with or without their apply

ASSUME ConfigAssumption ==
    IsFiniteSet(Resources) /\ Edited \subseteq Resources /\ MaxRounds \in Nat \ {0}

(* What core sends for a transport: attributes of every block in it.       *)
BlockWire(w) ==
    /\ IsWire(w)
    /\ IF HasValue(w) THEN IsMapping(w.v) /\ \A a \in DOMAIN w.v : FlatWire(w.v[a]) /\ w.v[a].t \in {"string", "dynamic"}
                      ELSE w.v = [a \in DOMAIN w.v |-> Empty]
TransportsWire(w) ==
    /\ IsWire(w) /\ (w.t = "dynamic" => ~HasValue(w) /\ w.v = Empty)
    /\ HasValue(w) => IsMapping(w.v) /\ \A type \in DOMAIN w.v : BlockWire(w.v[type])
PayloadWire(w) == IF w.t = "vault" THEN VaultWire(w) ELSE AttrWire(w)
StateWire(w) ==
    /\ w = [transport |-> w.transport, payload |-> w.payload]
    /\ TransportsWire(w.transport) /\ PayloadWire(w.payload)

ASSUME WireAssumption ==
    /\ \A k \in Kinds : k.configs \subseteq DOMAIN ResourceConfigs
    /\ \A i \in DOMAIN ResourceConfigs :
            StateWire(ResourceConfigs[i]["plan"]) /\ StateWire(ResourceConfigs[i]["apply"])
    /\ \A p \in ProviderConfigs :
            TransportsWire(p["plan"].transport) /\ TransportsWire(p["apply"].transport)

VARIABLES
    kind,       \* the resource type: [logs, reads, k8s, configs]
    provider,   \* the provider block, as it is known at plan and at apply
    conf,       \* which of ResourceConfigs each resource has
    saved,      \* Terraform's state of each resource, Empty if there is none
    walk,       \* plan or apply
    server,     \* the process: new, up, down or crashed
    crash,      \* where it crashed
    pconf,      \* Provider.config
    rconf,      \* the providerConfig of the resource type
    due,         \* the next request of each resource, or how it ended
    set,        \* SetProviderConfig was called for that request
    resolved,   \* resolvedTransport of the state the last request worked on
    planned,    \* the answer of the last plan
    target,     \* what a create has written on the resource's host
    rounds

transportVars == <<kind, provider, conf, saved, walk, server, crash, pconf, rconf, due, set,
                   resolved, planned, target, rounds>>

-----------------------------------------------------------------------------
(* embeddedTransportSSHv1, embeddedTransportK8Sv1, embeddedTransportNomadv1 *)

TransportTypes == {"ssh", "kubernetes", "nomad"}

SSHAttributes == {"user", "host", "private_key", "private_key_path", "passphrase", "passphrase_path"}
K8SAttributes == {"kubeconfig_base64", "context_name", "namespace", "pod", "container"}
NomadAttributes == {"host", "secret_id", "allocation_id", "task_name"}
Attributes(type) ==
    CASE type = "ssh" -> SSHAttributes
      [] type = "kubernetes" -> K8SAttributes
      [] type = "nomad" -> NomadAttributes

(* createTransport: no attribute has a value and Values is empty.          *)
createTransport(type) == [Values |-> Empty, attrs |-> [a \in Attributes(type) |-> New("string")]]

(* FromTerraform5Value of one type: mapAttributesTo, verifyConfiguration.  *)
(* An unknown block leaves the transport as it was created.                *)
verifyConfiguration(type, values) == DOMAIN values # {} /\ DOMAIN values \subseteq Attributes(type)
BlockAccepted(type, w) == IsKnown(w) => verifyConfiguration(type, w.v)
mapAttributesTo(type, w) ==
    LET new == createTransport(type) IN
    [Values |-> w.v,
     attrs |-> [a \in Attributes(type) |->
                    IF a \in DOMAIN w.v THEN StringFrom(new.attrs[a], w.v[a]) ELSE new.attrs[a]]]
BlockFrom5(type, w) == IF HasValue(w) THEN mapAttributesTo(type, w) ELSE createTransport(type)

(* Terraform5Value of one type gives Values back, not the attributes.      *)
TypeValue(type, transport) ==
    IF transport.Values = Empty
    THEN [Unknown("object") EXCEPT !.v = [a \in Attributes(type) |-> Empty]]
    ELSE Known("object", transport.Values)

HasAttr(transport, a) == Get(transport.attrs[a])
(* Mutation: any key will do, even none.                                   *)
ValidateSSHWithoutKey(transport) == HasAttr(transport, "user") /\ HasAttr(transport, "host")
ValidateSSH(transport) ==
    /\ HasAttr(transport, "user")
    /\ HasAttr(transport, "host")
    /\ HasAttr(transport, "private_key") \/ HasAttr(transport, "private_key_path")
ValidateK8S(transport) == \A a \in {"kubeconfig_base64", "context_name", "pod"} : HasAttr(transport, a)
ValidateNomad(transport) == \A a \in {"host", "allocation_id", "task_name"} : HasAttr(transport, a)
ValidateType(type, transport) ==
    CASE type = "ssh" -> ValidateSSH(transport)
      [] type = "kubernetes" -> ValidateK8S(transport)
      [] type = "nomad" -> ValidateNomad(transport)

(* isTransportConfigured: some attribute is not null.                      *)
IsConfigured(transport) ==
    \E a \in DOMAIN transport.attrs : ScalarValue(transport.attrs[a]).s # "null"

-----------------------------------------------------------------------------
(* embeddedTransportV1: transports is a function from some of the types.   *)

NoTransports == Empty

TransportsAccepted(w) ==
    HasValue(w) => \A type \in DOMAIN w.v : type \in TransportTypes /\ BlockAccepted(type, w.v[type])

(* FromTerraform5Value replaces the transports w names and keeps others.   *)
TransportsFrom(transports, w) ==
    IF ~HasValue(w) THEN transports
    ELSE [type \in DOMAIN transports \cup DOMAIN w.v |->
            IF type \in DOMAIN w.v THEN BlockFrom5(type, w.v[type]) ELSE transports[type]]

TransportsValue(transports) ==
    IF DOMAIN transports = {} THEN Null("dynamic")
    ELSE Known("object", [type \in DOMAIN transports |-> TypeValue(type, transports[type])])

(* Copy goes through the wire value, so what came from defaults is lost.   *)
CopyTransports(transports) == TransportsFrom(NoTransports, TransportsValue(transports))

(* Mutation: a default replaces what the resource has.                     *)
applyDefaultsAlways(defaults, transport) ==
    [transport EXCEPT !.attrs = [a \in DOMAIN transport.attrs |->
        IF Get(defaults.attrs[a]) THEN StringFrom(transport.attrs[a], ScalarValue(defaults.attrs[a]))
        ELSE transport.attrs[a]]]
(* applyDefaults: a default that has a value fills what has none.          *)
applyDefaults(defaults, transport) ==
    [transport EXCEPT !.attrs = [a \in DOMAIN transport.attrs |->
        IF ~Get(transport.attrs[a]) /\ Get(defaults.attrs[a])
        THEN StringFrom(transport.attrs[a], ScalarValue(defaults.attrs[a]))
        ELSE transport.attrs[a]]]

(* getConfiguredTransport: exactly one transport.                          *)
One(transports) == Cardinality(DOMAIN transports) = 1
OnlyType(transports) == CHOOSE type \in DOMAIN transports : TRUE

(* ApplyDefaults: the transports with the one that is used filled in.      *)
Resolvable(transports, defaults) == One(transports) \/ (DOMAIN transports = {} /\ One(defaults))
ApplyDefaults(transports, defaults) ==
    IF One(transports)
    THEN LET type == OnlyType(transports) IN
         IF type \in DOMAIN defaults
         THEN [transports EXCEPT ![type] = applyDefaults(defaults[type], @)]
         ELSE transports
    ELSE LET type == OnlyType(defaults) IN
         [t \in {type} |-> applyDefaults(defaults[type], createTransport(type))]

-----------------------------------------------------------------------------
(* provider.go: the provider's configuration object.                       *)

newProviderConfig == [Transport |-> NoTransports, DebugDataRootDir |-> New("string")]

ConfigAccepted(w) == TransportsAccepted(w.transport)

(* config.FromTerraform5Value returns early when the transport is unknown. *)
ConfigFrom(c, w) ==
    IF ~IsKnown(w.transport) THEN c
    ELSE [Transport |-> TransportsFrom(c.Transport, w.transport),
          DebugDataRootDir |->
            IF IsKnown(w.dir) THEN StringFrom(c.DebugDataRootDir, w.dir) ELSE c.DebugDataRootDir]

ConfigValue(c) == [transport |-> TransportsValue(c.Transport), dir |-> ScalarValue(c.DebugDataRootDir)]

(* config.Copy sets the directory, so one that was null becomes "".        *)
CopyConfig(c) ==
    [Transport |-> CopyTransports(c.Transport),
     DebugDataRootDir |-> Set(New("string"), c.DebugDataRootDir.Val)]

(* The variable of the environment overrides the directory.                *)
WithEnv(c) == IF provider.env THEN [c EXCEPT !.DebugDataRootDir = Set(@, <<"env">>)] ELSE c

-----------------------------------------------------------------------------
(* The state of a resource: its transport and one attribute of its own,    *)
(* the payload.  A transport that is unknown as a whole is not decoded.    *)

IsVault(w) == w.t = "vault"
StateAccepted(w) ==
    /\ TransportsAccepted(w.transport)
    /\ IF IsVault(w.payload) THEN VaultDecodes(w.payload) ELSE Decodes(w.payload)
StateFrom(w) ==
    [Transport |-> IF w = Empty THEN NoTransports ELSE TransportsFrom(NoTransports, w.transport)]
StateValue(w) ==
    [transport |-> TransportsValue(StateFrom(w).Transport),
     payload |-> IF IsVault(w.payload) THEN VaultAgain(w.payload) ELSE EncodeAgain(w.payload)]
StateEncodes(w) == IF IsVault(w.payload) THEN VaultEncodes(w.payload) ELSE Encodes(w.payload)

Written(r) == ResourceConfigs[conf[r]][walk]

(* What SetProviderConfig left in the type's configuration, copied.        *)
GetProviderConfig == CopyConfig(rconf).Transport

-----------------------------------------------------------------------------
First(r) == IF saved[r] = Empty THEN "validate" ELSE "read"

TransportInit ==
    /\ kind \in Kinds
    /\ provider \in ProviderConfigs
    /\ conf \in [Resources -> kind.configs]
    /\ \A r \in Resources \ Edited : conf[r] \in Steady
    /\ saved = [r \in Resources |-> Empty]
    /\ walk = "plan" /\ server = "new" /\ crash = "no"
    /\ pconf = newProviderConfig /\ rconf = newProviderConfig
    /\ due = [r \in Resources |-> "validate"]
    /\ set = [r \in Resources |-> FALSE]
    /\ resolved = [r \in Resources |-> NoTransports]
    /\ planned = [r \in Resources |-> Empty]
    /\ target = [r \in Resources |-> Empty]
    /\ rounds = 1

(* Provider.Validate decodes the block; Configure decodes it into          *)
(* Provider.config and makes the directory, which may fail.                *)
Configure ==
    /\ server = "new"
    /\ LET w == provider[walk] IN
       \/ /\ ConfigAccepted(w)
          /\ pconf' = WithEnv(ConfigFrom(pconf, w))
          /\ server' = "up"
       \/ /\ ConfigAccepted(w) => Get(WithEnv(ConfigFrom(pconf, w)).DebugDataRootDir)
          /\ server' = "down"
          /\ UNCHANGED pconf
    /\ UNCHANGED <<kind, provider, conf, saved, walk, crash, rconf, due, set, resolved, planned,
                   target, rounds>>

(* Every request of the router begins with SetProviderConfig.              *)
SetProviderConfig(r) ==
    /\ server = "up" /\ ~set[r]
    /\ due[r] \in {"read", "validate", "plan", "apply"}
    /\ set' = [set EXCEPT ![r] = TRUE]
    /\ rconf' = ConfigFrom(rconf, ConfigValue(pconf))
    /\ UNCHANGED <<kind, provider, conf, saved, walk, server, crash, pconf, due, resolved, planned,
                   target, rounds>>

Answer(r, next) ==
    /\ due' = [due EXCEPT ![r] = next]
    /\ set' = [set EXCEPT ![r] = FALSE]
    /\ UNCHANGED <<server, crash>>

(* HandleFailure: the handler that gathers logs asks the resolved          *)
(* transport for its type, and there may be none.                          *)
DataDir == Get(ConfigFrom(newProviderConfig, ConfigValue(pconf)).DebugDataRootDir)
LogsPanic(transport) == kind.logs /\ DataDir /\ transport = NoTransports
HandleFailure(r, transport) ==
    IF LogsPanic(transport)
    THEN /\ server' = "crashed" /\ crash' = "logs"
         /\ UNCHANGED <<due, set>>
    ELSE Answer(r, "failed")

Resolve(r, transport) == resolved' = [resolved EXCEPT ![r] = transport]

Handles(r, request) == server = "up" /\ set[r] /\ due[r] = request

(* ReadResource: the current state comes back.  Some resources build their *)
(* transport to look at the target.  A failed read calls no handler.  What *)
(* is saved was encoded by an apply, and encodes again.                    *)
Read(r) ==
    /\ Handles(r, "read")
    /\ LET own == CopyTransports(StateFrom(saved[r]).Transport) IN
       IF kind.reads /\ ~Resolvable(own, GetProviderConfig)
       THEN /\ Answer(r, "failed")
            /\ Resolve(r, NoTransports)
            /\ UNCHANGED saved
       ELSE /\ Answer(r, "validate")
            /\ Resolve(r, IF kind.reads THEN ApplyDefaults(own, GetProviderConfig) ELSE NoTransports)
            /\ saved' = [saved EXCEPT ![r] = StateValue(@)]
    /\ UNCHANGED <<kind, provider, conf, walk, pconf, rconf, planned, target, rounds>>

(* ValidateResourceConfig decodes the block and nothing else.              *)
Validate(r) ==
    /\ Handles(r, "validate")
    /\ Answer(r, IF StateAccepted(Written(r)) THEN "plan" ELSE "failed")
    /\ Resolve(r, NoTransports)
    /\ UNCHANGED <<kind, provider, conf, saved, walk, pconf, rconf, planned, target, rounds>>

(* Mutation: the other direction is asked too, a new type that was not.     *)
ReplacePanicsBothWays(prior, proposed) ==
    \E type \in DOMAIN prior \cup DOMAIN proposed :
        type \notin DOMAIN prior \/ type \notin DOMAIN proposed
(* transportReplacedAttributePaths asks the proposed transport of every    *)
(* type the prior state has whether it is configured.                      *)
ReplacePanics(prior, proposed) ==
    \E type \in DOMAIN prior : IsConfigured(prior[type]) /\ type \notin DOMAIN proposed

(* PlanUnmarshalVerifyAndBuildTransport and the answer, which core accepts *)
(* only if it is what the user wrote.  Validate, which recovers, encodes   *)
(* nothing: the router does, once the handler has returned, and there a    *)
(* panic ends the process.                                                 *)
Plan(r) ==
    /\ Handles(r, "plan")
    /\ LET w == Written(r)
           own == CopyTransports(StateFrom(w).Transport)
           proposed == ApplyDefaults(own, GetProviderConfig)
           prior == StateFrom(saved[r]).Transport
       IN  \/ /\ ~Resolvable(own, GetProviderConfig)
              /\ HandleFailure(r, NoTransports)
              /\ Resolve(r, NoTransports)
              /\ UNCHANGED planned
           \/ /\ Resolvable(own, GetProviderConfig)
              /\ ReplacePanics(prior, proposed)
              /\ server' = "crashed" /\ crash' = "replace"
              /\ UNCHANGED <<due, set, resolved, planned>>
           \/ /\ Resolvable(own, GetProviderConfig)
              /\ ~ReplacePanics(prior, proposed)
              /\ ~StateEncodes(w)
              /\ server' = "crashed" /\ crash' = "encode"
              /\ UNCHANGED <<due, set, resolved, planned>>
           \/ /\ Resolvable(own, GetProviderConfig)
              /\ ~ReplacePanics(prior, proposed)
              /\ StateEncodes(w)
              /\ Resolve(r, proposed)
              /\ planned' = [planned EXCEPT ![r] = StateValue(w)]
              /\ Answer(r, IF StateValue(w) # w THEN "refused"
                           ELSE IF walk = "plan" THEN "done" ELSE "apply")
    /\ UNCHANGED <<kind, provider, conf, saved, walk, pconf, rconf, target, rounds>>

(* The resource's own Validate sees its own transports, not the resolved.  *)
K8SNotConfigured(own) == kind.k8s \/ "kubernetes" \notin DOMAIN own

(* The files a create renders, and the state it answers with.  An update   *)
(* starts nothing.                                                         *)
Starts(r) == saved[r] = Empty /\ IsVault(planned[r].payload)
Rendered(r) == [of |-> planned[r].payload, files |-> Files(planned[r].payload)]
NewState(r) ==
    IF Starts(r) THEN [StateValue(planned[r]) EXCEPT !.payload = StateAfterStart(planned[r].payload)]
    ELSE StateValue(planned[r])

(* ApplyUnmarshalState and ApplyValidatePlannedAndBuildTransport; what the *)
(* resource then does on the target may fail, before or after the files    *)
(* are written.  Core refuses a new state that is not the plan: it keeps   *)
(* it as one to be replaced, which the next round does as for none.  The   *)
(* new state encodes, as its plan has a moment before.                     *)
Apply(r) ==
    /\ Handles(r, "apply")
    /\ LET own == CopyTransports(StateFrom(planned[r]).Transport)
           ok == Resolvable(own, GetProviderConfig)
           transport == IF ok THEN ApplyDefaults(own, GetProviderConfig) ELSE NoTransports
           connects == /\ ok
                       /\ ValidateType(OnlyType(transport), transport[OnlyType(transport)])
                       /\ K8SNotConfigured(StateFrom(planned[r]).Transport)
           writes == connects /\ Starts(r) /\ CanStart(planned[r].payload)
           host == IF writes THEN [target EXCEPT ![r] = <<Rendered(r)>>] ELSE target
       IN  /\ Resolve(r, transport)
           /\ \/ /\ HandleFailure(r, transport)
                 /\ target' \in {target, host}
                 /\ UNCHANGED saved
              \/ /\ connects
                 /\ Starts(r) => writes
                 /\ target' = host
                 /\ IF NewState(r) = planned[r]
                    THEN Answer(r, "done") /\ saved' = [saved EXCEPT ![r] = NewState(r)]
                    ELSE Answer(r, "inconsistent") /\ UNCHANGED saved
    /\ UNCHANGED <<kind, provider, conf, walk, pconf, rconf, planned, rounds>>

Ended == \A r \in Resources : due[r] \in {"done", "failed", "refused", "inconsistent"}

NewProcess(w) ==
    /\ walk' = w
    /\ server' = "new" /\ crash' = "no"
    /\ pconf' = newProviderConfig /\ rconf' = newProviderConfig
    /\ set' = [r \in Resources |-> FALSE]
    /\ resolved' = [r \in Resources |-> NoTransports]
    /\ planned' = [r \in Resources |-> Empty]

(* Terraform applies a plan that every resource answered.                  *)
ApplyWalk ==
    /\ walk = "plan" /\ server = "up" /\ \A r \in Resources : due[r] = "done"
    /\ NewProcess("apply")
    /\ due' = [r \in Resources |-> "validate"]
    /\ UNCHANGED <<kind, provider, conf, saved, target, rounds>>

(* The user edits the resources and the provider's block and plans again.  *)
Edit ==
    /\ rounds < MaxRounds
    /\ server # "new" /\ (server = "up" => Ended)
    /\ NewProcess("plan")
    /\ \E c \in [Edited -> kind.configs] :
            conf' = [r \in Resources |-> IF r \in Edited THEN c[r] ELSE conf[r]]
    /\ provider' \in ProviderConfigs
    /\ due' = [r \in Resources |-> First(r)]
    /\ rounds' = rounds + 1
    /\ UNCHANGED <<kind, saved, target>>

Request(r) == SetProviderConfig(r) \/ Read(r) \/ Validate(r) \/ Plan(r) \/ Apply(r)

TransportNext == Configure \/ ApplyWalk \/ Edit \/ \E r \in Resources : Request(r)

TransportSpec == TransportInit /\ [][TransportNext]_transportVars

-----------------------------------------------------------------------------
(* Properties.                                                             *)

Transports(t) == {f \in {t} : DOMAIN f \subseteq TransportTypes
                    /\ \A type \in DOMAIN f : DOMAIN f[type].attrs = Attributes(type)}

(* Every variable has its type; resolvedTransport is a single transport,   *)
(* whatever the resource and the provider configured.                      *)
TransportTypeOK ==
    /\ walk \in {"plan", "apply"} /\ server \in {"new", "up", "down", "crashed"}
    /\ crash \in {"no", "logs", "replace", "encode"} /\ (crash # "no" <=> server = "crashed")
    /\ due \in [Resources -> {"read", "validate", "plan", "apply", "done", "failed", "refused",
                        "inconsistent"}]
    /\ set \in [Resources -> BOOLEAN]
    /\ \A r \in Resources : Transports(resolved[r]) # {} /\ Cardinality(DOMAIN resolved[r]) <= 1
    /\ Transports(pconf.Transport) # {} /\ Transports(rconf.Transport) # {}
    /\ rounds \in 1..MaxRounds

(* A value core can get back as it is: nothing in it is an empty           *)
(* collection, a fraction, a number that is too large, an object that is   *)
(* null or unknown as a whole, or a list or map of objects in an object.   *)
FlatPlain(w) ==
    /\ w.t = "number" /\ HasValue(w) => w.v[1] % 10 = 0 /\ InInt64(w.v[1])
    /\ w.t \in Collections /\ HasValue(w) => w.v # Empty
InnerPlain(w) == FlatPlain(w) /\ w.t \notin {"objects", "map"}
NestedPlain(w) ==
    /\ InnerPlain(w)
    /\ w.t = "object" => HasValue(w) /\ w.v # Empty /\ \A a \in DOMAIN w.v : InnerPlain(w.v[a])
ObjectPlain(w) == HasValue(w) /\ \A a \in DOMAIN w.v : NestedPlain(w.v[a])
Plain(w) ==
    /\ FlatPlain(w)
    /\ w.t \in {"object", "map", "tuple"} => ObjectPlain(w)
    /\ w.t = "objects" /\ HasValue(w) =>
            w.v # Empty /\ \A i \in DOMAIN w.v : w.v[i].v # Empty /\ ObjectPlain(w.v[i])

(* The same of a part of a Vault configuration, of a stanza and of a seal, *)
(* and of all of it: no stanza is unknown as a whole, and there is no      *)
(* tertiary seal, which goes back as the secondary one.                    *)
PartPlain(w) == IsDynamic(w) /\ Plain(w)
TypePlain(w) == w.t = "string"
StanzaPlain(w) ==
    IF ~HasValue(w) THEN w.t = "dynamic" /\ IsKnown(w)
    ELSE w.v # Empty /\ \A p \in DOMAIN w.v : IF p = "type" THEN TypePlain(w.v[p]) ELSE PartPlain(w.v[p])
SealPlain(w) ==
    /\ w.t = "object"
    /\ IF ~HasValue(w) THEN w.v = BlockType
       ELSE /\ DOMAIN w.v = DOMAIN BlockType /\ TypePlain(w.v["type"])
            /\ HasValue(w.v["attributes"]) \/ w.v["attributes"].t = "dynamic"
SealsPlain(w) ==
    IF ~HasValue(w) THEN w.t = "dynamic" /\ IsKnown(w)
    ELSE w.v # Empty /\ "tertiary" \notin DOMAIN w.v /\ \A n \in DOMAIN w.v : SealPlain(w.v[n])
VaultPlain(w) ==
    /\ Plain(w.v.environment) /\ HasValue(w.v.config)
    /\ LET c == w.v.config.v IN
       /\ StanzaPlain(c["listener"]) /\ StanzaPlain(c["storage"]) /\ PartPlain(c["telemetry"])
       /\ SealPlain(c["seal"]) /\ SealsPlain(c["seals"])
PayloadPlain(w) == IF IsVault(w) THEN VaultPlain(w) ELSE Plain(w)

(* There is no transport, or one that is known, and so is every block of   *)
(* it or its attributes' names.                                            *)
Determined(w) ==
    IF ~HasValue(w) THEN w.t = "dynamic" /\ IsKnown(w)
    ELSE /\ w.t = "object" /\ w.v # Empty
         /\ \A type \in DOMAIN w.v :
                /\ w.v[type].t = "object"
                /\ HasValue(w.v[type]) \/ (~IsKnown(w.v[type]) /\ DOMAIN w.v[type].v = Attributes(type))

Same(w1, w2) == w1.payload.t = w2.payload.t /\ w1 = w2

(* Terraform5Value "must return a value that is structurally the same as   *)
(* the value unmarshalled": core never refuses the plan of a plain value,  *)
(* and what is saved is to the letter what the user wrote, so no default   *)
(* of the provider gets into a plan or a state, in any sequence of reads,  *)
(* plans, applies and edits.                                               *)
AnswersAsSent ==
    \A r \in Resources :
        /\ due[r] = "refused" => ~Determined(Written(r).transport) \/ ~PayloadPlain(Written(r).payload)
        /\ saved[r] # Empty => \E i \in DOMAIN ResourceConfigs :
                                    Same(ResourceConfigs[i].apply, saved[r])

(* The transports a block names.                                           *)
Types(w) == IF HasValue(w) THEN DOMAIN w.v ELSE {}

(* What the user wrote for an attribute in w, if it has a value.           *)
Says(w, type, a) ==
    /\ HasValue(w) /\ type \in DOMAIN w.v /\ HasValue(w.v[type])
    /\ a \in DOMAIN w.v[type].v /\ HasValue(w.v[type].v[a])

(* ApplyDefaults, by its comment: every attribute of the transport a       *)
(* request works with is the resource's own, or else the provider's, or    *)
(* has no value, and a resource without a transport gets the provider's    *)
(* only one.  The configuration is that of the blocks, not of the shared   *)
(* copies the requests of two resources write and read in any order.       *)
ResolvedIsOwnElseDefault ==
    \A r \in Resources : server = "up" /\ resolved[r] # NoTransports =>
        LET own == IF due[r] = "validate" THEN saved[r].transport ELSE Written(r).transport
            defaults == provider[walk].transport
            type == OnlyType(resolved[r])
            attrs == resolved[r][type].attrs
        IN  /\ {type} = IF Types(own) # {} THEN Types(own) ELSE Types(defaults)
            /\ \A a \in Attributes(type) :
                   IF Says(own, type, a) THEN Get(attrs[a]) /\ attrs[a].Val = own.v[type].v[a].v
                   ELSE IF Says(defaults, type, a)
                        THEN Get(attrs[a]) /\ attrs[a].Val = defaults.v[type].v[a].v
                        ELSE ~Get(attrs[a])

(* Every part of a payload has a value.                                    *)
FlatWhole(w) == HasValue(w) /\ (w.t \in Collections => \A a \in DOMAIN w.v : HasValue(w.v[a]))
NestedWhole(w) == FlatWhole(w) /\ (w.t = "object" => \A a \in DOMAIN w.v : FlatWhole(w.v[a]))
ObjectWhole(w) == HasValue(w) /\ \A a \in DOMAIN w.v : NestedWhole(w.v[a])
Whole(w) ==
    /\ FlatWhole(w)
    /\ w.t \in {"object", "map"} => ObjectWhole(w)
    /\ w.t = "objects" => \A i \in DOMAIN w.v : ObjectWhole(w.v[i])

(* An apply that is accepted has a transport it can connect with and, if   *)
(* every part of its payload has a value, can work with all of it, though  *)
(* the payload may have been unknown when it was planned.                  *)
AppliedIsComplete ==
    \A r \in Resources : walk = "apply" /\ due[r] = "done" =>
        LET type == OnlyType(resolved[r])
            t == resolved[r][type]
            Has(a) == t.attrs[a].Val # Empty /\ ~t.attrs[a].Unknown
        IN  /\ type = "ssh" => Has("user") /\ Has("host") /\ (Has("private_key") \/ Has("private_key_path"))
            /\ type = "kubernetes" => Has("kubeconfig_base64") /\ Has("context_name") /\ Has("pod")
            /\ type = "nomad" => Has("host") /\ Has("allocation_id") /\ Has("task_name")
            /\ ~IsVault(saved[r].payload) /\ Whole(saved[r].payload) => Native(saved[r].payload)

(* A stanza that can be written, and a seal among them.                    *)
Stands(s) == /\ HasValue(s) /\ "type" \in DOMAIN s.v /\ HasValue(s.v["type"])
             /\ "attributes" \in DOMAIN s.v /\ HasValue(s.v["attributes"]) /\ Native(s.v["attributes"])
IsSeal(s) == Stands(s) /\ s.v["type"].v \notin {<<"shamir">>, <<"none">>}
SealsOf(c) == IF HasValue(c.seals) THEN {n \in DOMAIN c.seals.v : IsSeal(c.seals.v[n])} ELSE {}

(* There is one block of that name and type with at least these attributes, *)
(* or there are variables for all of them.                                  *)
Holds(blocks, name, label, attrs) ==
    Cardinality({b \in blocks : /\ b.name = name /\ b.label = label
                                /\ \A a \in DOMAIN attrs : a \in DOMAIN b.attrs /\ b.attrs[a] = attrs[a]}) = 1
InEnv(env, label, attrs) ==
    /\ SealType \in DOMAIN env /\ env[SealType] = label
    /\ \A a \in DOMAIN attrs \ {"key_id_prefix"} : \E x \in DOMAIN env : env[x] = attrs[a].v
Once(f, s) ==
    Holds(f.hcl.blocks, "seal", s.v["type"].v, s.v["attributes"].v)
        # InEnv(f.env, s.v["type"].v, s.v["attributes"].v)

(* The files f hold all of w.                                              *)
SealsAreIn(f, c) ==
    /\ \A n \in SealsOf(c) : Once(f, c.seals.v[n])
    /\ IsSeal(c.seal) => Once(f, c.seal)
    /\ Cardinality(SealsOf(c)) > 1 =>
          /\ "enable_multiseal" \in DOMAIN f.hcl.attrs
          /\ Cardinality({b.attrs["name"] : b \in {x \in f.hcl.blocks : x.name = "seal"}}) = Cardinality(SealsOf(c))
StanzasAreIn(f, c) ==
    \A s \in {"listener", "storage"} : Stands(c[s]) =>
        Holds(f.hcl.blocks, s, c[s].v["type"].v, c[s].v["attributes"].v)
TopIsIn(f, c) ==
    \A a \in {b \in TopLevel : HasValue(c[b])} :
        \/ a \in DOMAIN f.hcl.attrs /\ f.hcl.attrs[a] = c[a].v
        \/ /\ <<"VAULT_", a>> \in DOMAIN f.env
           /\ f.env[<<"VAULT_", a>>] = IF a = "ui" THEN FormatBool(c[a].v) ELSE c[a].v
UserVarsAreIn(f, environment) ==
    HasValue(environment) => \A x \in DOMAIN environment.v :
        x \in DOMAIN f.env /\ (x[1] \notin {"VAULT_", "AWS_"} => f.env[x] = environment.v[x].v)
IsIn(w, f) ==
    LET c == w.v.config.v IN
    SealsAreIn(f, c) /\ StanzasAreIn(f, c) /\ TopIsIn(f, c) /\ UserVarsAreIn(f, w.v.environment)

(* "Render takes a preferred configuration mode ... we'll often have to    *)
(* use both the HCL and env variables regardless of the preferred mode":   *)
(* whatever the mode, what a create leaves on the host is the whole        *)
(* configuration the user wrote.  Every seal that has a stanza and all its *)
(* attributes is there exactly once, in the file or in the environment,    *)
(* several of them in the file with enable_multiseal and names of their    *)
(* own; so are the listener, the storage, what stands on top, and the      *)
(* user's variables the configuration does not set.                        *)
RenderedIsConfigured ==
    \A r \in Resources : target[r] # Empty => IsIn(target[r][1].of, target[r][1].files)

(* What Render needs of a configuration to lose none of it.  A seal has     *)
(* attributes that go back as they came, none with a name that Render gives *)
(* or drops itself, and no two that share a variable.                       *)
SealClear(s) ==
    HasValue(s) /\ "attributes" \in DOMAIN s.v =>
        LET attrs == s.v["attributes"] IN
        /\ PartPlain(attrs)
        /\ HasValue(attrs) /\ "type" \in DOMAIN s.v /\ HasValue(s.v["type"]) =>
              LET label == s.v["type"].v[1] IN
              /\ DOMAIN attrs.v \cap Named = {}
              /\ label \in DOMAIN Translator =>
                    \A a, b \in DOMAIN attrs.v : a # b => Variable(label, a) # Variable(label, b)

(* The stanza of one seal is a part of that of the other.                   *)
PartOf(s, q) ==
    /\ s.v["type"].v = q.v["type"].v
    /\ \A a \in DOMAIN s.v["attributes"].v :
          a \in DOMAIN q.v["attributes"].v /\ s.v["attributes"].v[a] = q.v["attributes"].v[a]

(* A variable of the user that is no seal's, or one that may be overridden. *)
UsersOwn(x) ==
    /\ x # SealType
    /\ \/ x[1] \in {"VAULT_", "AWS_"}
       \/ \A label \in DOMAIN Translator :
             /\ x[1] # Translator[label].prefix
             /\ \A a \in DOMAIN Translator[label].renamed : x # Translator[label].renamed[a]

(* There is a configuration, seal and seals are not used together, no seal  *)
(* is a part of another, and the user's variables have values.              *)
Unambiguous(w) ==
    /\ HasValue(w.v.config)
    /\ LET c == w.v.config.v IN
       /\ StanzaPlain(c["listener"]) /\ StanzaPlain(c["storage"]) /\ SealClear(c["seal"])
       /\ HasValue(c["seals"]) => ~Stands(c["seal"]) /\ \A n \in DOMAIN c["seals"].v : SealClear(c["seals"].v[n])
       /\ \A n, m \in SealsOf(c) : n # m => ~PartOf(c["seals"].v[n], c["seals"].v[m])
    /\ HasValue(w.v.environment) =>
          \A x \in DOMAIN w.v.environment.v : HasValue(w.v.environment.v[x]) /\ UsersOwn(x)

(* How many transports the blocks of a resource and of the provider allow  *)
(* to be used, by the comment of getConfiguredTransport.                   *)
SingleTransport(own, defaults) ==
    Cardinality(IF Types(own) = {} THEN Types(defaults) ELSE Types(own)) = 1

(* A map with nothing in it, or with an object in it that has no value.    *)
Gap(w) ==
    /\ w.t = "map" /\ HasValue(w)
    /\ w.v = Empty \/ \E a \in DOMAIN w.v : w.v[a].t = "object" /\ ~HasValue(w.v[a])
MapOfSeveral(w) == w.t = "map" /\ HasValue(w) /\ \E a, b \in DOMAIN w.v : a # b

(* What a configuration holds of any type: the parts of its stanzas, the   *)
(* attributes of its seals and the telemetry.                              *)
PartsIn(w, names) == IF HasValue(w) THEN {w.v[p] : p \in DOMAIN w.v \cap names} ELSE {}
AnyType(c) ==
    {c["telemetry"]} \union PartsIn(c["listener"], ListenerParts) \union PartsIn(c["storage"], StorageParts)
        \union PartsIn(c["seal"], {"attributes"})
        \union UNION {PartsIn(seal, {"attributes"}) : seal \in PartsIn(c["seals"], SealNames)}

(* Only these can panic: a map with a gap and, of a Vault's configuration, *)
(* stanzas or seals that are themselves written as a map.                  *)
MapsIn(w) ==
    IF ~IsVault(w) THEN Gap(w)
    ELSE /\ HasValue(w.v.config)
         /\ \/ \E part \in AnyType(w.v.config.v) : Gap(part)
            \/ \E s \in {"listener", "storage", "seals"} : MapOfSeveral(w.v.config.v[s])

(* A failing request is answered with a diagnostic, with three exceptions  *)
(* of the code: an update that drops a transport type the saved state has  *)
(* configured crashes the provider while it is planned, so does a failure  *)
(* of a request without a single transport, in a resource type that        *)
(* gathers logs, and so does a plan that has to encode one of a few maps.  *)
(* A create never crashes for the first reason, nor a request with a sound *)
(* transport for the second, nor one without these maps for the third.     *)
CrashesOnlyThere ==
    /\ crash = "replace" => \E r \in Resources :
          /\ saved[r] # Empty /\ HasValue(saved[r].transport)
          /\ \E type \in DOMAIN saved[r].transport.v :
                 HasValue(Written(r).transport) => type \notin DOMAIN Written(r).transport.v
    /\ crash = "logs" => kind.logs /\ \E r \in Resources :
          ~SingleTransport(Written(r).transport, provider[walk].transport)
    /\ crash = "encode" => \E r \in Resources : MapsIn(Written(r).payload)
=============================================================================
