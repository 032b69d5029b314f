----------------------------- MODULE VaultConfig -----------------------------
(***************************************************************************)
(* The configuration of enos_vault_start: how its blocks are decoded from  *)
(* what core sends and encoded again (plugin/vault_config_*.go), and how   *)
(* startVault renders them into the HCL file and the environment file of   *)
(* the service (vaultConfig.Render and the translators of seal attributes  *)
(* in plugin/resource_vault_start.go).                                     *)
(*                                                                         *)
(* A wire value of type "vault" holds config, config_mode and environment. *)
(* A rendered file is a function from names to values and a set of blocks; *)
(* the order of blocks, a Go map's, is left open.  The name of a variable  *)
(* is a prefix and the rest of it, which the code puts in capitals, in     *)
(* the user's environment too.                                             *)
(***************************************************************************)
EXTENDS TFTypes

Scalar == [cluster_name |-> "string", api_addr |-> "string", cluster_addr |-> "string",
           log_level |-> "string", ui |-> "bool"]
SealNames == {"primary", "secondary", "tertiary"}

-----------------------------------------------------------------------------
(* vaultConfigBlock: one seal.  Its attributes go back as they came.       *)

NewConfigBlock ==
    [Type |-> New("string"), Attrs |-> New("object"), Raw |-> Empty, Unknown |-> FALSE, Null |-> TRUE]

TypeDecodes(w) == HasValue(w) => w.t = "string"
PartDecodes(w) == (HasValue(w) => IsDynamic(w)) /\ Decodes(w)
ConfigBlockDecodes(w) ==
    HasValue(w) =>
        /\ w.t \in {"object", "map"} /\ DOMAIN w.v \subseteq {"type", "attributes"}
        /\ "type" \in DOMAIN w.v => TypeDecodes(w.v["type"])
        /\ "attributes" \in DOMAIN w.v => PartDecodes(w.v["attributes"])

ConfigBlockFrom(w) ==
    IF ~HasValue(w) THEN [NewConfigBlock EXCEPT !.Unknown = ~IsKnown(w)]
    ELSE LET attributes == IF "attributes" \in DOMAIN w.v THEN w.v["attributes"] ELSE Null("dynamic") IN
         [Type |-> IF "type" \in DOMAIN w.v THEN StringFrom(New("string"), w.v["type"]) ELSE New("string"),
          Attrs |-> CASE ~IsKnown(attributes) -> [New("object") EXCEPT !.Unknown = TRUE]
                      [] attributes.s = "null" -> New("object")
                      [] OTHER -> ObjectFrom(New("object"), attributes, HoldersFrom(attributes)),
          Raw |-> IF HasValue(attributes) THEN <<attributes>> ELSE Empty,
          Unknown |-> FALSE, Null |-> FALSE]

BlockType == [type |-> Empty, attributes |-> Empty]
ConfigBlockValue(b) ==
    CASE b.Unknown -> [Unknown("object") EXCEPT !.v = BlockType]
      [] ~b.Unknown /\ b.Null -> [Null("object") EXCEPT !.v = BlockType]
      [] OTHER -> Known("object",
            [type |-> ScalarValue(b.Type),
             attributes |-> IF b.Raw # Empty THEN Encode(b.Raw[1], b.Raw[1].v)
                            ELSE IF b.Attrs.Unknown THEN Unknown("dynamic") ELSE Null("dynamic")])
ConfigBlockEncodes(b) == b.Raw # Empty /\ b.Raw[1].t = "map" => b.Raw[1].v # Empty

-----------------------------------------------------------------------------
(* vaultSealsConfig.  Raw is the value it came from; which of its names    *)
(* were there decides what goes back.  An unknown value leaves Null set,   *)
(* so it goes back as a null.                                              *)

NewSeals == [blocks |-> [n \in SealNames |-> NewConfigBlock], Raw |-> Empty]

SealsDecode(w) ==
    HasValue(w) => /\ w.t \in {"object", "map"} /\ DOMAIN w.v \subseteq SealNames
                   /\ \A n \in DOMAIN w.v : ConfigBlockDecodes(w.v[n])
SealsFrom(w) ==
    IF ~HasValue(w) THEN NewSeals
    ELSE [blocks |-> [n \in SealNames |->
                        IF n \in DOMAIN w.v THEN ConfigBlockFrom(w.v[n]) ELSE NewConfigBlock],
          Raw |-> <<w>>]

(* The value of the tertiary seal is taken from the secondary one.         *)
EncodedSeal(n) == IF n = "tertiary" THEN "secondary" ELSE n
SealsValue(seals) ==
    IF seals.Raw = Empty \/ DOMAIN seals.Raw[1].v = {} THEN Null("dynamic")
    ELSE Known(seals.Raw[1].t,
               [n \in DOMAIN seals.Raw[1].v |-> ConfigBlockValue(seals.blocks[EncodedSeal(n)])])
(* In a map the seals' attributes have to be of one type once more.        *)
AttributesType(b) == IF b.Raw = Empty THEN "dynamic" ELSE b.Raw[1].t
SealsEncode(seals) ==
    seals.Raw # Empty =>
        LET encoded == {seals.blocks[EncodedSeal(n)] : n \in DOMAIN seals.Raw[1].v}
        IN  /\ \A b \in encoded : ConfigBlockEncodes(b)
            /\ seals.Raw[1].t = "map" => \A a, b \in encoded : AttributesType(a) = AttributesType(b)

NeedsMultiseal(seals) == \E n, m \in SealNames : n # m /\ ~seals.blocks[n].Null /\ ~seals.blocks[m].Null

-----------------------------------------------------------------------------
(* vaultListenerConfig and vaultStorageConfig: a type and parts of any     *)
(* type.  Only the parts that came go back, an unknown stanza as a null.   *)

ListenerParts ==
    {"attributes", "telemetry", "profiling", "inflight_requests_logging", "custom_response_headers"}
StorageParts == {"attributes", "retry_join"}

StanzaDecodes(parts, w) ==
    HasValue(w) =>
        /\ w.t \in {"object", "map"} /\ DOMAIN w.v \subseteq parts \union {"type"}
        /\ \A p \in DOMAIN w.v : IF p = "type" THEN TypeDecodes(w.v[p]) ELSE PartDecodes(w.v[p])
StanzaFrom(parts, w) ==
    LET came(p) == HasValue(w) /\ p \in DOMAIN w.v IN
    [Type |-> IF came("type") THEN StringFrom(New("string"), w.v["type"]) ELSE New("string"),
     parts |-> [p \in parts |-> IF came(p) THEN BlockFrom(NewBlock, w.v[p]) ELSE NewBlock],
     Raw |-> IF HasValue(w) THEN <<w>> ELSE Empty]
StanzaValue(s) ==
    IF s.Raw = Empty \/ DOMAIN s.Raw[1].v = {} THEN Null("dynamic")
    ELSE Known(s.Raw[1].t,
               [p \in DOMAIN s.Raw[1].v |-> IF p = "type" THEN ScalarValue(s.Type) ELSE BlockValue(s.parts[p])])
StanzaEncodes(s) ==
    s.Raw # Empty =>
        /\ \A p \in DOMAIN s.Raw[1].v \ {"type"} : BlockEncodes(s.parts[p])
        /\ s.Raw[1].t = "map" => OneElementType(StanzaValue(s).v)

ListenerDecodes(w) == StanzaDecodes(ListenerParts, w)
ListenerFrom(w) == StanzaFrom(ListenerParts, w)
ListenerValue(s) == StanzaValue(s)
StorageDecodes(w) == StanzaDecodes(StorageParts, w)
StorageFrom(w) == StanzaFrom(StorageParts, w)
StorageValue(s) == StanzaValue(s)

-----------------------------------------------------------------------------
(* vaultConfig.  One that is unknown as a whole is not decoded.            *)

ConfigDecodes(w) ==
    HasValue(w) => /\ ListenerDecodes(w.v.listener) /\ StorageDecodes(w.v.storage)
                   /\ ConfigBlockDecodes(w.v.seal) /\ SealsDecode(w.v.seals)
                   /\ PartDecodes(w.v.telemetry)
VaultConfigFrom(w) ==
    LET c == IF HasValue(w) THEN w.v ELSE Empty
        given(a, otherwise) == IF a \in DOMAIN c THEN c[a] ELSE otherwise
    IN  [scalars |-> [a \in DOMAIN Scalar |->
                        LET new == New(Scalar[a]) w1 == given(a, Null(Scalar[a])) IN
                        IF Scalar[a] = "bool" THEN BoolFrom(new, w1) ELSE StringFrom(new, w1)],
         listener |-> ListenerFrom(given("listener", Null("dynamic"))),
         storage |-> StorageFrom(given("storage", Null("dynamic"))),
         seal |-> ConfigBlockFrom(given("seal", Null("object"))),
         seals |-> SealsFrom(given("seals", Null("dynamic"))),
         telemetry |-> BlockFrom(NewBlock, given("telemetry", Null("dynamic")))]
VaultConfigValue(c) ==
    LET blocks == [listener |-> ListenerValue(c.listener), storage |-> StorageValue(c.storage),
                   seal |-> ConfigBlockValue(c.seal), seals |-> SealsValue(c.seals),
                   telemetry |-> BlockValue(c.telemetry)]
    IN  Known("object", [a \in DOMAIN Scalar \union DOMAIN blocks |->
                            IF a \in DOMAIN Scalar THEN ScalarValue(c.scalars[a]) ELSE blocks[a]])

ConfigEncodes(c) ==
    /\ StanzaEncodes(c.listener) /\ StanzaEncodes(c.storage) /\ ConfigBlockEncodes(c.seal)
    /\ SealsEncode(c.seals) /\ BlockEncodes(c.telemetry)

VaultDecodes(w) == ConfigDecodes(w.v.config)
VaultEncodes(w) == ConfigEncodes(VaultConfigFrom(w.v.config))
VaultAgain(w) ==
    Known("vault", [config |-> VaultConfigValue(VaultConfigFrom(w.v.config)),
                    config_mode |-> EncodeAgain(w.v.config_mode),
                    environment |-> EncodeAgain(w.v.environment)])

-----------------------------------------------------------------------------
(* sealAttrEnvVarTranslator: what a type of seal renames, the prefix of    *)
(* what it does not rename, and what it drops.                             *)

Named == {"name", "priority"}
AliCloudKMS ==
    [renamed |-> [kms_key_id |-> <<"VAULT_ALICLOUDKMS_SEAL_", "key_id">>], prefix |-> "ALICLOUD_", drops |-> Named]
AWSKMS ==
    [renamed |-> [kms_key_id |-> <<"VAULT_AWSKMS_SEAL_", "key_id">>,
                  secret_key |-> <<"AWS_", "secret_access_key">>], prefix |-> "AWS_", drops |-> Named]
AzureKeyVault ==
    [renamed |-> [vault_name |-> <<"VAULT_AZUREKEYVAULT_", "vault_name">>,
                  key_name |-> <<"VAULT_AZUREKEYVAULT_", "key_name">>,
                  resource |-> <<"AZURE_", "ad_resource">>], prefix |-> "AZURE_", drops |-> Named]
GCPKMS ==
    [renamed |-> [a \in {"key_ring", "crypto_ring", "crypto_key"} |-> <<"VAULT_GCPCKMS_SEAL_", a>>],
     prefix |-> "GOOGLE_", drops |-> Named]
PKCS11 ==
    [renamed |-> [default_hmac_key_label |-> <<"VAULT_HSM_", "hmac_default_key_label">>],
     prefix |-> "VAULT_HSM_", drops |-> Named]
OCIKMS ==
    [renamed |-> [key_id |-> <<"VAULT_OCIKMS_SEAL_", "key_id">>], prefix |-> "VAULT_OCIKMS_", drops |-> Named]
Transit ==
    [renamed |-> [address |-> <<"VAULT_", "addr">>, token |-> <<"VAULT_", "token">>,
                  namespace |-> <<"VAULT_", "namespace">>,
                  key_name |-> <<"VAULT_TRANSIT_SEAL_", "key_name">>,
                  mount_path |-> <<"VAULT_TRANSIT_SEAL_", "mount_path">>,
                  disable_renewal |-> <<"VAULT_TRANSIT_SEAL_", "disable_renewal">>,
                  tls_ca_cert |-> <<"VAULT_", "ca_cert">>, tls_client_cert |-> <<"VAULT_", "client_cert">>,
                  tls_client_key |-> <<"VAULT_", "client_key">>, tls_skip_verify |-> <<"VAULT_", "skip_verify">>,
                  tls_server_name |-> <<"VAULT_", "tls_server_name">>],
     prefix |-> "none", drops |-> Named \union {"key_id_prefix"}]

Translator ==
    [alicloudkms |-> AliCloudKMS, awskms |-> AWSKMS, azurekeyvault |-> AzureKeyVault, gcpckms |-> GCPKMS,
     ocikms |-> OCIKMS, pkcs11 |-> PKCS11, transit |-> Transit]

(* sealAttrToString: strings and integers only.                            *)
InWords(v) == v.t \in {"string", "number"}

CanTranslate(label, attrs) ==
    /\ label \in DOMAIN Translator /\ attrs # Empty
    /\ \A a \in DOMAIN attrs : InWords(attrs[a])
    /\ Translator[label].prefix = "none" =>
            DOMAIN attrs \subseteq DOMAIN Translator[label].renamed \union Translator[label].drops
SealType == <<"VAULT_", "seal_type">>
Variable(label, a) ==
    LET t == Translator[label] IN IF a \in DOMAIN t.renamed THEN t.renamed[a] ELSE <<t.prefix, a>>
ToEnvVars(label, attrs) ==
    LET kept == DOMAIN attrs \ Translator[label].drops
    IN  [x \in {SealType} \union {Variable(label, a) : a \in kept} |->
            IF x = SealType THEN <<label>> ELSE attrs[CHOOSE a \in kept : Variable(label, a) = x].v]

-----------------------------------------------------------------------------
(* vaultConfig.Render.                                                     *)

Override(f, g) == [x \in DOMAIN f \union DOMAIN g |-> IF x \in DOMAIN g THEN g[x] ELSE f[x]]
Block(name, label, attrs, blocks) == [name |-> name, label |-> label, attrs |-> attrs, blocks |-> blocks]

(* The attributes of an object, if GetObject gives one.                    *)
AttributesOrNone(h) == IF GetObject(h) THEN NestedValues(h) ELSE Empty
SubBlocks(parts, named) ==
    {Block(p, Empty, NestedValues(parts[p].Object), {}) : p \in {q \in named : GetObject(parts[q].Object)}}

ListenerBlock(l) ==
    IF ~Get(l.Type) THEN {}
    ELSE {Block("listener", l.Type.Val, AttributesOrNone(l.parts["attributes"].Object),
                SubBlocks(l.parts, ListenerParts \ {"attributes"}))}

(* A storage without attributes gets none of raft's defaults either.       *)
Raft == <<"raft">>
RaftDefaults(s) == Get(s.Type) /\ s.Type.Val = Raft /\ GetObject(s.parts["attributes"].Object)
RetryJoin(c) ==
    IF GetObject(c.storage.parts["retry_join"].Object)
    THEN NestedValues(c.storage.parts["retry_join"].Object)
    ELSE [auto_join |-> Known("string", <<"tag_value", c.scalars["cluster_name"].Val>>),
          auto_join_scheme |-> Known("string", <<"http">>)]
StorageBlock(c) ==
    LET s == c.storage
        attrs == AttributesOrNone(s.parts["attributes"].Object)
    IN  IF ~Get(s.Type) THEN {}
        ELSE {IF RaftDefaults(s)
              THEN Block("storage", s.Type.Val, Override([path |-> Known("string", <<"/opt/raft/data">>)], attrs),
                         {Block("retry_join", Empty, RetryJoin(c), {})})
              ELSE Block("storage", s.Type.Val, attrs, {})}

(* A seal is written if it has a type with a stanza and its attributes.    *)
Stanza(block, without) == Get(block.Type) /\ block.Type.Val[1] \notin without /\ GetObject(block.Attrs)
SealWritten(c) == Stanza(c.seal, {"shamir"})
SealsWritten(c) == {n \in SealNames : Stanza(c.seals.blocks[n], {"shamir", "none"})}
Priority == [primary |-> "1", secondary |-> "2", tertiary |-> "3"]
SealAttributes(c, n) ==
    Override([priority |-> Known("string", <<Priority[n]>>), name |-> Known("string", <<n>>)],
             NestedValues(c.seals.blocks[n].Attrs))

(* Mutation: the mode alone decides where the seals go.                    *)
SealsInEnvByMode(c, mode) == mode = "env"
SealsInEnv(c, mode) == mode = "env" /\ ~NeedsMultiseal(c.seals)

TopLevel == {"api_addr", "cluster_addr", "ui", "log_level"}
SetOnTop(c) == {a \in TopLevel : Get(c.scalars[a])}

RenderHCL(c, mode) ==
    [attrs |-> Override(IF mode = "file" THEN [a \in SetOnTop(c) |-> c.scalars[a].Val] ELSE Empty,
                        IF NeedsMultiseal(c.seals) THEN [enable_multiseal |-> <<TRUE>>] ELSE Empty),
     blocks |-> ListenerBlock(c.listener) \union StorageBlock(c)
        \union (IF SealWritten(c) /\ mode = "file"
                THEN {Block("seal", c.seal.Type.Val, NestedValues(c.seal.Attrs), {})} ELSE {})
        \union (IF SealsInEnv(c, mode) THEN {}
                ELSE {Block("seal", c.seals.blocks[n].Type.Val, SealAttributes(c, n), {}) : n \in SealsWritten(c)})
        \union (IF GetObject(c.telemetry.Object)
                THEN {Block("telemetry", Empty, NestedValues(c.telemetry.Object), {})} ELSE {})]

FormatBool(v) == IF v = <<TRUE>> THEN <<"true">> ELSE <<"false">>
InVariable(c, a) == IF a = "ui" THEN FormatBool(c.scalars[a].Val) ELSE c.scalars[a].Val

(* The seals are visited in any order, the last one wins.                  *)
RenderEnv(c, mode) ==
    LET top == IF mode = "env" THEN [x \in {<<"VAULT_", a>> : a \in SetOnTop(c)} |-> InVariable(c, x[2])]
                               ELSE Empty
        seal == IF SealWritten(c) /\ mode = "env"
                THEN ToEnvVars(c.seal.Type.Val[1], NestedValues(c.seal.Attrs)) ELSE Empty
        names == IF SealsInEnv(c, mode) THEN SealsWritten(c) ELSE {}
        last == CHOOSE n \in names : TRUE
    IN  Override(Override(top, seal),
                 IF names = {} THEN Empty
                 ELSE ToEnvVars(c.seals.blocks[last].Type.Val[1], SealAttributes(c, last)))

CanRender(c, mode) ==
    /\ mode \in {"env", "file"}
    /\ SealWritten(c) /\ mode = "env" => CanTranslate(c.seal.Type.Val[1], NestedValues(c.seal.Attrs))
    /\ SealsInEnv(c, mode) => \A n \in SealsWritten(c) :
            CanTranslate(c.seals.blocks[n].Type.Val[1], SealAttributes(c, n))
    /\ RaftDefaults(c.storage) =>
            GetObject(c.storage.parts["retry_join"].Object) \/ Get(c.scalars["cluster_name"])

-----------------------------------------------------------------------------
(* startVault, as far as it goes into the two files: without a level the   *)
(* log level becomes info, in the state as well, and what the              *)
(* configuration sets in the environment overrides the user's variables.   *)

Mode(w) == LET h == Decode(w.v.config_mode) IN IF Get(h) /\ h.Val # <<"">> THEN h.Val[1] ELSE "file"
WithLogLevel(c) ==
    IF Get(c.scalars["log_level"]) THEN c
    ELSE [c EXCEPT !.scalars["log_level"] = Set(@, <<"info">>)]
UserVars(w) ==
    LET h == Decode(w.v.environment)
        names == IF Get(h) THEN {x \in DOMAIN h.Val : Get(h.Val[x])} ELSE {}
    IN  [x \in names |-> h.Val[x].Val]
Started(w) == WithLogLevel(VaultConfigFrom(w.v.config))
CanStart(w) == CanRender(Started(w), Mode(w))
Files(w) ==
    [hcl |-> RenderHCL(Started(w), Mode(w)),
     env |-> Override(UserVars(w), RenderEnv(Started(w), Mode(w)))]
StateAfterStart(w) == [VaultAgain(w) EXCEPT !.v.config = VaultConfigValue(Started(w))]

-----------------------------------------------------------------------------
(* What core sends for the configuration of an enos_vault_start.           *)

SealWire(w) ==
    /\ IsWire(w)
    /\ HasValue(w) => /\ IsMapping(w.v)
                      /\ "type" \in DOMAIN w.v => FlatWire(w.v["type"])
                      /\ "attributes" \in DOMAIN w.v => AttrWire(w.v["attributes"])
StanzaWire(w) ==
    /\ IsWire(w) /\ (w.t = "dynamic" => ~HasValue(w) /\ w.v = Empty)
    /\ HasValue(w) => IsMapping(w.v) /\ \A p \in DOMAIN w.v : AttrWire(w.v[p])
SealsWire(w) ==
    /\ IsWire(w) /\ (w.t = "dynamic" => ~HasValue(w) /\ w.v = Empty)
    /\ HasValue(w) => IsMapping(w.v) /\ \A n \in DOMAIN w.v : SealWire(w.v[n])
Blocks == {"listener", "storage", "seal", "seals", "telemetry"}
ConfigWire(w) ==
    /\ IsWire(w) /\ w.t = "object"
    /\ HasValue(w) =>
        /\ IsMapping(w.v) /\ DOMAIN w.v = DOMAIN Scalar \union Blocks
        /\ \A a \in DOMAIN Scalar : FlatWire(w.v[a]) /\ w.v[a].t = Scalar[a]
        /\ StanzaWire(w.v["listener"]) /\ StanzaWire(w.v["storage"]) /\ AttrWire(w.v["telemetry"])
        /\ SealWire(w.v["seal"]) /\ SealsWire(w.v["seals"])
VaultWire(w) ==
    /\ IsWire(w) /\ HasValue(w)
    /\ w.v = [config |-> w.v.config, config_mode |-> w.v.config_mode, environment |-> w.v.environment]
    /\ ConfigWire(w.v.config)
    /\ StringWire(w.v.config_mode)
    /\ FlatWire(w.v.environment) /\ w.v.environment.t = "stringMap"
=============================================================================
