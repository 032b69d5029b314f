------------------------ MODULE MCEmbeddedTransport ------------------------
(* An instance for TLC: blocks with all, some and none of the attributes   *)
(* that are needed, unknown values, two transports and a misspelt one.     *)
EXTENDS EmbeddedTransport
CONSTANTS r1, r2

S(x) == Known("string", <<x>>)
Object(v) == Known("object", v)
NoDir == Null("string")
Using(type, v) == Object([t \in {type} |-> v])

OwnHost == Object([host |-> S("own"), user |-> Null("string")])
UserKey == Object([user |-> S("u"), private_key |-> S("k")])
SSHFull == Object([user |-> S("u"), private_key |-> S("k"), host |-> S("default")])
Pod == Object([kubeconfig_base64 |-> S("c"), context_name |-> S("x"), pod |-> S("p")])
HostLater == Object([host |-> Unknown("string")])
HostNow == Object([host |-> S("later")])
SSHLater == [Unknown("object") EXCEPT !.v = [a \in SSHAttributes |-> Empty]]
SSHNow == Object([a \in SSHAttributes |-> S(a)])
Job == Object([host |-> S("n"), allocation_id |-> S("i"), task_name |-> S("t"), secret_id |-> Null("dynamic")])

MCProvider ==
    LET P(t, d, e) == [plan |-> [transport |-> t, dir |-> d], apply |-> [transport |-> t, dir |-> d], env |-> e] IN
    {P(Null("dynamic"), S("d"), FALSE), P(Using("ssh", SSHFull), NoDir, FALSE),
     P(Object([ssh |-> Object([user |-> S("u")]), kubernetes |-> Pod]), NoDir, TRUE),
     P(Using("shh", UserKey), NoDir, FALSE),
     [plan |-> [transport |-> Unknown("dynamic"), dir |-> S("d")],
      apply |-> [transport |-> Using("kubernetes", Pod), dir |-> S("d")], env |-> FALSE]}

Env == Known("stringMap", [A |-> S("1"), B |-> S("2")])
Listener == Object([tls |-> Known("bool", <<TRUE>>), port |-> Known("number", <<8200>>),
                    telemetry |-> Object([sinks |-> Known("strings", <<S("a"), S("b")>>)])])
Joins == Known("objects", <<Object([leader |-> S("a")]), Object([leader |-> S("b")])>>)
Tags == Known("map", [A |-> S("1")])
Numbers == Object([half |-> Known("number", <<15>>), large |-> Known("number", <<10 * (MaxInt + 1)>>)])
NullTag == Known("map", [A |-> Object([x |-> S("1")]), B |-> [Null("object") EXCEPT !.v = [x |-> Empty]]])
NoTags == Known("map", Empty)
Empties == Object([none |-> Known("stringMap", Empty), sinks |-> Null("objects"),
                   tags |-> Known("map", [A |-> Null("string")])])

(* Configurations of enos_vault_start.                                     *)
NoSeal == [Null("object") EXCEPT !.v = BlockType]
Seal(type, attrs) == Object([type |-> S(type), attributes |-> attrs])
KMS == Seal("awskms", Object([kms_key_id |-> S("key"), region |-> S("east")]))
OtherKMS == Seal("awskms", Object([kms_key_id |-> S("key2"), region |-> S("west")]))
Bao == Seal("transit", Object([address |-> S("addr"), token |-> S("tok"), key_id_prefix |-> S("pre")]))
Shamir == Seal("shamir", Null("dynamic"))
KMSLater == Seal("awskms", Unknown("dynamic"))
KMSWithFlag == Seal("awskms", Object([kms_key_id |-> S("key"), trace |-> Known("bool", <<TRUE>>)]))
Tcp == Object([type |-> S("tcp"), attributes |-> Object([address |-> S("0.0.0.0:8200"), tls_disable |-> S("true")])])
RaftOnly == Object([type |-> S("raft"), attributes |-> Object([node_id |-> S("node")])])
RaftJoin == Object([type |-> S("raft"), attributes |-> Object([node_id |-> S("node"), path |-> S("/raft")]),
                    retry_join |-> Object([auto_join |-> S("mine")])])
RaftMap(join) == Known("map", [attributes |-> Object([a |-> S("1")]), retry_join |-> join])
Consul == Object([type |-> S("consul"), attributes |-> Object([address |-> S("c")])])
Config(storage, seal, seals, level, name) ==
    Object([cluster_name |-> name, api_addr |-> S("http://a"), cluster_addr |-> Null("string"),
            log_level |-> level, ui |-> Known("bool", <<TRUE>>), listener |-> Tcp, storage |-> storage,
            seal |-> seal, seals |-> seals, telemetry |-> Null("dynamic")])
UserEnv == Known("stringMap", [x \in {<<"", "editor">>, <<"AWS_", "region">>, <<"VAULT_", "log_level">>} |-> S("user")])
VaultStart(config, mode, env) == Known("vault", [config |-> config, config_mode |-> mode, environment |-> env])

MCVaultStart ==
    LET C(t, p) == [plan |-> [transport |-> t, payload |-> p], apply |-> [transport |-> t, payload |-> p]]
        FileMode == Null("string")
        NoEnv == Null("stringMap")
        NoSeals == Null("dynamic")
        File(storage, seal, seals) == VaultStart(Config(storage, seal, seals, S("warn"), S("c")), FileMode, NoEnv)
        InVars(seal, seals) == VaultStart(Config(RaftOnly, seal, seals, S("warn"), S("c")), S("env"), UserEnv)
        Ssh == Using("ssh", SSHFull)
        Two(n, m) == Object([primary |-> n, secondary |-> m])
        Three == Object([primary |-> KMS, secondary |-> NoSeal, tertiary |-> OtherKMS])
    IN <<C(Null("dynamic"), File(RaftOnly, KMS, NoSeals)),
         C(Using("ssh", OwnHost), InVars(KMS, NoSeals)),
         C(Object([ssh |-> SSHFull, nomad |-> Job]), File(Consul, Shamir, NoSeals)),
         C(Using("kubernetes", Pod), File(RaftJoin, NoSeal, NoSeals)),
         C(Ssh, InVars(NoSeal, Two(KMS, OtherKMS))),
         C(Ssh, InVars(NoSeal, Object([primary |-> Bao]))),
         C(Ssh, File(RaftJoin, NoSeal, Two(KMS, Shamir))),
         C(Ssh, File(Consul, NoSeal, Three)),
         C(Ssh, InVars(KMSWithFlag, NoSeals)),
         C(Ssh, VaultStart(Config(RaftOnly, NoSeal, NoSeals, S("warn"), Null("string")), FileMode, NoEnv)),
         C(Ssh, VaultStart(Config(RaftJoin, NoSeal, NoSeals, Null("string"), S("c")), FileMode, NoEnv)),
         C(Ssh, VaultStart(Config(RaftJoin, NoSeal, NoSeals, S("warn"), S("c")), S("both"), NoEnv)),
         [plan |-> [transport |-> Ssh, payload |-> File(RaftJoin, KMSLater, NoSeals)],
          apply |-> [transport |-> Ssh, payload |-> File(RaftJoin, KMS, NoSeals)]],
         [plan |-> [transport |-> Ssh, payload |-> File(Unknown("dynamic"), KMS, NoSeals)],
          apply |-> [transport |-> Ssh, payload |-> File(RaftJoin, KMS, NoSeals)]],
         C(Ssh, File(RaftOnly, NoSeal, Known("map", [primary |-> KMS, secondary |-> NoSeal]))),
         C(Ssh, File(RaftOnly, NoSeal, Known("map", [primary |-> KMS, secondary |-> OtherKMS]))),
         C(Ssh, File(RaftOnly, Seal("awskms", NoTags), NoSeals)),
         [plan |-> [transport |-> Ssh, payload |-> File(RaftMap([Unknown("object") EXCEPT !.v = [a |-> Empty]]), KMS, NoSeals)],
          apply |-> [transport |-> Ssh, payload |-> File(RaftMap(Object([a |-> S("2")])), KMS, NoSeals)]]>>

MCResource ==
    LET C(t, p) == [plan |-> [transport |-> t, payload |-> p], apply |-> [transport |-> t, payload |-> p]]
        L(t, p, u, q) == [plan |-> [transport |-> t, payload |-> p], apply |-> [transport |-> u, payload |-> q]]
    IN <<C(Null("dynamic"), Env), C(Using("ssh", OwnHost), Listener), C(Using("kubernetes", Pod), Joins),
        C(Using("nomad", Job), Tags),
        L(Using("ssh", HostLater), Unknown("dynamic"), Using("ssh", HostNow), Listener),
        L(Using("ssh", SSHLater), Unknown("stringMap"), Using("ssh", SSHNow), Env),
        L(Unknown("dynamic"), Env, Using("ssh", SSHNow), Env),
        C(Using("ssh", Null("dynamic")), Env),
        C(Using("ssh", SSHFull), Numbers), C(Using("ssh", SSHFull), Empties),
        C(Using("ssh", SSHFull), Known("tuple", <<S("a")>>)),
        C(Using("ssh", SSHFull), NullTag),
        C(Using("ssh", SSHFull), NoTags)>> \o MCVaultStart

(* A resource type like enos_user, and enos_vault_start, which gathers     *)
(* logs when it fails and refuses a kubernetes transport.                  *)
MCKinds == {[logs |-> FALSE, reads |-> TRUE, k8s |-> TRUE, configs |-> 1..13],
            [logs |-> TRUE, reads |-> FALSE, k8s |-> FALSE, configs |-> 14..31]}

(* What RendersWhatIsConfigured supposes of the configurations holds of    *)
(* every one of these.                                                     *)
ASSUME NothingAmbiguous ==
    \A i \in DOMAIN MCResource :
        IsVault(MCResource[i].apply.payload) => Unambiguous(MCResource[i].apply.payload)
=============================================================================
