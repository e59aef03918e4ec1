------------------------------ MODULE UrsaNode ------------------------------
(***************************************************************************)
(* The processes of the ursa binary (ursa/src/main.rs) with the files they  *)
(* read and write first.  `ursa` runs a node, `ursa rpc` a command for a    *)
(* running one; both load the node's configuration (config.rs) and may      *)
(* rewrite it.  The node goes on to the key of its identity (identity.rs)   *)
(* and, once up, registers once with the tracker.  Both files are written   *)
(* by truncating and then filling them, and a process may end between any   *)
(* two steps.  The identity named "random", a key for one run that is never *)
(* saved, is left out, and so is what `ursa rpc` asks of the node.          *)
(***************************************************************************)
EXTENDS Tracker

CONSTANTS
    Nodes,
    Texts,    \* configuration files that operators write
    NoKey,    \* there is no key file
    Torn,     \* a file that does not parse
    MaxEvents \* bound on commands, ends of processes and ticks of the clock

\* Of a configuration the model keeps the identity, the server's domain, the
\* deprecated domain of the provider, and whether there is anything that
\* to_string would not write (comments, another order or spacing).  A domain
\* may be one that is no Multiaddr.
Keys == {"identity", "domain", "provider_domain", "comment"}
Values == {"default", "custom", "bad"}

Configs ==
    {c \in UNION {[D -> Values] : D \in SUBSET Keys} :
         \A k \in DOMAIN c : c[k] = "bad" => k = "provider_domain"}

ASSUME NodeAssumption ==
    /\ NoKey \notin Ids /\ Torn \notin Ids
    /\ Texts \subseteq Configs /\ Torn \notin Configs
    /\ MaxEvents \in Nat

VARIABLES
    config,    \* contents of the configuration file of each node
    keystore,  \* key file of each node, for each identity its settings name
    proc,      \* what each process is doing
    settings,  \* the settings each process has loaded
    key,       \* the keypair in use, as the id of its public key
    used,      \* keys generated so far
    call,      \* the registration handler each node waits for
    events,    \* commands started and processes ended so far
    operator,  \* the configuration file as the operator left it
    disturbed  \* nodes of which a process ended while it filled the
               \* configuration file, or read it while another filled it

fileVars == <<config, keystore>>
procVars == <<proc, settings, key, used, call>>
nodeVars == <<trackerVars, fileVars, procVars, events, operator, disturbed>>

Procs == Nodes \X {"node", "rpc"}

Node(n) == <<n, "node">>
Rpc(n) == <<n, "rpc">>

Identities == {"default", "custom"}

\* Settings as UrsaConfig holds them after the migration, and also the file
\* that toml::to_string makes of them.
Settings == [{"identity", "domain"} -> Identities]

Default == [k \in {"identity", "domain"} |-> "default"]

NodeInit ==
    /\ TrackerInit
    /\ operator \in [Nodes -> Texts]
    /\ config = operator
    /\ keystore = [n \in Nodes |-> [id \in Identities |-> NoKey]]
    /\ proc = [p \in Procs |-> "off"]
    /\ settings = [p \in Procs |-> Default]
    /\ key = [n \in Nodes |-> NoKey]
    /\ used = {}
    /\ call = [n \in Nodes |-> {}]
    /\ events = 0
    /\ disturbed = {}
-----------------------------------------------------------------------------
\* from_str: every section and every field has a default, so a file without
\* some of them, an empty one too, is read like one that states the defaults.
parse(c) == [k \in {"identity", "domain"} |-> GetOr(c, k, "default")]

\* The deprecated domain of the provider replaces that of the server.
migrate(c, s) ==
    IF "provider_domain" \in DOMAIN c
    THEN [s EXCEPT !["domain"] = c["provider_domain"]] ELSE s

loaded(c) == migrate(c, parse(c))

\* from_str accepts the file, and the deprecated domain is a Multiaddr.
Loads(c) == c # Torn /\ GetOr(c, "provider_domain", "default") # "bad"

\* The other process of p's node is filling the file.
BeingFilled(p) == \E q \in Procs : q[1] = p[1] /\ q # p /\ proc[q] = "writing"

\* What comes after the configuration.
Next_pc(p) == IF p[2] = "node" THEN "identity" ELSE "command"

\* Mutant: a file that does not state the server's domain is refused.
load_or_default_strict(p) ==
    /\ proc[p] = "off"
    /\ Loads(config[p[1]])
    /\ config[p[1]] = EmptyMap \/ "domain" \in DOMAIN config[p[1]]
    /\ settings' = [settings EXCEPT ![p] = loaded(config[p[1]])]
    /\ proc' = [proc EXCEPT ![p] = IF loaded(config[p[1]]) = config[p[1]]
                                   THEN Next_pc(p) ELSE "rewrite"]
    /\ disturbed' = IF BeingFilled(p) THEN disturbed \cup {p[1]} ELSE disturbed
    /\ events' = IF p[2] = "rpc" THEN events + 1 ELSE events
    /\ UNCHANGED <<trackerVars, fileVars, key, used, call, operator>>

\* load_or_default up to the write: a file that is not what to_string makes
\* of it is written anew.  One that is not there is like an empty one, and
\* the defaults are written.  A file that does not load ends the process,
\* which changes nothing.
load_or_default(p) ==
    /\ proc[p] = "off"
    /\ Loads(config[p[1]])
    /\ settings' = [settings EXCEPT ![p] = loaded(config[p[1]])]
    /\ proc' = [proc EXCEPT ![p] = IF loaded(config[p[1]]) = config[p[1]]
                                   THEN Next_pc(p) ELSE "rewrite"]
    /\ disturbed' = IF BeingFilled(p) THEN disturbed \cup {p[1]} ELSE disturbed
    /\ events' = IF p[2] = "rpc" THEN events + 1 ELSE events
    /\ UNCHANGED <<trackerVars, fileVars, key, used, call, operator>>

\* config::write: File::create.
write_create(p) ==
    /\ proc[p] = "rewrite"
    /\ config' = [config EXCEPT ![p[1]] = EmptyMap]
    /\ proc' = [proc EXCEPT ![p] = "writing"]
    /\ UNCHANGED <<trackerVars, keystore, settings, key, used, call, events,
                   operator, disturbed>>

\* Mutant: the settings of a file that is rewritten are the default ones.
write_all_default(p) ==
    /\ proc[p] = "writing"
    /\ config' = [config EXCEPT ![p[1]] = Default]
    /\ proc' = [proc EXCEPT ![p] = Next_pc(p)]
    /\ UNCHANGED <<trackerVars, keystore, settings, key, used, call, events,
                   operator, disturbed>>

\* What write_all leaves: its text, and the end of what another process has
\* put there since, if that is longer.
Filled(p) ==
    IF config[p[1]] \in {EmptyMap, settings[p]} THEN {settings[p]}
    ELSE {settings[p], Torn}

write_all(p) ==
    /\ proc[p] = "writing"
    /\ \E c \in Filled(p) : config' = [config EXCEPT ![p[1]] = c]
    /\ proc' = [proc EXCEPT ![p] = Next_pc(p)]
    /\ UNCHANGED <<trackerVars, keystore, settings, key, used, call, events,
                   operator, disturbed>>

\* A process ends, and what it had in memory is gone.
Ends(p) ==
    /\ proc' = [proc EXCEPT ![p] = "off"]
    /\ settings' = [settings EXCEPT ![p] = Default]

\* `ursa rpc` runs its command, which uses none of the settings.
rpc_run(n) ==
    /\ proc[Rpc(n)] = "command"
    /\ Ends(Rpc(n))
    /\ UNCHANGED <<trackerVars, fileVars, key, used, call, events, operator,
                   disturbed>>
-----------------------------------------------------------------------------
KeyFile(n) == keystore[n][settings[Node(n)]["identity"]]

\* IdentityManager::load of a key file.
load(n) ==
    /\ proc[Node(n)] = "identity"
    /\ KeyFile(n) \in Ids
    /\ key' = [key EXCEPT ![n] = KeyFile(n)]
    /\ proc' = [proc EXCEPT ![Node(n)] = "start"]
    /\ UNCHANGED <<trackerVars, fileVars, settings, used, call, events, operator,
                   disturbed>>

\* pem::parse of anything else panics.
load_panics(n) ==
    /\ proc[Node(n)] = "identity"
    /\ KeyFile(n) = Torn
    /\ Ends(Node(n))
    /\ UNCHANGED <<trackerVars, fileVars, key, used, call, events, operator,
                   disturbed>>

\* Keypair::generate_ed25519: a key nobody has.
generate == CHOOSE k \in Ids : k \notin used

\* load failed, for want of the file or because it cannot be read now:
\* IdentityManager::new up to the File::create of save.
new(n) ==
    /\ proc[Node(n)] = "identity"
    /\ used # Ids
    /\ key' = [key EXCEPT ![n] = generate]
    /\ used' = used \cup {generate}
    /\ keystore' = [keystore EXCEPT ![n][settings[Node(n)]["identity"]] = Torn]
    /\ proc' = [proc EXCEPT ![Node(n)] = "saving"]
    /\ UNCHANGED <<trackerVars, config, settings, call, events, operator, disturbed>>

\* Mutant: the key is saved under the default identity.
save_default(n) ==
    /\ proc[Node(n)] = "saving"
    /\ keystore' = [keystore EXCEPT ![n]["default"] = key[n]]
    /\ proc' = [proc EXCEPT ![Node(n)] = "start"]
    /\ UNCHANGED <<trackerVars, config, settings, key, used, call, events,
                   operator, disturbed>>

\* The rest of save.
save(n) ==
    /\ proc[Node(n)] = "saving"
    /\ keystore' = [keystore EXCEPT ![n][settings[Node(n)]["identity"]] = key[n]]
    /\ proc' = [proc EXCEPT ![Node(n)] = "start"]
    /\ UNCHANGED <<trackerVars, config, settings, key, used, call, events,
                   operator, disturbed>>
-----------------------------------------------------------------------------
\* main after the tasks are spawned: register_with_tracker, if the settings
\* name a tracker and it can be reached.
register_with_tracker(n) ==
    /\ proc[Node(n)] = "start"
    /\ \E h \in Handlers :
           /\ registration_handler(h, key[n])
           /\ call' = [call EXCEPT ![n] = {h}]
    /\ proc' = [proc EXCEPT ![Node(n)] = "registering"]
    /\ UNCHANGED <<fileVars, settings, key, used, events, operator, disturbed>>

not_registered(n) ==
    /\ proc[Node(n)] = "start"
    /\ proc' = [proc EXCEPT ![Node(n)] = "running"]
    /\ UNCHANGED <<trackerVars, fileVars, settings, key, used, call, events,
                   operator, disturbed>>

\* The handlers that have finished in this step answer the processes that
\* wait for them; an error is logged, and the registration not repeated.
TrackerAnswered ==
    /\ proc' = [p \in Procs |->
                   IF p[2] = "node" /\ \E h \in call[p[1]] : reg'[h] = Free
                   THEN "running" ELSE proc[p]]
    /\ call' = [n \in Nodes |-> {h \in call[n] : reg'[h] # Free}]
    /\ UNCHANGED <<fileVars, settings, key, used, events, operator, disturbed>>

\* What the file holds when p ends while it fills it: what was there, the
\* first lines of p's text (network_config comes first), or a line cut short.
Interrupted(p) ==
    IF proc[p] = "writing"
    THEN {config[p[1]], Restrict(settings[p], {"identity"}), Torn}
    ELSE {config[p[1]]}

\* A process ends: Ctrl-C, a crash, or an error of main (a store that does
\* not open, a file that cannot be written).  Its tasks end with it.
Stop(p) ==
    /\ proc[p] # "off"
    /\ events' = events + 1
    /\ Ends(p)
    /\ call' = IF p[2] = "node" THEN [call EXCEPT ![p[1]] = {}] ELSE call
    /\ \E c \in Interrupted(p) : config' = [config EXCEPT ![p[1]] = c]
    /\ disturbed' = IF proc[p] = "writing" THEN disturbed \cup {p[1]} ELSE disturbed
    /\ UNCHANGED <<trackerVars, keystore, key, used, operator>>

to_config(p) == load_or_default(p) \/ write_create(p) \/ write_all(p)

\* `ursa`: the start of a node.
Starting(n) ==
    \/ to_config(Node(n))
    \/ load(n) \/ load_panics(n) \/ new(n) \/ save(n)
    \/ register_with_tracker(n) \/ not_registered(n)

\* `ursa rpc`.
Commanding(n) == to_config(Rpc(n)) \/ rpc_run(n)

NodeNext ==
    /\ \/ TrackerStep /\ TrackerAnswered
       \/ \E n \in Nodes : Starting(n) \/ Commanding(n)
       \/ \E p \in Procs : Stop(p)
    /\ clock' + events' <= MaxEvents

NodeSpec == NodeInit /\ [][NodeNext]_nodeVars

\* A process that has been started goes on, and a node that has ended is
\* started again.  Nothing is assumed of the tracker, and nobody need run a
\* command.
NodeFairSpec ==
    /\ NodeSpec
    /\ \A n \in Nodes :
           /\ WF_nodeVars(Starting(n))
           /\ WF_nodeVars(write_create(Rpc(n)) \/ write_all(Rpc(n)) \/ rpc_run(n))
-----------------------------------------------------------------------------
(* Properties *)

Up(n) == proc[Node(n)] \in {"start", "registering", "running"}

ProcStates == {"off", "rewrite", "writing", "command", "identity", "saving",
               "start", "registering", "running"}

NodeTypeOK ==
    /\ TrackerTypeOK
    /\ config \in [Nodes -> Configs \cup {Torn}]
    /\ keystore \in [Nodes -> [Identities -> Ids \cup {NoKey, Torn}]]
    /\ proc \in [Procs -> ProcStates]
    /\ settings \in [Procs -> Settings]
    /\ key \in [Nodes -> Ids \cup {NoKey}]
    /\ used \subseteq Ids
    /\ call \in [Nodes -> SUBSET Handlers]
    /\ disturbed \subseteq Nodes

\* A node that is up runs under the key in the file its settings name
\* (identity.rs:167), and the tracker, now or when a late registration is
\* written, knows no id whose key is still being saved: a node that ends
\* there was never known under it.
RunsUnderSavedKey ==
    /\ \A n \in Nodes : Up(n) => KeyFile(n) = key[n]
    /\ \A n \in Nodes : proc[Node(n)] = "saving" =>
           /\ key[n] \notin DOMAIN db
           /\ \A h \in Handlers : Registering(h) => reg[h].id # key[n]

\* What the operator's file asks for.
Asked(n) ==
    [identity |-> GetOr(operator[n], "identity", "default"),
     domain |-> GetOr(operator[n], "provider_domain",
                      GetOr(operator[n], "domain", "default"))]

\* A process never runs with other settings than its operator asked for
\* (config.rs:66), however often nodes and commands are started, in whatever
\* order their steps interleave, and however often the file is rewritten;
\* unless one ended while it filled the file or read it while another did:
\* what is there of the file is then a configuration too.
SettingsKept ==
    \A p \in Procs :
        p[1] \notin disturbed /\ proc[p] # "off" => settings[p] = Asked(p[1])

\* Once no process ends any more, every node comes up, unless its
\* configuration does not load (main.rs:193), as the operator wrote it or as
\* an end or a concurrent write left it, or an end left a key file that is
\* not one (identity.rs:87): those stop it for good.  (With all of Ids used
\* there is no further key to generate.)
NodesComeUp ==
    \A n \in Nodes :
        <>[](\/ Up(n)
             \/ ~Loads(config[n])
             \/ keystore[n][loaded(config[n])["identity"]] = Torn
             \/ used = Ids)
=============================================================================
