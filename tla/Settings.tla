------------------------------ MODULE Settings ------------------------------
(***************************************************************************)
(* The configuration files: how pkg/config reads, merges, validates and    *)
(* writes them, how the config commands edit them, how the command line    *)
(* overrides them, and what becomes of a multi-port service, when its      *)
(* ports are resolved and when a delegate hands it to a primary.           *)
(***************************************************************************)
EXTENDS Integers, Sequences, FiniteSets, SequencesExt

CONSTANTS
    File,       \* paths of configuration files
    NoFile,     \* no extends line
    Absent,     \* the content of a file that does not exist
    Extension,  \* of each file, "yaml" or "toml"
    Draft,      \* contents users write by hand
    Service,    \* services the commands add, or that --svc describes
    Flags,      \* lists of --svc arguments
    Cluster,    \* port lists a Kubernetes service or pod may have
    MaxPort,    \* the largest port number, 65535
    MaxEdits    \* bound on the config set, add and remove commands

PortSelector == [name : STRING, port : Int, local : Int]

ServiceConfig ==
    [name : STRING, pod : BOOLEAN, remote : Int, local : Int, all : BOOLEAN,
     sel : Seq(PortSelector), exclude : SUBSET STRING, offset : Int]

(* A ports field says "all" or has a list. *)
Described == {s \in ServiceConfig : s.all => s.sel = <<>>}

(* A service with its ports field as it is on disk. *)
DiskService == [svc : ServiceConfig, form : {"all", "none", "names", "list"}, items : Seq(PortSelector)]

ConfigOf(S) ==
    [written : {"yaml", "toml"}, extends : File \cup {NoFile}, namespace : STRING,
     key : BOOLEAN, keyId : BOOLEAN, interval : Nat, latency : Nat, jitter : Nat,
     socks : {"unset", "on", "off"}, listen : STRING, services : Seq(S)]

ClusterPort == [name : STRING, port : 1..MaxPort]

Config == ConfigOf(ServiceConfig)
DiskConfig == ConfigOf(DiskService)

ASSUME SettingsAssumption ==
    /\ IsFiniteSet(File) /\ NoFile \notin File
    /\ Absent \notin Config \cup DiskConfig
    /\ Extension \in [File -> {"yaml", "toml"}]
    /\ Draft \subseteq ConfigOf(Described)
    /\ \A d \in Draft : d.namespace # "env"
    /\ Service \subseteq Described
    /\ Flags \subseteq Seq(ServiceConfig)
    /\ MaxPort \in Nat \ {0}
    /\ Cluster \subseteq Seq(ClusterPort)
    /\ MaxEdits \in Nat

ASSUME NamesAssumption == {"", "env", "default", "set"} \subseteq STRING

VARIABLES
    files,   \* what is on disk
    env,     \* K8S_NAMESPACE, "" when it is not set
    put,     \* history: the services written into each file, by whichever hand, in order
    edits    \* how many edits commands have made

vars == <<files, env, put, edits>>

(* Names of namespaces: "env" is the value only the environment has. *)
Blank == [written |-> "yaml", extends |-> NoFile, namespace |-> "default",
          key |-> FALSE, keyId |-> FALSE, interval |-> 0, latency |-> 0, jitter |-> 0,
          socks |-> "unset", listen |-> "", services |-> <<>>]

Names(services) == {services[i].name : i \in DOMAIN services}
At(services, n) == {i \in DOMAIN services : services[i].name = n}

(* What a loop appends that goes through s and skips all but some places. *)
Kept(s, at) ==
    LET kept[i \in 0..Len(s)] ==
          IF i = 0 THEN <<>> ELSE IF i \in at THEN Append(kept[i - 1], s[i]) ELSE kept[i - 1]
    IN kept[Len(s)]

Without(services, names) == Kept(services, {i \in DOMAIN services : services[i].name \notin names})

IsMultiPort(s) == s.all \/ s.sel # <<>>

-----------------------------------------------------------------------------
(* MarshalYAML and marshalTOML: what becomes of the ports field on disk. *)
Encoded(s) ==
    [svc |-> [s EXCEPT !.all = FALSE, !.sel = <<>>],
     form |-> CASE s.all -> "all"
                [] ~s.all /\ s.sel = <<>> -> "none"
                [] OTHER -> IF \A i \in DOMAIN s.sel : s.sel[i].port = 0 /\ s.sel[i].local = 0
                            THEN "names" ELSE "list",
     items |-> s.sel]

UnmarshalYAML(e) ==
    LET all == e.form = "all"
    IN [e.svc EXCEPT !.all = all, !.sel = IF all THEN <<>> ELSE e.items]

(* A TOML list with the name "all" in it means all ports, a YAML list does *)
(* not.                                                                    *)
ParsePortsFromRaw(e) ==
    LET every == {i \in DOMAIN e.items : e.form = "names" /\ e.items[i].name = "all"}
    IN IF every = {} THEN UnmarshalYAML(e)
       ELSE [e.svc EXCEPT !.all = TRUE, !.sel = SubSeq(e.items, 1, Min(every) - 1)]

Decoded(e, format) == IF format = "toml" THEN ParsePortsFromRaw(e) ELSE UnmarshalYAML(e)

OnDisk(c) == [c EXCEPT !.services = [i \in DOMAIN c.services |-> Encoded(c.services[i])]]

(* loadRaw: the extension says which parser reads the file. *)
Readable(f) == files[f] # Absent /\ files[f].written = Extension[f]
LoadRaw(f) == [files[f] EXCEPT !.services = [i \in DOMAIN @ |-> Decoded(@[i], Extension[f])]]

(* SaveTo makes up a key_id for an api_key that has none. *)
Saved(c, format) == OnDisk([c EXCEPT !.written = format, !.keyId = @ \/ c.key])

-----------------------------------------------------------------------------
(* merge.go *)
MergeServicesBaseWins(base, override) == base \o Without(override, Names(base))

MergeServices(base, override) ==
    [i \in DOMAIN base |->
        LET same == At(override, base[i].name)
        IN IF same = {} THEN base[i] ELSE override[Max(same)]]
    \o Without(override, Names(base))

MergeConfigs(base, override) ==
    LET First(field, unset) == IF override[field] = unset THEN base[field] ELSE override[field]
    IN [override EXCEPT
          !.extends = NoFile,
          !.namespace = First("namespace", ""),
          !.key = override.key \/ base.key,
          !.keyId = override.keyId \/ base.keyId,
          !.interval = First("interval", 0),
          !.latency = First("latency", 0),
          !.jitter = First("jitter", 0),
          !.socks = First("socks", "unset"),
          !.listen = IF override.socks = "unset" THEN base.listen ELSE override.listen,
          !.services = MergeServices(base.services, override.services)]

(* loadWithInheritance, of a file when others are being visited; Absent     *)
(* stands for the error.                                                   *)
LoadWithInheritance[visiting \in SUBSET File] ==
    [f \in File |->
        IF f \in visiting \/ ~Readable(f) THEN Absent
        ELSE LET child == LoadRaw(f)
                 parent == LoadWithInheritance[visiting \cup {f}][child.extends]
             IN CASE child.extends = NoFile -> child
                  [] child.extends # NoFile /\ parent = Absent -> Absent
                  [] OTHER -> MergeConfigs(parent, child)]

Load(f) ==
    LET c == LoadWithInheritance[{}][f]
    IN IF c = Absent \/ env = "" THEN c ELSE [c EXCEPT !.namespace = env]

-----------------------------------------------------------------------------
(* ValidateService and Validate. *)
ValidateService(s) ==
    IF IsMultiPort(s)
       THEN /\ s.remote = 0 /\ s.local = 0
            /\ s.exclude # {} => s.all
            /\ s.offset >= 0
            /\ \A i \in DOMAIN s.sel : /\ s.sel[i].name # "" \/ s.sel[i].port # 0
                                       /\ {s.sel[i].port, s.sel[i].local} \subseteq 0..MaxPort
       ELSE /\ s.exclude = {} /\ s.offset = 0
            /\ s.local \in 0..MaxPort
            /\ s.remote \in 1..MaxPort

Validate(c) ==
    /\ c.services # <<>>
    /\ \A i \in DOMAIN c.services : ValidateService(c.services[i])
    /\ \A i, k \in DOMAIN c.services :
          LET s == c.services[i]
              t == c.services[k]
          IN i # k /\ ~IsMultiPort(s) /\ ~IsMultiPort(t) /\ s.local # 0 => s.local # t.local
    /\ c.jitter > 0 => c.latency > 0 /\ c.jitter <= c.latency

(* loadConfig: --disable-svc takes services away, then each --svc replaces *)
(* the one of its name or comes last.  buildConfigFromCLI when there is no *)
(* file.                                                                   *)
WithSvc(services, s) ==
    LET same == At(services, s.name)
    IN IF same = {} THEN Append(services, s) ELSE [services EXCEPT ![Min(same)] = s]

WithAll(services, extra) ==
    LET after[k \in 0..Len(extra)] ==
          IF k = 0 THEN services ELSE WithSvc(after[k - 1], extra[k])
    IN after[Len(extra)]

DisabledLast(services, disabled, extra) == Without(WithAll(services, extra), disabled)

Overridden(services, disabled, extra) == WithAll(Without(services, disabled), extra)

LoadConfig(f, disabled, extra) ==
    LET c == Load(f)
        o == IF f = NoFile THEN [Blank EXCEPT !.services = extra]
             ELSE [c EXCEPT !.services = Overridden(@, disabled, extra)]
    IN IF f # NoFile /\ c = Absent THEN Absent ELSE IF Validate(o) THEN o ELSE Absent

-----------------------------------------------------------------------------
(* resolveServicePorts and resolvePodPorts; the empty sequence stands for  *)
(* the error.  A selector that a service does not have is an error, one    *)
(* that a pod does not have is not.                                        *)
Matches(sel, p) == (sel.name # "" /\ p.name = sel.name) \/ (sel.port # 0 /\ p.port = sel.port)

ComputeLocalPort(s, p) ==
    LET named == {i \in DOMAIN s.sel : s.sel[i].name # "" /\ s.sel[i].name = p.name}
        override == IF named = {} THEN 0 ELSE s.sel[Max(named)].local
    IN CASE override # 0 -> override
         [] override = 0 /\ s.offset > 0 -> p.port + s.offset
         [] OTHER -> 0

Chosen(s, ports) ==
    LET Hits(i) == {k \in DOMAIN ports : Matches(s.sel[i], ports[k])}
    IN CASE s.all -> ports
         [] ~s.all /\ s.pod -> Kept(ports, UNION {Hits(i) : i \in DOMAIN s.sel})
         [] OTHER -> IF \E i \in DOMAIN s.sel : Hits(i) = {} THEN <<>>
                     ELSE [i \in DOMAIN s.sel |-> ports[Min(Hits(i))]]

ResolvePortsUnchecked(s, ports) ==
    LET kept == Without(Chosen(s, ports), s.exclude)
    IN [i \in DOMAIN kept |-> [name |-> kept[i].name, remote |-> kept[i].port,
                               local |-> ComputeLocalPort(s, kept[i])]]

ResolvePorts(s, ports) ==
    LET kept == Without(Chosen(s, ports), s.exclude)
        resolved == [i \in DOMAIN kept |-> [name |-> kept[i].name, remote |-> kept[i].port,
                                            local |-> ComputeLocalPort(s, kept[i])]]
    IN IF \A i \in DOMAIN resolved : resolved[i].local <= MaxPort THEN resolved ELSE <<>>

-----------------------------------------------------------------------------
Init ==
    /\ files = [f \in File |-> Absent]
    /\ env = ""
    /\ put = [f \in File |-> <<>>]
    /\ edits = 0

(* Users edit the files and the environment. *)
UserWrites(f) ==
    /\ \E d \in Draft :
          /\ files' = [files EXCEPT ![f] = OnDisk([d EXCEPT !.written = Extension[f]])]
          /\ put' = [put EXCEPT ![f] = d.services]
    /\ UNCHANGED <<env, edits>>

SetEnvironment ==
    /\ env' \in {"", "env"} \ {env}
    /\ UNCHANGED <<files, put, edits>>

(* config init, in the format that is asked for, whatever the extension. *)
ConfigInit(f) ==
    /\ files[f] = Absent
    /\ \E format \in {"yaml", "toml"} : files' = [files EXCEPT ![f] = Saved(Blank, format)]
    /\ UNCHANGED <<env, put, edits>>

(* LoadForEdit and Save around each edit: what is inherited, or comes from *)
(* the environment, stays out of the file.                                 *)
LoadForEditMerged(f) == IF Load(f) = Absent THEN LoadRaw(f) ELSE Load(f)
LoadForEdit(f) == LoadRaw(f)

Edit(f, c) ==
    /\ edits < MaxEdits
    /\ edits' = edits + 1
    /\ files' = [files EXCEPT ![f] = Saved(c, Extension[f])]

ConfigSet(f) ==
    /\ Readable(f)
    /\ Edit(f, [LoadForEdit(f) EXCEPT !.namespace = "set"])
    /\ UNCHANGED <<env, put>>

ConfigAdd(f, s) ==
    /\ Readable(f)
    /\ s.name \notin Names(LoadForEdit(f).services)
    /\ Edit(f, [LoadForEdit(f) EXCEPT !.services = Append(@, s)])
    /\ put' = [put EXCEPT ![f] = Append(@, s)]
    /\ UNCHANGED env

ConfigRemove(f, n) ==
    /\ Readable(f)
    /\ n \in Names(LoadForEdit(f).services)
    /\ LET services == LoadForEdit(f).services
           at == Min(At(services, n))
       IN /\ Edit(f, [LoadForEdit(f) EXCEPT !.services = RemoveAt(@, at)])
          /\ put' = [put EXCEPT ![f] = RemoveAt(@, at)]
    /\ UNCHANGED env

Next ==
    \/ SetEnvironment
    \/ \E f \in File :
          \/ UserWrites(f)
          \/ ConfigInit(f)
          \/ ConfigSet(f)
          \/ \E s \in Service : ConfigAdd(f, s)
          \/ \E s \in Service : ConfigRemove(f, s.name)

Spec == Init /\ [][Next]_vars

-----------------------------------------------------------------------------
(* In TOML a list that names a port "all" reads back as all ports.         *)
Garbled(s, format) == format = "toml" /\ ~s.all /\ \E i \in DOMAIN s.sel : s.sel[i].name = "all"

(* A file holds what was put into it and nothing else: the environment and *)
(* the files it extends never leak into it through an edit (config.go      *)
(* LoadForEdit), and each service stays in its place and reads back as it  *)
(* was written, whatever form its ports take in either format.             *)
OnlyOwnSettings ==
    \A f \in File : Readable(f) =>
        LET services == LoadRaw(f).services
        IN /\ files[f].namespace # "env"
           /\ DOMAIN services = DOMAIN put[f]
           /\ \A i \in DOMAIN services : ~Garbled(put[f][i], Extension[f]) => services[i] = put[f][i]

(* The way up from a file: each file extends the next, and the last none.  *)
IsWayUp(path, f) ==
    /\ path[1] = f
    /\ \A i \in DOMAIN path :
          /\ Readable(path[i])
          /\ files[path[i]].extends = IF i = Len(path) THEN NoFile ELSE path[i + 1]

WaysUp(f) ==
    {path \in UNION {[1..n -> File] : n \in 1..Cardinality(File)} : IsWayUp(path, f)}

(* The nearest file along a path among those at some of its places. *)
Nearest(path, at) == LoadRaw(path[IF at = {} THEN Len(path) ELSE Min(at)])

(* The nearest value of a field along a path. *)
Inherited(path, field, unset) ==
    Nearest(path, {i \in DOMAIN path : LoadRaw(path[i])[field] # unset})[field]

Having(path, n) == {i \in DOMAIN path : n \in Names(LoadRaw(path[i]).services)}

(* Load (config.go, merge.go) succeeds exactly when no file is missing,    *)
(* unreadable or met twice on the way up, and then every setting is that   *)
(* of the nearest file that has it: each service, each scalar, each field  *)
(* of network, and the proxy section as a whole.  The environment wins.    *)
LoadNearestWins ==
    \A f \in File :
        /\ Load(f) # Absent <=> WaysUp(f) # {}
        /\ \A path \in WaysUp(f) :
              LET c == Load(f)
                  proxy == Nearest(path, {i \in DOMAIN path : LoadRaw(path[i]).socks # "unset"})
              IN /\ c.namespace = IF env # "" THEN env ELSE Inherited(path, "namespace", "")
                 /\ \A field \in {"interval", "latency", "jitter"} : c[field] = Inherited(path, field, 0)
                 /\ \A field \in {"key", "keyId"} : c[field] = Inherited(path, field, FALSE)
                 /\ <<c.socks, c.listen>> = <<proxy.socks, proxy.listen>>
                 /\ Names(c.services) = UNION {Names(LoadRaw(path[i]).services) : i \in DOMAIN path}
                 /\ \A i \in DOMAIN c.services :
                       LET d == Nearest(path, Having(path, c.services[i].name))
                       IN \E k \in DOMAIN d.services : d.services[k] = c.services[i]

Twice(services, n) == \E i, k \in At(services, n) : i # k

(* What the command line asks for is what is started: a service it adds is *)
(* there as it was last described, even one that is also disabled, every   *)
(* other one that is disabled is gone, and the rest is as in the file      *)
(* (cli.go loadConfig).  Nothing of the file goes by the name of a service *)
(* that was added, unless the file has two of that name.                   *)
FlagsApplied ==
    \A f \in File, disabled \in SUBSET {s.name : s \in Service}, extra \in Flags :
        LET c == LoadConfig(f, disabled, extra)
        IN c # Absent =>
             LET got == {c.services[i] : i \in DOMAIN c.services}
                 inFile == Load(f).services
                 asked == {extra[Max(At(extra, n))] : n \in Names(extra)}
             IN /\ asked \subseteq got
                /\ \A s \in got : s.name \in Names(extra) => s \in asked \/ Twice(inFile, s.name)
                /\ {s \in got : s.name \notin Names(extra)}
                      = {inFile[i] : i \in {k \in DOMAIN inFile : inFile[k].name \notin disabled \cup Names(extra)}}

Multi == {s \in UNION {{put[f][i] : i \in DOMAIN put[f]} : f \in File} : IsMultiPort(s) /\ ValidateService(s)}

(* No selector matches two of the ports. *)
Sharp(s, ports) ==
    \A i \in DOMAIN s.sel : \A k, m \in DOMAIN ports :
        Matches(s.sel[i], ports[k]) /\ Matches(s.sel[i], ports[m]) => ports[k] = ports[m]

(* A multi-port service that resolves (manager.go resolveServicePorts) has *)
(* only ports it selects and does not exclude, all of them unless one      *)
(* selector matches two, and each selector of a service among them, on     *)
(* local ports that exist, and on the one asked for where a selector names *)
(* a port and a local port and no later one names it again.                *)
ExpansionExact ==
    \A s \in Multi, ports \in Cluster :
        LET r == ResolvePorts(s, ports)
            got == {[name |-> r[i].name, port |-> r[i].remote] : i \in DOMAIN r}
            want == {p \in {ports[i] : i \in DOMAIN ports} :
                        /\ s.all \/ \E i \in DOMAIN s.sel : Matches(s.sel[i], p)
                        /\ p.name \notin s.exclude}
        IN r # <<>> =>
             /\ got \subseteq want
             /\ s.all \/ s.pod \/ Sharp(s, ports) => got = want
             /\ \A k \in DOMAIN s.sel : s.pod \/ \E p \in got : Matches(s.sel[k], p)
             /\ \A i \in DOMAIN r : r[i].local \in 0..MaxPort
             /\ \A i \in DOMAIN r, k \in DOMAIN s.sel :
                    /\ s.sel[k].name = r[i].name /\ s.sel[k].name # "" /\ s.sel[k].local # 0
                    /\ \A m \in DOMAIN s.sel : m > k => s.sel[m].name # s.sel[k].name
                    => r[i].local = s.sel[k].local
=============================================================================
