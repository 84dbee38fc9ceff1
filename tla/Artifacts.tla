------------------------------ MODULE Artifacts ------------------------------
(***************************************************************************)
(* The commands of `khoai' that write files: build and update of a network *)
(* of organizations, package, install, and build in the workspace that     *)
(* install leaves (cmd/khoai, internal/config/generate.go, install.sh).    *)
(* A command is a sequence of writes, one per step; it may stop after any  *)
(* of them (a crash, a full disk, a failed download), and the write under  *)
(* way may leave its file torn.  Nothing is rolled back: the next command  *)
(* starts from what is on the disk.  Commands run one at a time, but the   *)
(* operator may edit khoai-config.yaml, and releases may appear, at any    *)
(* moment: each reading of either finds any value it may have by then.     *)
(* Paths are sequences of names; a file's content is a tuple headed by its *)
(* kind.  Directories are kept only where the code asks for one (nodes/x). *)
(***************************************************************************)
EXTENDS Naturals, Sequences, FiniteSets, SequencesExt

CONSTANTS Networks,    \* what khoai-config.yaml may hold: a record of `orgs',
                       \* a sequence of [name, nodes], and `codes', a sequence
                       \* of [base, contract]; a node is [id, port]
          Dir,         \* sanitize: display names to directory names
          Packaged,    \* the organizations that are packaged and installed
          Service,     \* a directory name and a node id, joined by a dash
          NewNode,     \* the node an operator adds to an installed workspace
          NewCodes,    \* and the chaincodes
          MaxRelease,  \* bound: releases of the source
          MaxCommands, \* bounds: the commands of each kind
          MaxTotal,    \* bound: all the commands of a behaviour
          MaxCuts      \* bound: commands that are cut short

Kinds == {"build", "update", "extract", "workspace"}
Dirs == {Dir[name] : name \in DOMAIN Dir}
NoName == "none"

Nodes == {NewNode} \cup UNION {UNION {ToSet(o.nodes) : o \in ToSet(c.orgs)} : c \in Networks}
Codes == ToSet(NewCodes) \cup UNION {ToSet(c.codes) : c \in Networks}
Orgs == [name : DOMAIN Dir, nodes : Seq(Nodes)]

ASSUME ArtifactsAssumption ==
    /\ Networks \subseteq [orgs : Seq(Orgs) \ {<<>>}, codes : Seq(Codes)]
    /\ NewCodes \in Seq(Codes)
    /\ Packaged \subseteq Dirs
    /\ MaxRelease \in Nat \ {0} /\ {MaxCuts, MaxTotal} \subseteq Nat /\ MaxCommands \in [Kinds -> Nat]
    /\ {"build", NoName} \cap Dirs = {}

VARIABLES latest,     \* the newest release seen so far
          disk,       \* the files under build/ and in each installed workspace
          command,    \* the running command and the writes it still has to do
          packages,   \* dist/: packages by organization and version
          commands,   \* the commands begun so far
          cuts,       \* the commands cut short so far
          built,      \* history: the network and version of the last command
                      \* if it was a build that succeeded (or came after one)
          installed,  \* history: the package, just after an install succeeded
          current     \* history: the workspace whose build just succeeded

vars == <<latest, disk, command, packages, commands, cuts, built, installed, current>>
history == <<built, installed, current>>

Idle == [kind |-> "idle"]
Nothing == [kind |-> "nothing"]

Torn == <<"torn">>      \* cut short, perhaps empty
Folder == <<"folder">>
Gone == <<"gone">>      \* not a content: the path is to be removed
Put(path, content) == [at |-> path, put |-> content]

Under(files, path) == {p \in DOMAIN files : IsPrefix(path, p)}

Entered(map, key, value) == [k \in DOMAIN map \cup {key} |-> IF k = key THEN value ELSE map[k]]

Written(files, w) ==
    IF w.put = Gone
    THEN Restrict(files, DOMAIN files \ Under(files, w.at))
    ELSE Entered(files, w.at, w.put)

(* What the generator computes from a configuration.                       *)

Distinct(seq, Field(_)) == IsInjective([i \in DOMAIN seq |-> Field(seq[i])])

Valid(cfg) ==
    /\ Distinct(cfg.orgs, LAMBDA o : o.name)
    /\ \A o \in ToSet(cfg.orgs) : Distinct(o.nodes, LAMBDA n : n.id)

Members(cfg) ==
    FlattenSeq([i \in DOMAIN cfg.orgs |->
        [j \in DOMAIN cfg.orgs[i].nodes |->
            [org |-> cfg.orgs[i], node |-> cfg.orgs[i].nodes[j]]]])

Address(m) == <<Service[Dir[m.org.name]][m.node.id], m.node.port>>

Peers(cfg, me) ==
    LET all == Members(cfg)
        Same(m) == m.node.id = me.node.id /\ m.org.name = me.org.name
    IN  FlattenSeq([i \in DOMAIN all |-> IF Same(all[i]) THEN <<>> ELSE <<Address(all[i])>>])

\* config.yaml, main.go and Dockerfile, which copies the two from `home'
NodeFiles(home, me, peers) ==
    << Put(home, Folder),
       Put(home \o <<"config">>,
           <<"config", [org |-> me.org.name, id |-> me.node.id, address |-> Address(me),
                        listen |-> me.node.port, peers |-> peers]>>),
       Put(home \o <<"main">>, <<"main">>),
       Put(home \o <<"image">>, <<"image", home, me.node.port>>) >>

OrgHome(org) == <<"orgs", Dir[org.name]>>
NodeHome(me) == OrgHome(me.org) \o <<"nodes", me.node.id>>

\* mutant: the same half of the pair in both files
IdentityOneHalf(home, key) ==
    << Put(home \o <<"private">>, <<"private", key>>),
       Put(home \o <<"public">>, <<"private", key>>) >>

Identity(home, key) ==
    << Put(home \o <<"private">>, <<"private", key>>),
       Put(home \o <<"public">>, <<"public", key>>) >>

\* the khoai-config.yaml of a workspace starts without chaincodes
OrgFiles(org, cfg, key, version) ==
    Identity(OrgHome(org), key)
    \o << Put(OrgHome(org) \o <<"org">>, <<"org", org>>),
          Put(OrgHome(org) \o <<"version">>, version),
          Put(OrgHome(org) \o <<"network">>, <<"network", <<>>>>) >>
    \o FlattenSeq([j \in DOMAIN org.nodes |->
           LET me == [org |-> org, node |-> org.nodes[j]]
           IN  NodeFiles(NodeHome(me), me, Peers(cfg, me))])

Contracts(codes) ==
    [i \in DOMAIN codes |-> Put(<<"chaincodes", codes[i].base>>, <<"code", codes[i]>>)]
    \o << Put(<<"abi">>, <<"abi", {c.contract : c \in ToSet(codes)}>>) >>

Compose(cfg) ==
    LET all == Members(cfg)
    IN  Put(<<"compose">>, <<"compose", [i \in DOMAIN all |->
            [address |-> Address(all[i]), home |-> NodeHome(all[i])]]>>)

\* without a chaincode GenContract fails after the organizations are written
Generated(cfg, draw, version) ==
    FlattenSeq([i \in DOMAIN cfg.orgs |-> OrgFiles(cfg.orgs[i], cfg, <<draw, i>>, version)])
    \o IF cfg.codes = <<>> THEN <<>> ELSE Contracts(cfg.codes) \o <<Compose(cfg)>>

\* findNodeInternalAddressByEndpoint: the first node with the port
Lookup(cfg, port) ==
    LET all == Members(cfg)
        hit == SelectInSeq(all, LAMBDA m : m.node.port = port)
    IN  IF hit = 0 THEN <<>> ELSE Address(all[hit])

\* mutant: the old archives stay
DownloadBeside(version) ==
    << Put(<<"version">>, <<"version", version>>),
       Put(<<"dist", version>>, <<"source", version>>) >>

\* install.sh
Download(version) ==
    << Put(<<"dist">>, Gone),
       Put(<<"version">>, <<"version", version>>),
       Put(<<"dist", version>>, <<"source", version>>) >>
-----------------------------------------------------------------------------
Init ==
    /\ latest = 1
    /\ disk = [root \in {"build"} \cup Packaged |-> <<>>]
    /\ command = Idle
    /\ packages = <<>>
    /\ cuts = 0
    /\ commands = [kind \in Kinds |-> 0]
    /\ built = Nothing /\ installed = Nothing
    /\ current = NoName

Begin(kind, root, todo, package) ==
    /\ command = Idle
    /\ commands[kind] < MaxCommands[kind]
    /\ FoldFunction(+, 0, commands) < MaxTotal
    /\ commands' = [commands EXCEPT ![kind] = @ + 1]
    /\ command' = [kind |-> kind, stage |-> "source", root |-> root, todo |-> todo,
                   package |-> package]
    /\ installed' = Nothing
    /\ current' = NoName
    /\ UNCHANGED <<disk, packages, cuts>>

\* the commands that download the latest release
BeginLatest(kind, root) ==
    \E release \in latest..MaxRelease :
        /\ latest' = release
        /\ Begin(kind, root, Download(release), Nothing)

\* isWorkspaceOrganizations reads khoai-config.yaml first
Build ==
    /\ \E cfg \in Networks : Valid(cfg)
    /\ BeginLatest("build", "build")
    /\ built' = Nothing

Update ==
    /\ \E cfg \in Networks : Valid(cfg)
    /\ BeginLatest("update", "build")
    /\ UNCHANGED built

Step ==
    /\ command # Idle
    /\ command.todo # <<>>
    /\ disk' = [disk EXCEPT ![command.root] = Written(@, Head(command.todo))]
    /\ command' = [command EXCEPT !.todo = Tail(@)]
    /\ UNCHANGED <<latest, packages, commands, cuts, history>>

Cut ==
    /\ cuts < MaxCuts
    /\ cuts' = cuts + 1

\* reading the package fails somewhere
Broken == command.kind = "extract" /\ ~command.package.whole

Interrupt ==
    /\ command # Idle
    /\ IF Broken THEN UNCHANGED cuts ELSE Cut
    /\ command' = Idle
    /\ \/ UNCHANGED disk
       \/ /\ command.todo # <<>>
          /\ Head(command.todo).put \notin {Gone, Folder}
          /\ disk' = [disk EXCEPT ![command.root] =
                         Written(@, [Head(command.todo) EXCEPT !.put = Torn])]
    /\ UNCHANGED <<latest, packages, commands, history>>

Through(stage) ==  \* nothing left to write in this stage
    /\ command # Idle
    /\ command.stage = stage
    /\ command.todo = <<>>

\* mutant: a file already on the disk is not written again
LoadSkipping ==
    /\ Through("source")
    /\ command.kind = "build"
    /\ \E cfg \in Networks :
          /\ Valid(cfg)
          /\ command' = [command EXCEPT !.stage = "generate", !.package = cfg,
                 !.todo = SelectSeq(Generated(cfg, commands["build"], disk["build"][<<"version">>]),
                              LAMBDA w : w.at \notin DOMAIN disk["build"])]
    /\ UNCHANGED <<latest, disk, packages, commands, cuts, history>>

\* generateArtifacts reads khoai-config.yaml again, after the download
Load ==
    /\ Through("source")
    /\ command.kind = "build"
    /\ \E cfg \in Networks :
          command' = IF Valid(cfg)
                     THEN [command EXCEPT !.stage = "generate", !.package = cfg,
                              !.todo = Generated(cfg, commands["build"], disk["build"][<<"version">>])]
                     ELSE Idle
    /\ UNCHANGED <<latest, disk, packages, commands, cuts, history>>

FinishBuild ==
    /\ Through("generate")
    /\ command.kind = "build"
    /\ command' = Idle
    /\ built' = IF command.package.codes = <<>> THEN Nothing
                ELSE [network |-> command.package, version |-> disk["build"][<<"version">>]]
    /\ UNCHANGED <<latest, disk, packages, commands, cuts, installed, current>>

FinishUpdate ==
    /\ Through("source")
    /\ command.kind = "update"
    /\ command' = Idle
    /\ UNCHANGED <<latest, disk, packages, commands, cuts, history>>

\* the archive of organizations/d; when it is not whole, reading it fails
Package(d) ==
    LET home == <<"orgs", d>>
        inside == Under(disk["build"], home)
        short == {SubSeq(p, 3, Len(p)) : p \in inside}
        files == [p \in short |-> disk["build"][home \o p]]
    IN  /\ command = Idle
        /\ <<"version">> \in short
        /\ \E whole \in BOOLEAN :
              /\ IF whole THEN UNCHANGED cuts ELSE Cut
              /\ packages' = Entered(packages, <<d, files[<<"version">>]>>,
                               [dir |-> d, files |-> files, whole |-> whole, from |-> built])
        /\ UNCHANGED <<latest, disk, command, commands, history>>

\* filepath.Walk: a directory before what it holds, organization.yaml last
NextOf(rest) ==
    CHOOSE p \in rest : \A q \in rest \ {p} : p # <<"org">> /\ ~IsPrefix(q, p)

Walk(paths) ==
    LET visited[n \in 0..Cardinality(paths)] ==
            IF n = 0 THEN <<>>
            ELSE LET before == visited[n - 1]
                 IN  Append(before, NextOf(paths \ ToSet(before)))
    IN  visited[Cardinality(paths)]

Extracted(package) ==
    LET paths == Walk(DOMAIN package.files)
    IN  [i \in DOMAIN paths |-> Put(paths[i], package.files[paths[i]])]

Install(key) ==
    /\ Begin("extract", packages[key].dir, Extracted(packages[key]), packages[key])
    /\ UNCHANGED <<latest, built>>

\* mutant: install takes the newest release
FetchLatest ==
    /\ Through("source")
    /\ command.kind = "extract"
    /\ command.package.whole
    /\ command' = [command EXCEPT !.kind = "install", !.todo = Download(latest)]
    /\ UNCHANGED <<latest, disk, packages, commands, cuts, history>>

\* the version comes from the workspace; a torn one is no release, which
\* shows when it is empty, or when its archive is asked for
Fetch ==
    /\ Through("source")
    /\ command.kind = "extract"
    /\ command.package.whole
    /\ LET version == disk[command.root][<<"version">>]
       IN  \/ /\ version # Torn
              /\ command' = [command EXCEPT !.kind = "install", !.todo = Download(version[2])]
              /\ UNCHANGED disk
           \/ /\ version = Torn
              /\ command' = Idle
              /\ \/ UNCHANGED disk
                 \/ disk' = [disk EXCEPT ![command.root] = Written(@, Put(<<"dist">>, Gone))]
    /\ UNCHANGED <<latest, packages, commands, cuts, history>>

FinishInstall ==
    /\ Through("source")
    /\ command.kind = "install"
    /\ command' = Idle
    /\ installed' = command.package
    /\ UNCHANGED <<latest, disk, packages, commands, cuts, built, current>>

\* an installed organization: a node more, or the chaincodes it lacks; nobody
\* edits what is being extracted, and a build reads these files only once, so
\* that an edit during it is one before or after it
EditWorkspace(d) ==
    /\ command = Idle
    /\ \/ /\ <<"org">> \in DOMAIN disk[d] /\ disk[d][<<"org">>] # Torn
          /\ LET org == disk[d][<<"org">>][2]
             IN  /\ NewNode \notin ToSet(org.nodes)
                 /\ disk' = [disk EXCEPT ![d] = Written(@, Put(<<"org">>,
                        <<"org", [org EXCEPT !.nodes = Append(@, NewNode)]>>))]
       \/ /\ <<"network">> \in DOMAIN disk[d] /\ disk[d][<<"network">>] = <<"network", <<>>>>
          /\ disk' = [disk EXCEPT ![d] = Written(@, Put(<<"network">>, <<"network", NewCodes>>))]
    /\ installed' = Nothing
    /\ current' = NoName
    /\ UNCHANGED <<latest, command, packages, commands, cuts, built>>

BuildWorkspace(d) ==
    /\ DOMAIN disk[d] # {}
    /\ BeginLatest("workspace", d)
    /\ UNCHANGED built

\* mutant: every node is generated anew (force)
MissingForced(files, org) ==
    FlattenSeq([i \in DOMAIN org.nodes |->
        NodeFiles(<<"nodes", org.nodes[i].id>>, [org |-> org, node |-> org.nodes[i]], <<>>)])

\* a node whose directory exists is skipped, whatever the directory holds
Missing(files, org) ==
    LET Home(i) == <<"nodes", org.nodes[i].id>>
        Exists(i) == Home(i) \in DOMAIN files \cup {Home(j) : j \in 1..(i - 1)}
    IN  FlattenSeq([i \in DOMAIN org.nodes |->
            IF Exists(i) THEN <<>>
            ELSE NodeFiles(Home(i), [org |-> org, node |-> org.nodes[i]], <<>>)])

\* khoai-config.yaml has defaults, which name no chaincode; a torn file that
\* still parses holds nothing
LoadWorkspace ==
    LET files == disk[command.root]
        org == files[<<"org">>]
        known == <<"network">> \in DOMAIN files /\ files[<<"network">>] # Torn
        codes == IF known THEN files[<<"network">>][2] ELSE <<>>
    IN  /\ Through("source")
        /\ command.kind = "workspace"
        /\ <<"org">> \in DOMAIN files
        /\ command' = [command EXCEPT !.stage = "generate", !.package = [codes |-> codes],
               !.todo = (IF org = Torn THEN <<>> ELSE Missing(files, org[2]))
                        \o (IF codes = <<>> THEN <<>> ELSE Contracts(codes))]
        /\ UNCHANGED <<latest, disk, packages, commands, cuts, history>>

\* organization.yaml must be there, and what is there of both files must parse,
\* which a torn one need not: the command ends with an error
LoadWorkspaceFails ==
    LET files == disk[command.root]
    IN  /\ Through("source")
        /\ command.kind = "workspace"
        /\ \/ <<"org">> \notin DOMAIN files
           \/ \E p \in {<<"org">>, <<"network">>} \cap DOMAIN files : files[p] = Torn
        /\ command' = Idle
        /\ UNCHANGED <<latest, disk, packages, commands, cuts, history>>

FinishWorkspace ==
    /\ Through("generate")
    /\ command.kind = "workspace"
    /\ command' = Idle
    /\ current' = IF command.package.codes = <<>> THEN NoName ELSE command.root
    /\ UNCHANGED <<latest, disk, packages, commands, cuts, built, installed>>

Next ==
    \/ Build \/ Update \/ Step \/ Interrupt \/ Load \/ FinishBuild \/ FinishUpdate
    \/ \E d \in Packaged : Package(d) \/ EditWorkspace(d) \/ BuildWorkspace(d)
    \/ \E key \in DOMAIN packages : Install(key)
    \/ Fetch \/ FinishInstall \/ LoadWorkspace \/ LoadWorkspaceFails \/ FinishWorkspace

Spec == Init /\ [][Next]_vars
-----------------------------------------------------------------------------
Kind(path) ==
    CASE path[1] = "dist" -> "source"
      [] path[1] = "chaincodes" -> "code"
      [] <<path[1], Len(path)>> \in {<<"nodes", 2>>, <<"orgs", 4>>} -> "folder"
      [] OTHER -> Last(path)

Files(files) ==
    \A p \in DOMAIN files : files[p] = Torn \/ files[p][1] = Kind(p)

(* Every file holds what its name says, or is torn: no step writes the     *)
(* content of one file under the path of another.                          *)
TypeOK ==
    /\ latest \in 1..MaxRelease /\ commands \in [Kinds -> Nat] /\ cuts \in 0..MaxCuts
    /\ DOMAIN disk = {"build"} \cup Packaged
    /\ \A root \in DOMAIN disk : Files(disk[root])
    /\ command # Idle =>
           /\ command.kind \in Kinds \cup {"install"}
           /\ command.stage \in {"source", "generate"}
           /\ command.root \in DOMAIN disk
    /\ \A key \in DOMAIN packages : key[1] \in Packaged /\ Files(packages[key].files)
    /\ current \in Packaged \cup {NoName}

NodeWhole(files, home, me, peers, from) ==
    /\ files[home] = Folder
    /\ files[home \o <<"config">>] = <<"config",
           [org |-> me.org.name, id |-> me.node.id, address |-> Address(me),
            listen |-> me.node.port, peers |-> peers]>>
    /\ files[home \o <<"main">>] = <<"main">>
    /\ files[home \o <<"image">>] = <<"image", from, me.node.port>>

OrgWhole(files, home, org, cfg, version) ==
    /\ files[home \o <<"org">>] = <<"org", org>>
    /\ files[home \o <<"version">>] = version
    /\ files[home \o <<"private">>] # Torn
    /\ files[home \o <<"public">>] = <<"public", files[home \o <<"private">>][2]>>
    /\ \A node \in ToSet(org.nodes) :
           LET me == [org |-> org, node |-> node]
           IN  NodeWhole(files, home \o <<"nodes", node.id>>, me, Peers(cfg, me), NodeHome(me))

(* A node is known by one address everywhere: the one it advertises is in  *)
(* the peer list of every other node and not in its own, is the name and   *)
(* the port of its service in the compose file, and is what the peer       *)
(* commands look up in the same khoai-config.yaml by the port              *)
(* (GenerateNodeArtifacts, GenerateDockerCompose,                          *)
(* findNodeInternalAddressByEndpoint).                                     *)
AddressesAgree(files, cfg) ==
    LET all == ToSet(Members(cfg))
        Of(m) == files[NodeHome(m) \o <<"config">>][2]
    IN  \A m \in all :
            /\ {x \in all : Of(m).address \in ToSet(Of(x).peers)} = all \ {m}
            /\ \E s \in ToSet(files[<<"compose">>][2]) :
                   /\ s.address = Of(m).address /\ s.home = NodeHome(m)
                   /\ s.address[2] = Of(m).listen
            /\ Lookup(cfg, m.node.port) = Of(m).address

(* When `khoai build' succeeds, the build directory holds the network that *)
(* was read, whole and of one version, whatever earlier commands that were *)
(* cut short, or edits under way, had left: each organization with the two *)
(* halves of one key pair, each node with its three files, every chaincode *)
(* and its ABI, a compose file with exactly these nodes, and addresses that *)
(* agree (generateArtifacts, GenerateOrganizationArtifacts).               *)
BuiltWhole ==
    built # Nothing =>
        LET files == disk["build"]
            cfg == built.network
        IN  /\ \A org \in ToSet(cfg.orgs) : OrgWhole(files, OrgHome(org), org, cfg, built.version)
            /\ Torn \notin {files[<<"abi">>], files[<<"compose">>]}
            /\ \A c \in ToSet(cfg.codes) :
                   /\ files[<<"chaincodes", c.base>>] = <<"code", c>>
                   /\ c.contract \in files[<<"abi">>][2]
            /\ {s.home : s \in ToSet(files[<<"compose">>][2])} = {NodeHome(m) : m \in ToSet(Members(cfg))}
            /\ AddressesAgree(files, cfg)

Sources(files) == {p[2] : p \in {q \in DOMAIN files : q[1] = "dist"}}

(* The Dockerfiles copy dist/khoai-src-*.zip: at every moment, in the      *)
(* middle of a download and after one that failed, build/dist holds no     *)
(* archive but that of the release build/.version names (install.sh).      *)
SourceNamed ==
    \A v \in Sources(disk["build"]) : disk["build"][<<"version">>] = <<"version", v>>

(* An install that succeeds leaves the source of exactly the release the   *)
(* package was built with, however many releases came since; and if the    *)
(* package was made from a build that had succeeded, an organization that  *)
(* is whole, whatever an earlier install had left in its place             *)
(* (packageOrganization, installOrganization).                             *)
InstalledWhole ==
    installed # Nothing =>
        LET files == disk[installed.dir]
        IN  /\ \A p \in DOMAIN installed.files : files[p] = installed.files[p]
            /\ {<<"version", v>> : v \in Sources(files)} = {files[<<"version">>]}
            /\ installed.from # Nothing =>
                   \A org \in ToSet(installed.from.network.orgs) :
                       Dir[org.name] = installed.dir =>
                           OrgWhole(files, <<>>, org, installed.from.network, installed.from.version)

Precious(path) == path[1] = "nodes" \/ path \in {<<"private">>, <<"public">>}

(* Building a workspace never changes the identity of its organization or  *)
(* a file of a node it has, whose config.yaml lists the peers of the       *)
(* network (generateWorkspaceNodeArtifacts).                               *)
KeepsNodes ==
    [][\A d \in Packaged :
          (command # Idle /\ command.kind = "workspace" /\ command.root = d) =>
              \A p \in DOMAIN disk[d] :
                  Precious(p) => p \in DOMAIN disk'[d] /\ disk'[d][p] = disk[d][p]]_vars

(* "All nodes are up-to-date" (cmd_workspace.go:78): when the build of a   *)
(* workspace succeeds, every node of organization.yaml has its files.      *)
UpToDate ==
    current # NoName =>
        LET files == disk[current]
        IN  files[<<"org">>] # Torn =>
                \A n \in ToSet(files[<<"org">>][2].nodes) : \A f \in {"config", "main", "image"} :
                    LET p == <<"nodes", n.id, f>>
                    IN  p \in DOMAIN files /\ files[p] # Torn
=============================================================================
