------------------------------ MODULE Installer ------------------------------
(***************************************************************************)
(* ida-fusion-mcp --install and --uninstall (__main__.py): the plugin      *)
(* loader, ida-config.json and the configurations of the MCP clients.      *)
(*                                                                         *)
(* A configuration holds what its client's user put there and, under the   *)
(* section a client reads, MCP servers: ours as this version writes it, as *)
(* another one wrote it or with arguments of the user's own, and the names *)
(* of older versions.  Every configuration is read, changed in memory and  *)
(* replaced; three clients share one file.  Clients write their            *)
(* configurations at any time, any step may fail, and the command may die  *)
(* between two steps.                                                      *)
(***************************************************************************)
EXTENDS Naturals, Sequences, FiniteSets, SequencesExt

CONSTANTS
    Client,        \* sequence of clients, in the order of the table
    File,          \* their configurations, and ida-config.json
    FileOf,        \* Client -> File
    SectionOf,     \* Client -> the section it has its servers in
    Extensions,    \* clients that are extensions of another one
    IdaConfig,     \* ida-config.json
    MaxEdits,      \* bound: changes by clients and their users
    MaxRuns,       \* bound: commands
    None,
    Bad            \* a file without JSON or TOML, or without a mapping where the
                   \* servers belong

Clients == ToSet(Client)
Sections == {SectionOf[c] : c \in Clients}

\* Our entry, of which a section has one: the one an installation would write, or
\* any other, such as an older one or one its user gave arguments.  Then those of
\* older names.
Named == {"current", "other"}
Ours  == Named \cup {"legacy"}
Loaders == {"loader", "old name", "older name"}

ASSUME InstallerAssumption ==
    /\ FileOf \in [Clients -> File \ {IdaConfig}] /\ IdaConfig \in File \ Clients
    /\ Extensions \subseteq Clients
    /\ {MaxEdits, MaxRuns} \subseteq Nat

\* The table of every platform names a client once; a client whose file a later
\* one has too is an extension (Augment Code and Qodo Gen come before VS Code).
ASSUME TableAssumption ==
    /\ Client \in Seq(Clients)
    /\ \A i, j \in DOMAIN Client : i # j => Client[i] # Client[j]
    /\ \A i, j \in DOMAIN Client :
          i < j /\ FileOf[Client[i]] = FileOf[Client[j]] => Client[i] \in Extensions

VARIABLES
    config,        \* each configuration: None, Bad or its content
    marked,        \* clients with an install marker
    loaders,       \* plugin loaders in IDA's plugins directory
    cmd,           \* the command that runs, or None
    explicit,      \* --ida-dir was given
    at,            \* where it is
    todo,          \* clients it has not come to
    memory,        \* the configuration it has read and changed, or None
    failures,      \* the clients it said it failed for: config_failures
    result,        \* the last command and how it ended: "ok" (exit code 0),
                   \* "failed" (1), "raised" or "died"
    runs, edits,
    touched        \* history: clients whose configuration others wrote since the
                   \* command looked at it, and IdaConfig if they wrote that

work == <<cmd, explicit, at, todo, memory, failures, runs>>
vars == <<config, marked, loaders, work, result, edits, touched>>

\* What a configuration holds: the servers of each section, the user's version
\* of everything else; in ida-config.json, whether the IDA directory is set.
Content == [servers : SUBSET (Sections \X (Ours \cup {"user"})), own : Nat, ida : BOOLEAN]
Blank   == [servers |-> {}, own |-> 0, ida |-> FALSE]

ASSUME NoneAssumption ==
    /\ None \notin Content /\ Bad \notin Content /\ None # Bad
    /\ None \notin {"install", "uninstall"}
    /\ None \notin {"install", "uninstall"} \X {"ok"}

Readable(f) == config[f] # Bad
Loaded(f)   == IF config[f] = None THEN Blank ELSE config[f]

\* A configuration with a server of its user's in every section.
Used(f) ==
    [Blank EXCEPT !.servers = {<<SectionOf[c], "user">> : c \in {d \in Clients : FileOf[d] = f}},
                  !.own = 1]

Init ==
    /\ config \in [File -> {None, Bad} \cup {Used(f) : f \in File}]
    /\ \A f \in File : config[f] \in {None, Bad, Used(f)}
    /\ marked \in SUBSET Clients
    /\ loaders \in {{}, {"old name"}}
    /\ cmd = None /\ explicit = FALSE /\ at = "out" /\ todo = <<>> /\ memory = None
    /\ failures = {} /\ result = None
    /\ runs = 0 /\ edits = 0 /\ touched = {}
-----------------------------------------------------------------------------
\* The command.

Go(l) == at' = l

Start(c, e) ==
    /\ cmd = None /\ runs < MaxRuns /\ runs' = runs + 1
    /\ cmd' = c /\ explicit' = e
    /\ Go("loader") /\ todo' = Client /\ memory' = None /\ failures' = {}
    /\ result' = None /\ touched' = {}
    /\ UNCHANGED <<config, marked, loaders, edits>>

End(r) ==
    /\ cmd' = None /\ Go("out") /\ result' = <<cmd, r>>
    /\ todo' = <<>> /\ memory' = None
    /\ UNCHANGED <<explicit, failures, runs, edits, touched, marked>>

\* An OSError that nobody catches, at a step outside the clients' table.
Raise ==
    /\ at \in {"loader", "old loaders", "registry"}
    /\ End("raised") /\ UNCHANGED <<config, loaders>>

Die == cmd # None /\ End("died") /\ UNCHANGED <<config, loaders>>

Kept == UNCHANGED <<cmd, explicit, runs, edits, result>>
Step == Kept /\ UNCHANGED marked

\* Mutant: the loaders of older versions go before the new one is in place.
PlaceLoaderLast ==
    /\ cmd = "install"
    /\ \/ at = "loader" /\ loaders' = {} /\ Go("place")
       \/ at = "place" /\ loaders' = {"loader"} /\ Go("old loaders")
    /\ Step /\ UNCHANGED <<config, todo, memory, failures, touched>>

\* install: a symbolic link or a copy under a temporary name replaces the
\* loader.
PlaceLoader ==
    /\ cmd = "install" /\ at = "loader"
    /\ loaders' = loaders \cup {"loader"} /\ Go("old loaders")
    /\ Step /\ UNCHANGED <<config, todo, memory, failures, touched>>

\* Then the loaders of older versions are unlinked, one by one.
UnlinkOld(l) ==
    /\ cmd = "install" /\ at = "old loaders" /\ l \in loaders \ {"loader"}
    /\ loaders' = loaders \ {l}
    /\ Step /\ UNCHANGED <<config, at, todo, memory, failures, touched>>

OldUnlinked ==
    /\ cmd = "install" /\ at = "old loaders" /\ loaders \subseteq {"loader"}
    /\ Go("ida")
    /\ Step /\ UNCHANGED <<config, loaders, todo, memory, failures, touched>>

\* uninstall unlinks them all.
UnlinkLoader(l) ==
    /\ cmd = "uninstall" /\ at = "loader" /\ l \in loaders
    /\ loaders' = loaders \ {l}
    /\ Step /\ UNCHANGED <<config, at, todo, memory, failures, touched>>

LoadersUnlinked ==
    /\ cmd = "uninstall" /\ at = "loader" /\ loaders = {}
    /\ Go("registry")
    /\ Step /\ UNCHANGED <<config, loaders, todo, memory, failures, touched>>

\* The registry and its lock file are unlinked, whoever uses them.
RemoveRegistry ==
    /\ at = "registry" /\ Go("clients")
    /\ Step /\ UNCHANGED <<config, loaders, todo, memory, failures, touched>>
-----------------------------------------------------------------------------
\* _configure_idalib_path: no IDA is found, ida-config.json cannot be read or
\* replaced, or the directory is written there.
IdaFails ==
    /\ at = "ida"
    /\ IF explicit THEN End("failed")
       ELSE Go("clients") /\ Step /\ memory' = None /\ UNCHANGED <<todo, failures, touched>>
    /\ UNCHANGED <<config, loaders>>

ReadIda ==
    /\ at = "ida" /\ memory = None /\ Readable(IdaConfig)
    /\ memory' = [Loaded(IdaConfig) EXCEPT !.ida = TRUE]
    /\ touched' = touched \ {IdaConfig}
    /\ Step /\ UNCHANGED <<config, loaders, at, todo, failures>>

ReplaceIda ==
    /\ at = "ida" /\ memory # None
    /\ config' = [config EXCEPT ![IdaConfig] = memory]
    /\ memory' = None /\ Go("clients")
    /\ Step /\ UNCHANGED <<loaders, todo, failures, touched>>
-----------------------------------------------------------------------------
\* install_mcp_servers, client after client.
At(c) == at = "clients" /\ todo # <<>> /\ c = Head(todo)
Pass == todo' = Tail(todo) /\ memory' = None

\* _client_is_detected; an uninstallation goes by the file alone.
Detected(c) ==
    IF cmd = "uninstall" THEN config[FileOf[c]] # None
    ELSE c \in marked \/ (c \notin Extensions /\ config[FileOf[c]] # None)

\* Mutant: an installation begins with an empty mapping.
ServersAnew(c, servers) ==
    IF cmd = "uninstall" THEN servers \ ({SectionOf[c]} \X Named)
    ELSE {e \in servers : e[1] # SectionOf[c]} \cup {<<SectionOf[c], "current">>}

\* _mutate_client_config.
Servers(c, servers) ==
    IF cmd = "uninstall" THEN servers \ ({SectionOf[c]} \X Named)
    ELSE (servers \ ({SectionOf[c]} \X Ours)) \cup {<<SectionOf[c], "current">>}

Mutated(c) == LET f == Loaded(FileOf[c]) IN [f EXCEPT !.servers = Servers(c, @)]

\* The client's configuration is read, and has to be changed.
ReadConfig(c) ==
    /\ At(c) /\ memory = None
    /\ Detected(c) /\ Readable(FileOf[c]) /\ Mutated(c) # Loaded(FileOf[c])
    /\ memory' = Mutated(c)
    /\ touched' = touched \ {c}
    /\ Step /\ UNCHANGED <<config, loaders, at, todo, failures>>

\* The client is not there, or its configuration is as it should be.
Skip(c) ==
    /\ At(c) /\ memory = None
    /\ ~Detected(c) \/ (Readable(FileOf[c]) /\ Mutated(c) = Loaded(FileOf[c]))
    /\ Pass
    /\ touched' = touched \ {c}
    /\ Step /\ UNCHANGED <<config, loaders, at, failures>>

\* The directory of the configuration is made, unless it is there or is HOME.  It
\* is an install marker of the clients that go by it.
MakeDirectory(c) ==
    marked' \in {marked, marked \cup {d \in Clients \ Extensions : FileOf[d] = FileOf[c]}}

\* _replace_or_overwrite_file.
ReplaceConfig(c) ==
    /\ At(c) /\ memory # None
    /\ config' = [config EXCEPT ![FileOf[c]] = memory]
    /\ MakeDirectory(c) /\ Pass
    /\ Kept /\ UNCHANGED <<loaders, at, failures, touched>>

\* Mutant: a configuration that cannot be parsed counts as skipped.
ClientSkipped(c) ==
    /\ At(c) /\ Detected(c)
    /\ failures' = failures \cup {d \in {c} : memory # None}
    /\ MakeDirectory(c) /\ Pass
    /\ Kept /\ UNCHANGED <<config, loaders, at, touched>>

\* The configuration cannot be parsed, has no mapping where the servers belong,
\* cannot be replaced, or is a symbolic link.
ClientFails(c) ==
    /\ At(c) /\ Detected(c)
    /\ failures' = failures \cup {c}
    /\ IF memory = None THEN UNCHANGED marked ELSE MakeDirectory(c)
    /\ Pass
    /\ Kept /\ UNCHANGED <<config, loaders, at, touched>>

\* An installation does not ask which clients failed.
Return ==
    /\ at = "clients" /\ todo = <<>>
    /\ End(IF cmd = "uninstall" /\ failures # {} THEN "failed" ELSE "ok")
    /\ UNCHANGED <<config, loaders>>
-----------------------------------------------------------------------------
\* Clients and their users write their configurations, older versions of the
\* installer and other tools put our server there, and users give it arguments.
Readers(f) == {c \in Clients : FileOf[c] = f} \cup {x \in {f} : x = IdaConfig}

Edit(f, servers, own) ==
    /\ edits < MaxEdits /\ edits' = edits + 1
    /\ Readable(f)
    /\ config' = [config EXCEPT ![f] = [Loaded(f) EXCEPT !.servers = servers, !.own = own]]
    /\ touched' = touched \cup Readers(f)
    /\ UNCHANGED <<marked, loaders, work, result>>

Others ==
    \/ \E o \in 1..2 : Edit(IdaConfig, Loaded(IdaConfig).servers, o)
    \/ \E c \in Clients, o \in 1..2 :
          LET f == FileOf[c]
              servers == Loaded(f).servers
          IN  \/ \E e \in {"legacy", "user"} : Edit(f, servers \cup {<<SectionOf[c], e>>}, o)
              \/ Edit(f, (servers \ ({SectionOf[c]} \X Named)) \cup {<<SectionOf[c], "other">>}, o)
              \/ Edit(f, servers \ {<<SectionOf[c], "user">>}, o)

Work ==
    \/ PlaceLoader \/ OldUnlinked \/ LoadersUnlinked \/ RemoveRegistry
    \/ \E l \in Loaders : UnlinkOld(l) \/ UnlinkLoader(l)
    \/ IdaFails \/ ReadIda \/ ReplaceIda
    \/ \E c \in Clients : ReadConfig(c) \/ Skip(c) \/ ReplaceConfig(c) \/ ClientFails(c)
    \/ Return

Next ==
    \/ \E c \in {"install", "uninstall"}, e \in BOOLEAN : Start(c, e)
    \/ Work \/ Raise \/ Die \/ Others

Spec == Init /\ [][Next]_vars
-----------------------------------------------------------------------------
Users(f) == IF f \in Content THEN [f EXCEPT !.servers = {e \in @ : e[2] = "user"}, !.ida = FALSE] ELSE f

\* The command writes f although others wrote it after the command had read it.
Overtaken(f) ==
    \/ at = "ida" /\ f = IdaConfig /\ IdaConfig \in touched
    \/ \E c \in touched \cap Clients : At(c) /\ FileOf[c] = f

\* "Apply only ida-fusion-owned changes": whatever the command does, fails at
\* or is killed at, everything its user has in a configuration beside the entries
\* of our names stays, unless the client wrote the file after the command had
\* read it; a file that cannot be parsed is not touched at all.
UsersKept ==
    [][\A f \in File :
          config'[f] # config[f] /\ edits' = edits /\ ~Overtaken(f) =>
             /\ config[f] # Bad
             /\ Users(config'[f]) = Users(Loaded(f))]_vars

\* Once there is a loader for IDA, an installation that fails or is killed at
\* any step leaves one.
LoaderKept == [][cmd # "uninstall" /\ loaders # {} => loaders' # {}]_vars

InstalledFor(c) ==
    config[FileOf[c]] \in Content /\
    config[FileOf[c]].servers \cap ({SectionOf[c]} \X Ours) = {<<SectionOf[c], "current">>}

\* A command that reports success has done its work, also when an earlier one
\* was killed half-way: an uninstallation leaves no loader and no entry of our
\* name in any configuration, an installation leaves one loader and the current
\* entry and no older one with every client it found.  Left out is a client whose
\* configuration others wrote after the command had looked at it, or for which
\* the installation said that it failed.
DoneMeansDone ==
    /\ result = <<"uninstall", "ok">> =>
          /\ loaders = {}
          /\ \A c \in Clients \ touched : config[FileOf[c]] \in Content =>
                ({SectionOf[c]} \X Named) \cap config[FileOf[c]].servers = {}
    /\ result = <<"install", "ok">> =>
          /\ loaders = {"loader"}
          /\ \A c \in Clients \ (touched \cup failures) : Detected(c) => InstalledFor(c)
=============================================================================
