-------------------------- MODULE InstallerProofs --------------------------
(***************************************************************************)
(* Proofs about Installer.tla, for any clients, files, sections and number *)
(* of commands, whichever step of a command fails, dies or meets a change  *)
(* that a client made.                                                     *)
(***************************************************************************)
EXTENDS Installer, SequenceTheorems, TLAPS

InstallerTypes ==
    /\ config \in [File -> Content \cup {None, Bad}]
    /\ memory \in Content \cup {None}
    /\ edits \in Nat
    /\ touched \subseteq Clients \cup {IdaConfig}
    /\ cmd \in {None, "install", "uninstall"}
    /\ at \in {"out", "loader", "old loaders", "ida", "registry", "clients"}

\* What a place says of the command, and that it comes to the clients in the
\* order of the table.
PlaceInv ==
    /\ cmd = None <=> at = "out"
    /\ at \in {"old loaders", "ida"} => cmd = "install"
    /\ at = "registry" => cmd = "uninstall"
    /\ at \notin {"ida", "clients"} => memory = None
    /\ at \notin {"out", "clients"} => todo = Client
    /\ at = "out" => todo = <<>>
    /\ cmd # None => result = None

Rest(s, k) == k \in 0..Len(Client) /\ s = SubSeq(Client, k + 1, Len(Client))
TodoInv == \E k \in 0..Len(Client) : Rest(todo, k)
Passed == Clients \ ToSet(todo)

LoadersInv ==
    /\ cmd = "install" /\ at = "old loaders" => "loader" \in loaders
    /\ cmd = "install" /\ at \in {"ida", "clients"} => loaders = {"loader"}
    /\ cmd = "uninstall" /\ at \in {"registry", "clients"} => loaders = {}
    /\ result = <<"install", "ok">> => loaders = {"loader"}
    /\ result = <<"uninstall", "ok">> => loaders = {}

\* What the command has in memory is the change of what the file says now,
\* unless somebody wrote the file since, which every client of the file knows.
Current(c) == Readable(FileOf[c]) /\ memory = Mutated(c)
AllTouched(f) == \A d \in Clients : FileOf[d] = f => d \in touched

MemoryInv ==
    /\ at = "ida" /\ memory # None /\ IdaConfig \notin touched =>
          Readable(IdaConfig) /\ memory = [Loaded(IdaConfig) EXCEPT !.ida = TRUE]
    /\ at = "clients" /\ memory # None =>
          /\ todo # <<>>
          /\ Head(todo) \in touched => AllTouched(FileOf[Head(todo)])
          /\ Head(todo) \notin touched => Current(Head(todo))

\* A client the command has passed is as it leaves it, and stays so while the
\* command changes the file for another client.
Removed(c) ==
    config[FileOf[c]] \in Content =>
       ({SectionOf[c]} \X Named) \cap config[FileOf[c]].servers = {}

Installed(c) ==
    c \in marked \/ (c \notin Extensions /\ config[FileOf[c]] # None) => InstalledFor(c)

Finished(c) == (cmd = "uninstall" => Removed(c)) /\ (cmd = "install" => Installed(c))

PassedInv == at = "clients" => \A c \in Passed \ (touched \cup failures) : Finished(c)

ResultInv ==
    /\ result = <<"uninstall", "ok">> => \A c \in Clients \ touched : Removed(c)
    /\ result = <<"install", "ok">> =>
          \A c \in Clients \ (touched \cup failures) : Installed(c)

InstallerInv ==
    InstallerTypes /\ PlaceInv /\ TodoInv /\ LoadersInv /\ MemoryInv
    /\ PassedInv /\ ResultInv
-----------------------------------------------------------------------------
(***************************************************************************)
(* The order of the table.                                                 *)
(***************************************************************************)
LEMMA ClientTable ==
    /\ Client \in Seq(Clients) /\ Len(Client) \in Nat /\ DOMAIN Client = 1..Len(Client)
    /\ \A c \in Clients : \E i \in 1..Len(Client) : c = Client[i]
    /\ \A i \in 1..Len(Client) : Client[i] \in Clients
<1>1. Client \in Seq(Clients) /\ Len(Client) \in Nat /\ DOMAIN Client = 1..Len(Client)
  BY TableAssumption
<1> QED BY <1>1 DEF Clients, ToSet

LEMMA RestEnds == Rest(Client, 0) /\ Rest(<<>>, Len(Client))
<1>1. SubSeq(Client, 1, Len(Client)) = Client
  BY ClientTable
<1>2. SubSeq(Client, Len(Client) + 1, Len(Client)) = <<>>
  BY ClientTable
<1> QED BY <1>1, <1>2, ClientTable DEF Rest

LEMMA RestElements ==
    ASSUME NEW s, NEW k, Rest(s, k)
    PROVE  /\ s \in Seq(Clients) /\ Len(s) = Len(Client) - k
           /\ \A i \in 1..Len(s) : s[i] = Client[k + i]
           /\ \A c : c \in ToSet(s) <=> \E i \in k + 1 .. Len(Client) : c = Client[i]
<1>1. k \in Nat /\ k <= Len(Client) /\ s = SubSeq(Client, k + 1, Len(Client))
  BY ClientTable DEF Rest
<1>2. s \in Seq(Clients) /\ Len(s) = Len(Client) - k /\ \A i \in 1..Len(s) : s[i] = Client[k + i]
  <2> DEFINE n == Len(Client)
  <2>1. n \in Int /\ k + 1 \in Int /\ k <= n /\ \A i \in k + 1 .. n : Client[i] \in Clients
    BY <1>1, ClientTable
  <2> HIDE DEF n
  <2>2. /\ SubSeq(Client, k + 1, n) \in Seq(Clients)
        /\ Len(SubSeq(Client, k + 1, n)) = IF k + 1 <= n THEN n - (k + 1) + 1 ELSE 0
        /\ \A i \in 1 .. n - (k + 1) + 1 : SubSeq(Client, k + 1, n)[i] = Client[(k + 1) + i - 1]
    BY <2>1, SubSeqProperties
  <2>3. s = SubSeq(Client, k + 1, n)
    BY <1>1 DEF n
  <2>4. Len(s) = n - k /\ s \in Seq(Clients)
    BY <1>1, <2>1, <2>2, <2>3
  <2>5. ASSUME NEW i \in 1..Len(s) PROVE s[i] = Client[k + i]
    <3>1. i \in 1 .. n - (k + 1) + 1 /\ (k + 1) + i - 1 = k + i
      BY <1>1, <2>1, <2>4
    <3> QED BY <2>2, <2>3, <3>1
  <2> QED BY <2>4, <2>5 DEF n
<1>3. DOMAIN s = 1 .. Len(Client) - k
  BY <1>2
<1>4. ASSUME NEW c, c \in ToSet(s) PROVE \E i \in k + 1 .. Len(Client) : c = Client[i]
  <2>1. PICK j \in 1 .. Len(Client) - k : c = s[j]
    BY <1>3, <1>4 DEF ToSet
  <2>2. k + j \in k + 1 .. Len(Client)
    BY <1>1, <2>1, ClientTable
  <2> QED BY <1>2, <2>1, <2>2
<1>5. ASSUME NEW i \in k + 1 .. Len(Client) PROVE Client[i] \in ToSet(s)
  <2>1. i - k \in 1 .. Len(Client) - k /\ k + (i - k) = i
    BY <1>1, ClientTable
  <2>2. s[i - k] = Client[i]
    BY <1>2, <2>1
  <2> QED BY <1>3, <2>1, <2>2 DEF ToSet
<1> QED BY <1>2, <1>4, <1>5

\* Taking the next client leaves a rest without it; only extensions among the
\* clients before it have its file.
LEMMA RestTail ==
    ASSUME NEW s, NEW k, Rest(s, k), s # <<>>
    PROVE  /\ Head(s) \in Clients
           /\ Rest(Tail(s), k + 1)
           /\ ToSet(s) = {Head(s)} \cup ToSet(Tail(s))
           /\ Head(s) \notin ToSet(Tail(s))
           /\ \A c \in Clients \ ToSet(s) : FileOf[c] = FileOf[Head(s)] => c \in Extensions
<1>1. /\ s \in Seq(Clients) /\ Len(s) = Len(Client) - k
      /\ \A i \in 1..Len(s) : s[i] = Client[k + i]
      /\ \A c : c \in ToSet(s) <=> \E i \in k + 1 .. Len(Client) : c = Client[i]
  BY RestElements
<1>2. k \in Nat /\ k <= Len(Client) /\ s = SubSeq(Client, k + 1, Len(Client))
  BY ClientTable DEF Rest
<1>3. k < Len(Client) /\ k + 1 \in 1..Len(Client) /\ Head(s) = Client[k + 1]
  <2>1. k # Len(Client)
    <3>1. k = Len(Client) => Len(Client) < k + 1 /\ k + 1 \in Int /\ Len(Client) \in Int
      BY <1>2, ClientTable
    <3> QED BY <1>2, <3>1, SubSeqEmpty
  <2>2. k < Len(Client) /\ k + 1 \in 1..Len(Client) /\ Len(Client) \in k + 1 .. Len(Client)
    <3> DEFINE n == Len(Client)
    <3>1. n \in Nat /\ k \in Nat /\ k <= n /\ k # n
      BY <1>2, <2>1, ClientTable
    <3> HIDE DEF n
    <3>2. k < n /\ k + 1 \in 1..n /\ n \in k + 1 .. n
      BY <3>1
    <3> QED BY <3>2 DEF n
  <2> QED BY <1>2, <2>2, ClientTable, HeadTailOfSubSeq
<1>4. Rest(Tail(s), k + 1)
  <2>1. k + 1 \in 0..Len(Client) /\ Len(Client) \in k + 1 .. Len(Client)
    BY <1>2, <1>3, ClientTable
  <2> QED BY <1>2, <1>3, <2>1, ClientTable, HeadTailOfSubSeq DEF Rest
<1>5. \A c : c \in ToSet(Tail(s)) <=> \E i \in (k + 1) + 1 .. Len(Client) : c = Client[i]
  BY <1>4, RestElements
<1>6. \A i \in k + 1 .. Len(Client) : i = k + 1 \/ i \in (k + 1) + 1 .. Len(Client)
  BY <1>2, ClientTable
<1>7. \A i \in (k + 1) + 1 .. Len(Client) : i \in k + 1 .. Len(Client) /\ i \in 1..Len(Client) /\ i # k + 1
  BY <1>2, ClientTable
<1>8. k + 1 \in k + 1 .. Len(Client)
  BY <1>2, <1>3, ClientTable
<1>9. ToSet(s) = {Head(s)} \cup ToSet(Tail(s))
  <2>1. ASSUME NEW c \in ToSet(s) PROVE c \in {Head(s)} \cup ToSet(Tail(s))
    BY <1>1, <1>3, <1>5, <1>6
  <2>2. ASSUME NEW c \in {Head(s)} \cup ToSet(Tail(s)) PROVE c \in ToSet(s)
    BY <1>1, <1>3, <1>5, <1>7, <1>8
  <2> QED BY <2>1, <2>2
<1>10. Head(s) \notin ToSet(Tail(s))
  <2> SUFFICES ASSUME Head(s) \in ToSet(Tail(s)) PROVE FALSE
    OBVIOUS
  <2>1. PICK i \in (k + 1) + 1 .. Len(Client) : Head(s) = Client[i]
    BY <1>5
  <2>2. i \in DOMAIN Client /\ k + 1 \in DOMAIN Client /\ i # k + 1
    BY <1>3, <1>7, ClientTable
  <2> QED BY <1>3, <2>1, <2>2, TableAssumption
<1>11. ASSUME NEW c \in Clients \ ToSet(s), FileOf[c] = FileOf[Head(s)] PROVE c \in Extensions
  <2>1. PICK i \in 1..Len(Client) : c = Client[i]
    BY ClientTable
  <2>2. i \notin k + 1 .. Len(Client)
    BY <1>1, <1>11, <2>1
  <2>3. i < k + 1 /\ i \in DOMAIN Client /\ k + 1 \in DOMAIN Client
    BY <1>2, <1>3, <2>2, ClientTable
  <2> QED BY <1>3, <1>11, <2>1, <2>3, TableAssumption
<1>12. Head(s) \in Clients
  BY <1>3, ClientTable
<1> QED BY <1>4, <1>9, <1>10, <1>11, <1>12
-----------------------------------------------------------------------------
(***************************************************************************)
(* What a configuration holds, and what the change for a client does to it.*)
(***************************************************************************)
Entries == Sections \X (Ours \cup {"user"})

LEMMA LoadedContent ==
    ASSUME InstallerTypes, NEW f \in File, Readable(f)
    PROVE  /\ Loaded(f) \in Content /\ Blank \in Content
           /\ config[f] \in Content \cup {None}
           /\ config[f] \in Content => Loaded(f) = config[f]
<1>1. Blank \in Content
  BY DEF Blank, Content
<1>2. config[f] \in Content \cup {None}
  BY DEF InstallerTypes, Readable
<1> QED BY <1>1, <1>2, NoneAssumption DEF Loaded

LEMMA ServersOf ==
    ASSUME NEW c \in Clients, NEW servers \in SUBSET Entries
    PROVE  /\ Servers(c, servers) \in SUBSET Entries
           /\ {e \in Servers(c, servers) : e[2] = "user"} = {e \in servers : e[2] = "user"}
<1>1. SectionOf[c] \in Sections
  BY DEF Sections
<1>2. <<SectionOf[c], "current">> \in Entries
  BY <1>1 DEF Entries, Ours, Named
<1>3. \A S : \A e \in {SectionOf[c]} \X S : e[2] \in S
  OBVIOUS
<1>4. "user" \notin Ours /\ "user" \notin Named
  BY DEF Ours, Named
<1> QED BY <1>2, <1>3, <1>4 DEF Servers

\* An uninstallation leaves no entry of the present name in the section of the
\* client, and brings none back in another client's.
LEMMA ServersRemoved ==
    ASSUME cmd = "uninstall", NEW c, NEW servers, NEW d,
           d = c \/ ({SectionOf[d]} \X Named) \cap servers = {}
    PROVE  ({SectionOf[d]} \X Named) \cap Servers(c, servers) = {}
BY DEF Servers

\* An installation leaves the present entry and no other one.
LEMMA ServersInstalled ==
    ASSUME cmd = "install", NEW c, NEW servers, NEW d,
           d = c \/ servers \cap ({SectionOf[d]} \X Ours) = {<<SectionOf[d], "current">>}
    PROVE  Servers(c, servers) \cap ({SectionOf[d]} \X Ours) = {<<SectionOf[d], "current">>}
<1> DEFINE mine == {SectionOf[c]} \X Ours
           yours == {SectionOf[d]} \X Ours
           new == <<SectionOf[c], "current">>
<1>1. Servers(c, servers) = (servers \ mine) \cup {new}
  BY DEF Servers
<1>2. new \in mine
  BY DEF Ours, Named
<1>3. CASE SectionOf[d] = SectionOf[c]
  BY <1>1, <1>2, <1>3
<1>4. CASE SectionOf[d] # SectionOf[c]
  <2>1. mine \cap yours = {} /\ servers \cap yours = {<<SectionOf[d], "current">>}
    BY <1>4
  <2> HIDE DEF mine, yours, new
  <2>2. Servers(c, servers) \cap yours = servers \cap yours
    BY <1>1, <1>2, <2>1
  <2> QED BY <2>1, <2>2 DEF yours
<1> QED BY <1>3, <1>4

LEMMA MutatedContent ==
    ASSUME InstallerTypes, NEW c \in Clients, Readable(FileOf[c])
    PROVE  /\ Mutated(c) \in Content
           /\ Mutated(c).servers = Servers(c, Loaded(FileOf[c]).servers)
           /\ Users(Mutated(c)) = Users(Loaded(FileOf[c]))
<1> DEFINE f == FileOf[c]
           new == Servers(c, Loaded(f).servers)
<1>1. f \in File
  BY InstallerAssumption
<1>2. Loaded(f) \in Content
  BY <1>1, LoadedContent
<1>3. Loaded(f).servers \in SUBSET Entries
  BY <1>2 DEF Content, Entries
<1>4. new \in SUBSET Entries
      /\ {e \in new : e[2] = "user"} = {e \in Loaded(f).servers : e[2] = "user"}
  BY <1>3, ServersOf
<1>5. Mutated(c) = [Loaded(f) EXCEPT !.servers = new]
  BY DEF Mutated
<1> HIDE DEF f, new
<1>6. Mutated(c) \in Content /\ Mutated(c).servers = new
      /\ Mutated(c).own = Loaded(f).own /\ Mutated(c).ida = Loaded(f).ida
  BY <1>2, <1>4, <1>5 DEF Content, Entries
<1>7. \A g \in Content :
         Users(g) = [servers |-> {e \in g.servers : e[2] = "user"}, own |-> g.own, ida |-> FALSE]
  BY DEF Users, Content
<1>8. Users(Mutated(c)) = Users(Loaded(f))
  BY <1>2, <1>4, <1>6, <1>7
<1> QED BY <1>6, <1>8 DEF f, new

LEMMA IdaContent ==
    ASSUME InstallerTypes, Readable(IdaConfig)
    PROVE  /\ [Loaded(IdaConfig) EXCEPT !.ida = TRUE] \in Content
           /\ Users([Loaded(IdaConfig) EXCEPT !.ida = TRUE]) = Users(Loaded(IdaConfig))
<1>1. Loaded(IdaConfig) \in Content
  BY LoadedContent, InstallerAssumption
<1>2. [Loaded(IdaConfig) EXCEPT !.ida = TRUE] \in Content
  BY <1>1 DEF Content
<1>3. \A g \in Content :
         Users(g) = [servers |-> {e \in g.servers : e[2] = "user"}, own |-> g.own, ida |-> FALSE]
  BY DEF Users, Content
<1> DEFINE g == Loaded(IdaConfig)
           h == [g EXCEPT !.ida = TRUE]
<1>4. h.servers = g.servers /\ h.own = g.own
  BY <1>1 DEF Content
<1> HIDE DEF g, h
<1>5. Users(h) = Users(g)
  BY <1>1, <1>2, <1>3, <1>4 DEF g, h
<1> QED BY <1>2, <1>5 DEF g, h
-----------------------------------------------------------------------------
(***************************************************************************)
(* Types, places and loaders.                                              *)
(***************************************************************************)
LEMMA ReadersOf ==
    ASSUME NEW f
    PROVE  /\ Readers(f) \subseteq Clients \cup {IdaConfig}
           /\ \A d \in Clients : d \in Readers(f) <=> FileOf[d] = f
           /\ IdaConfig \in Readers(f) <=> f = IdaConfig
BY InstallerAssumption DEF Readers

LEMMA AnEdit ==
    ASSUME InstallerTypes, Others
    PROVE  \E f \in File, servers \in SUBSET Entries, n \in Nat : Edit(f, servers, n)
<1>1. ASSUME NEW o \in 1..2, Edit(IdaConfig, Loaded(IdaConfig).servers, o)
      PROVE  \E f \in File, servers \in SUBSET Entries, n \in Nat : Edit(f, servers, n)
  <2>1. Readable(IdaConfig) /\ o \in Nat /\ IdaConfig \in File
    BY <1>1, InstallerAssumption DEF Edit
  <2>2. Loaded(IdaConfig).servers \in SUBSET Entries
    BY <2>1, LoadedContent DEF Content, Entries
  <2> QED BY <1>1, <2>1, <2>2
<1>2. ASSUME NEW c \in Clients, NEW o \in 1..2,
             \/ \E e \in {"legacy", "user"} :
                   Edit(FileOf[c], Loaded(FileOf[c]).servers \cup {<<SectionOf[c], e>>}, o)
             \/ Edit(FileOf[c],
                        (Loaded(FileOf[c]).servers \ ({SectionOf[c]} \X Named))
                           \cup {<<SectionOf[c], "other">>}, o)
             \/ Edit(FileOf[c], Loaded(FileOf[c]).servers \ {<<SectionOf[c], "user">>}, o)
      PROVE  \E f \in File, servers \in SUBSET Entries, n \in Nat : Edit(f, servers, n)
  <2>1. Readable(FileOf[c]) /\ o \in Nat /\ FileOf[c] \in File
    BY <1>2, InstallerAssumption DEF Edit
  <2>2. Loaded(FileOf[c]).servers \in SUBSET Entries
    BY <2>1, LoadedContent DEF Content, Entries
  <2>3. \A e \in {"other", "legacy", "user"} : <<SectionOf[c], e>> \in Entries
    BY DEF Entries, Sections, Ours, Named
  <2>4. \E servers \in SUBSET Entries : Edit(FileOf[c], servers, o)
    BY <1>2, <2>2, <2>3
  <2> QED BY <2>1, <2>4
<1>3. \/ \E o \in 1..2 : Edit(IdaConfig, Loaded(IdaConfig).servers, o)
      \/ \E c \in Clients, o \in 1..2 :
            \/ \E e \in {"legacy", "user"} :
                  Edit(FileOf[c], Loaded(FileOf[c]).servers \cup {<<SectionOf[c], e>>}, o)
            \/ Edit(FileOf[c],
                       (Loaded(FileOf[c]).servers \ ({SectionOf[c]} \X Named))
                          \cup {<<SectionOf[c], "other">>}, o)
            \/ Edit(FileOf[c], Loaded(FileOf[c]).servers \ {<<SectionOf[c], "user">>}, o)
  BY DEF Others
<1> QED BY <1>1, <1>2, <1>3

LEMMA EditContent ==
    ASSUME InstallerTypes, NEW f \in File, NEW servers \in SUBSET Entries, NEW n \in Nat,
           Edit(f, servers, n)
    PROVE  /\ config' \in [File -> Content \cup {None, Bad}]
           /\ \A g \in File : g # f => config'[g] = config[g]
           /\ touched' \subseteq Clients \cup {IdaConfig}
           /\ \A d \in Clients : d \in touched' <=> d \in touched \/ FileOf[d] = f
           /\ IdaConfig \in touched' <=> IdaConfig \in touched \/ f = IdaConfig
<1>1. Loaded(f) \in Content
  BY LoadedContent DEF Edit
<1>2. [Loaded(f) EXCEPT !.servers = servers, !.own = n] \in Content
  BY <1>1 DEF Content, Entries
<1>3. config' = [config EXCEPT ![f] = [Loaded(f) EXCEPT !.servers = servers, !.own = n]]
      /\ touched' = touched \cup Readers(f)
  BY DEF Edit
<1> QED BY <1>1, <1>2, <1>3, ReadersOf DEF InstallerTypes

LEMMA NextNat == \A x \in Nat : x + 1 \in Nat /\ x + 1 # x
OBVIOUS

LEMMA TypesInit == Init => InstallerTypes
<1> SUFFICES ASSUME Init PROVE InstallerTypes
  OBVIOUS
<1>1. ASSUME NEW f \in File PROVE Used(f) \in Content
  <2> DEFINE s == {<<SectionOf[c], "user">> : c \in {d \in Clients : FileOf[d] = f}}
  <2>1. s \in SUBSET (Sections \X (Ours \cup {"user"}))
    BY DEF Sections
  <2>2. Used(f) = [Blank EXCEPT !.servers = s, !.own = 1]
    BY DEF Used
  <2> HIDE DEF s
  <2>3. Blank \in Content
    BY DEF Blank, Content
  <2>4. 1 \in Nat
    OBVIOUS
  <2> QED BY <2>1, <2>2, <2>3, <2>4 DEF Content
<1>2. config \in [File -> Content \cup {None, Bad}]
  BY <1>1 DEF Init
<1> QED BY <1>2 DEF Init, InstallerTypes

LEMMA TypesStep ==
    ASSUME InstallerTypes, MemoryInv, [Next]_vars
    PROVE  InstallerTypes'
<1> USE DEF InstallerTypes, Go, Step, Kept, work
<1>1. ASSUME NEW c \in {"install", "uninstall"}, NEW e \in BOOLEAN, Start(c, e)
      PROVE  InstallerTypes'
  BY <1>1 DEF Start
<1>2. ASSUME NEW r, End(r), UNCHANGED config PROVE InstallerTypes'
  BY <1>2 DEF End
<1>3. CASE Raise \/ Die \/ Return
  BY <1>2, <1>3 DEF Raise, Die, Return
<1>4. CASE \/ PlaceLoader \/ OldUnlinked \/ LoadersUnlinked \/ RemoveRegistry
           \/ \E l \in Loaders : UnlinkOld(l) \/ UnlinkLoader(l)
  BY <1>4 DEF PlaceLoader, OldUnlinked, LoadersUnlinked, RemoveRegistry, UnlinkOld, UnlinkLoader
<1>5. CASE IdaFails
  BY <1>2, <1>5 DEF IdaFails
<1>6. CASE ReadIda
  BY <1>6, IdaContent DEF ReadIda
<1>7. CASE ReplaceIda
  BY <1>7, InstallerAssumption DEF ReplaceIda
<1>8. ASSUME NEW c \in Clients, ReadConfig(c) PROVE InstallerTypes'
  BY <1>8, MutatedContent DEF ReadConfig
<1>9. ASSUME NEW c \in Clients, ReplaceConfig(c) PROVE InstallerTypes'
  BY <1>9, InstallerAssumption DEF ReplaceConfig, Pass
<1>10. ASSUME NEW c \in Clients, Skip(c) \/ ClientFails(c) PROVE InstallerTypes'
  BY <1>10 DEF Skip, ClientFails, Pass
<1>11. CASE Others
  <2>1. PICK f \in File, servers \in SUBSET Entries, n \in Nat : Edit(f, servers, n)
    BY <1>11, AnEdit
  <2>2. config' \in [File -> Content \cup {None, Bad}] /\ touched' \subseteq Clients \cup {IdaConfig}
    BY <2>1, EditContent
  <2>3. edits' = edits + 1 /\ UNCHANGED work
    BY <2>1 DEF Edit
  <2>4. memory' = memory /\ cmd' = cmd /\ at' = at
    BY <2>3
  <2>5. edits' \in Nat
    BY <2>3, NextNat
  <2> QED BY <2>2, <2>4, <2>5
<1>12. CASE UNCHANGED vars
  BY <1>12 DEF vars
<1> QED BY <1>1, <1>3, <1>4, <1>5, <1>6, <1>7, <1>8, <1>9, <1>10, <1>11, <1>12 DEF Next, Work

LEMMA PlaceInit == Init => PlaceInv /\ TodoInv
<1>1. Rest(<<>>, Len(Client)) /\ Len(Client) \in 0..Len(Client)
  BY RestEnds, ClientTable
<1> QED BY <1>1 DEF Init, PlaceInv, TodoInv

LEMMA PlaceStep ==
    ASSUME InstallerTypes, PlaceInv, TodoInv, [Next]_vars
    PROVE  PlaceInv' /\ TodoInv'
<1> USE DEF InstallerTypes, PlaceInv, Go, Step, Kept, work
<1>0. /\ Rest(Client, 0) /\ 0 \in 0..Len(Client)
      /\ Rest(<<>>, Len(Client)) /\ Len(Client) \in 0..Len(Client)
  BY RestEnds DEF Rest
<1>1. ASSUME NEW c \in {"install", "uninstall"}, NEW e \in BOOLEAN, Start(c, e)
      PROVE  PlaceInv' /\ TodoInv'
  BY <1>0, <1>1, NoneAssumption DEF Start, TodoInv
<1>2. ASSUME NEW r, End(r) PROVE PlaceInv' /\ TodoInv'
  BY <1>0, <1>2 DEF End, TodoInv
<1>3. CASE Raise \/ Die \/ Return
  BY <1>2, <1>3 DEF Raise, Die, Return
<1>4. CASE \/ PlaceLoader \/ OldUnlinked \/ LoadersUnlinked \/ RemoveRegistry
           \/ \E l \in Loaders : UnlinkOld(l) \/ UnlinkLoader(l)
  BY <1>4 DEF PlaceLoader, OldUnlinked, LoadersUnlinked, RemoveRegistry, UnlinkOld, UnlinkLoader,
     TodoInv
<1>5. CASE IdaFails
  BY <1>2, <1>5 DEF IdaFails, TodoInv
<1>6. CASE ReadIda \/ ReplaceIda
  BY <1>6 DEF ReadIda, ReplaceIda, TodoInv
<1>7. ASSUME NEW c \in Clients, ReadConfig(c) PROVE PlaceInv' /\ TodoInv'
  BY <1>7 DEF ReadConfig, At, TodoInv
<1>8. ASSUME NEW c \in Clients, ReplaceConfig(c) \/ Skip(c) \/ ClientFails(c)
      PROVE  PlaceInv' /\ TodoInv'
  <2>1. at = "clients" /\ todo # <<>> /\ todo' = Tail(todo)
    BY <1>8 DEF ReplaceConfig, Skip, ClientFails, At, Pass
  <2>2. PICK k \in 0..Len(Client) : Rest(todo, k)
    BY DEF TodoInv
  <2>3. Rest(Tail(todo), k + 1)
    BY <2>1, <2>2, RestTail
  <2>4. TodoInv'
    BY <2>1, <2>3 DEF TodoInv, Rest
  <2>5. at' = at /\ cmd' = cmd /\ result' = result
    BY <1>8 DEF ReplaceConfig, Skip, ClientFails
  <2> QED BY <2>1, <2>4, <2>5
<1>9. CASE Others
  BY <1>9 DEF Others, Edit, TodoInv
<1>10. CASE UNCHANGED vars
  BY <1>10 DEF vars, TodoInv
<1> QED BY <1>1, <1>3, <1>4, <1>5, <1>6, <1>7, <1>8, <1>9, <1>10 DEF Next, Work

LEMMA LoadersStep ==
    ASSUME InstallerTypes, PlaceInv, LoadersInv, [Next]_vars
    PROVE  LoadersInv'
<1> USE DEF InstallerTypes, PlaceInv, LoadersInv, Go, Step, Kept, work
<1>1. ASSUME NEW c \in {"install", "uninstall"}, NEW e \in BOOLEAN, Start(c, e)
      PROVE  LoadersInv'
  BY <1>1, NoneAssumption DEF Start
<1>2. ASSUME NEW r, r # "ok", End(r), UNCHANGED loaders, cmd # None PROVE LoadersInv'
  BY <1>2, NoneAssumption DEF End
<1>3. CASE Raise \/ Die
  BY <1>2, <1>3 DEF Raise, Die
<1>4. CASE Return
  BY <1>4, NoneAssumption DEF Return, End
<1>5. ASSUME cmd # None, result' = result PROVE
        /\ result' # <<"install", "ok">> /\ result' # <<"uninstall", "ok">>
  <2>1. result' = None /\ <<"install", "ok">> \in {"install", "uninstall"} \X {"ok"}
        /\ <<"uninstall", "ok">> \in {"install", "uninstall"} \X {"ok"}
    BY <1>5
  <2> QED BY <2>1, NoneAssumption
<1>51. CASE PlaceLoader
  BY <1>5, <1>51, NoneAssumption DEF PlaceLoader
<1>52. CASE OldUnlinked
  <2>1. loaders' = {"loader"} /\ cmd' = "install" /\ at' = "ida" /\ cmd # None /\ result' = result
    BY <1>52, NoneAssumption DEF OldUnlinked
  <2> QED BY <1>5, <2>1
<1>53. CASE LoadersUnlinked
  BY <1>5, <1>53, NoneAssumption DEF LoadersUnlinked
<1>54. CASE RemoveRegistry
  BY <1>5, <1>54, NoneAssumption DEF RemoveRegistry
<1>6. ASSUME NEW l \in Loaders PROVE UnlinkOld(l) \/ UnlinkLoader(l) => LoadersInv'
  <2>1. CASE UnlinkOld(l)
    <3>1. cmd' = "install" /\ at' = "old loaders" /\ "loader" \in loaders' /\ cmd # None /\ result' = result
      BY <2>1, NoneAssumption DEF UnlinkOld
    <3> QED BY <1>5, <3>1
  <2>2. CASE UnlinkLoader(l)
    <3>1. cmd' = "uninstall" /\ at' = "loader" /\ cmd # None /\ result' = result
      BY <2>2, NoneAssumption DEF UnlinkLoader
    <3> QED BY <1>5, <3>1
  <2> QED BY <2>1, <2>2
<1>7. CASE IdaFails
  BY <1>2, <1>7, NoneAssumption DEF IdaFails
<1>8. CASE ReadIda \/ ReplaceIda
  BY <1>8, NoneAssumption DEF ReadIda, ReplaceIda
<1>9. ASSUME NEW c \in Clients, ReadConfig(c) \/ ReplaceConfig(c) \/ Skip(c) \/ ClientFails(c)
      PROVE  LoadersInv'
  BY <1>9, NoneAssumption DEF ReadConfig, ReplaceConfig, Skip, ClientFails, At, Pass
<1>10. CASE Others
  BY <1>10 DEF Others, Edit
<1>11. CASE UNCHANGED vars
  BY <1>11 DEF vars
<1> QED BY <1>1, <1>3, <1>4, <1>51, <1>52, <1>53, <1>54, <1>6, <1>7, <1>8, <1>9, <1>10, <1>11
     DEF Next, Work
-----------------------------------------------------------------------------
(***************************************************************************)
(* What the command has in memory.                                         *)
(***************************************************************************)
LEMMA SameFile ==
    ASSUME NEW c, config'[FileOf[c]] = config[FileOf[c]], cmd' = cmd
    PROVE  /\ Readable(FileOf[c])' <=> Readable(FileOf[c])
           /\ Mutated(c)' = Mutated(c)
<1>1. Loaded(FileOf[c])' = Loaded(FileOf[c])
  BY DEF Loaded
<1>2. \A s : Servers(c, s)' = Servers(c, s)
  BY DEF Servers
<1> QED BY <1>1, <1>2 DEF Mutated, Readable

LEMMA HeadIsClient == TodoInv /\ todo # <<>> => Head(todo) \in Clients
BY RestTail DEF TodoInv

LEMMA MemoryInit == Init => MemoryInv
BY DEF Init, MemoryInv

LEMMA MemoryStep ==
    ASSUME InstallerTypes, PlaceInv, TodoInv, MemoryInv, [Next]_vars
    PROVE  MemoryInv'
<1> USE DEF Go, Step, Kept, work
<1>1. memory' = None => MemoryInv'
  BY DEF MemoryInv
<1>2. ASSUME NEW r, End(r) PROVE memory' = None
  BY <1>2 DEF End
<1>3. ASSUME NEW c \in {"install", "uninstall"}, NEW e \in BOOLEAN, Start(c, e)
      PROVE  memory' = None
  BY <1>3 DEF Start
<1>4. CASE Raise \/ Die \/ Return
  BY <1>1, <1>2, <1>4 DEF Raise, Die, Return
<1>5. CASE \/ PlaceLoader \/ OldUnlinked \/ LoadersUnlinked \/ RemoveRegistry
           \/ \E l \in Loaders : UnlinkOld(l) \/ UnlinkLoader(l)
  <2>1. at \notin {"ida", "clients"} /\ memory' = memory
    BY <1>5 DEF PlaceLoader, OldUnlinked, LoadersUnlinked, RemoveRegistry, UnlinkOld, UnlinkLoader
  <2> QED BY <1>1, <2>1 DEF PlaceInv
<1>6. CASE IdaFails \/ ReplaceIda
  BY <1>1, <1>2, <1>6 DEF IdaFails, ReplaceIda
<1>7. CASE ReadIda
  <2>1. /\ at = "ida" /\ at' = at /\ config' = config /\ Readable(IdaConfig)
        /\ memory' = [Loaded(IdaConfig) EXCEPT !.ida = TRUE]
    BY <1>7 DEF ReadIda
  <2>2. Loaded(IdaConfig)' = Loaded(IdaConfig) /\ Readable(IdaConfig)'
    BY <2>1 DEF Loaded, Readable
  <2> QED BY <2>1, <2>2 DEF MemoryInv
<1>8. ASSUME NEW c \in Clients, ReadConfig(c) PROVE MemoryInv'
  <2>1. /\ at = "clients" /\ at' = at /\ todo # <<>> /\ todo' = todo /\ c = Head(todo)
        /\ config' = config /\ cmd' = cmd /\ touched' = touched \ {c}
        /\ Readable(FileOf[c]) /\ memory' = Mutated(c)
    BY <1>8 DEF ReadConfig, At
  <2>2. Current(c)'
    BY <2>1, SameFile DEF Current
  <2> QED BY <2>1, <2>2 DEF MemoryInv
<1>9. ASSUME NEW c \in Clients, Skip(c) \/ ReplaceConfig(c) \/ ClientFails(c) PROVE MemoryInv'
  BY <1>1, <1>9 DEF Skip, ReplaceConfig, ClientFails, Pass
<1>10. CASE Others
  <2>1. PICK f \in File, servers \in SUBSET Entries, n \in Nat : Edit(f, servers, n)
    BY <1>10, AnEdit
  <2>2. /\ \A g \in File : g # f => config'[g] = config[g]
        /\ \A d \in Clients : d \in touched' <=> d \in touched \/ FileOf[d] = f
        /\ IdaConfig \in touched' <=> IdaConfig \in touched \/ f = IdaConfig
    BY <2>1, EditContent
  <2>3. at' = at /\ todo' = todo /\ memory' = memory /\ cmd' = cmd
    BY <2>1 DEF Edit
  <2>4. ASSUME at = "ida", memory # None, IdaConfig \notin touched'
        PROVE  /\ Readable(IdaConfig)'
               /\ memory' = [Loaded(IdaConfig)' EXCEPT !.ida = TRUE]
    <3>1. config'[IdaConfig] = config[IdaConfig] /\ IdaConfig \notin touched
      BY <2>2, <2>4, InstallerAssumption
    <3>2. Loaded(IdaConfig)' = Loaded(IdaConfig) /\ (Readable(IdaConfig)' <=> Readable(IdaConfig))
      BY <3>1 DEF Loaded, Readable
    <3> QED BY <2>3, <2>4, <3>1, <3>2 DEF MemoryInv
  <2>5. ASSUME at = "clients", memory # None
        PROVE  (/\ todo # <<>>
                /\ Head(todo) \in touched => AllTouched(FileOf[Head(todo)])
                /\ Head(todo) \notin touched => Current(Head(todo)))'
    <3>1. PICK h \in Clients : h = Head(todo)
      BY <2>5, HeadIsClient DEF MemoryInv
    <3>2. /\ todo # <<>> /\ h = Head(todo')
          /\ h \in touched => AllTouched(FileOf[h])
          /\ h \notin touched => Current(h)
      BY <2>3, <2>5, <3>1 DEF MemoryInv
    <3>3. ASSUME h \in touched' PROVE \A d \in Clients : FileOf[d] = FileOf[h] => d \in touched'
      BY <2>2, <3>2, <3>3 DEF AllTouched
    <3>4. ASSUME h \notin touched' PROVE Readable(FileOf[h])' /\ memory' = Mutated(h)'
      <4>1. h \notin touched /\ FileOf[h] # f /\ FileOf[h] \in File
        BY <2>2, <3>4, InstallerAssumption
      <4>2. config'[FileOf[h]] = config[FileOf[h]]
        BY <2>2, <4>1
      <4>3. Readable(FileOf[h]) /\ memory = Mutated(h)
        BY <3>2, <4>1 DEF Current
      <4> QED BY <2>3, <4>2, <4>3, SameFile
    <3> QED BY <2>3, <3>2, <3>3, <3>4 DEF AllTouched, Current
  <2> QED BY <2>3, <2>4, <2>5 DEF MemoryInv
<1>11. CASE UNCHANGED vars
  BY <1>11 DEF vars, MemoryInv, AllTouched, Current, Readable, Mutated, Loaded, Servers
<1> QED BY <1>1, <1>3, <1>4, <1>5, <1>6, <1>7, <1>8, <1>9, <1>10, <1>11 DEF Next, Work
-----------------------------------------------------------------------------
(***************************************************************************)
(* The clients the command has passed.                                     *)
(***************************************************************************)

LEMMA NonePassed == todo = Client => Passed = {}
BY DEF Passed, Clients

LEMMA AllPassed == todo = <<>> => Passed = Clients
<1>1. ToSet(<<>>) = {}
  BY DEF ToSet
<1> QED BY <1>1 DEF Passed

LEMMA PassedOne ==
    ASSUME TodoInv, todo # <<>>, todo' = Tail(todo)
    PROVE  /\ Passed' = Passed \cup {Head(todo)}
           /\ Head(todo) \in Clients /\ Head(todo) \notin Passed
           /\ \A d \in Passed : FileOf[d] = FileOf[Head(todo)] => d \in Extensions
<1>1. /\ Head(todo) \in Clients
      /\ ToSet(todo) = {Head(todo)} \cup ToSet(Tail(todo))
      /\ Head(todo) \notin ToSet(Tail(todo))
      /\ \A c \in Clients \ ToSet(todo) : FileOf[c] = FileOf[Head(todo)] => c \in Extensions
  BY RestTail DEF TodoInv
<1> QED BY <1>1 DEF Passed

LEMMA SameFinished ==
    ASSUME NEW c, config'[FileOf[c]] = config[FileOf[c]], cmd' = cmd,
           c \in marked' <=> c \in marked, Finished(c)
    PROVE  Finished(c)'
BY DEF Finished, Removed, Installed, InstalledFor

\* A client that is not there or needs no change is as the command leaves it.
LEMMA SkipFinishes ==
    ASSUME InstallerTypes, NEW c \in Clients, Skip(c)
    PROVE  Finished(c)
<1> DEFINE f == FileOf[c]
<1>1. \/ ~Detected(c)
      \/ Readable(f) /\ Mutated(c) = Loaded(f)
  BY DEF Skip
<1>2. f \in File
  BY InstallerAssumption
<1>3. CASE ~Detected(c)
  BY <1>3, NoneAssumption DEF Detected, Finished, Removed, Installed
<1>4. CASE Readable(f) /\ Mutated(c) = Loaded(f)
  <2> DEFINE s == Loaded(f).servers
  <2>1. /\ Loaded(f) \in Content /\ config[f] \in Content \cup {None}
        /\ config[f] \in Content => Loaded(f) = config[f]
        /\ Servers(c, s) = s
    BY <1>2, <1>4, LoadedContent, MutatedContent
  <2>2. ASSUME cmd = "uninstall" PROVE Removed(c)
    <3>1. ({SectionOf[c]} \X Named) \cap s = {}
      BY <2>1, <2>2, ServersRemoved
    <3> QED BY <2>1, <3>1 DEF Removed
  <2>3. ASSUME cmd = "install" PROVE Installed(c)
    <3>1. s \cap ({SectionOf[c]} \X Ours) = {<<SectionOf[c], "current">>}
      <4> HIDE DEF s
      <4> QED BY ONLY <2>1, <2>3, ServersInstalled
    <3>2. config[f] # None
      BY <3>1 DEF Loaded, Blank
    <3> QED BY <2>1, <3>1, <3>2 DEF Installed, InstalledFor
  <2> QED BY <2>2, <2>3 DEF Finished
<1> QED BY <1>1, <1>3, <1>4

\* Replacing the configuration of one client finishes it, and keeps what is
\* finished for the extensions that have the same file.
LEMMA ReplaceFinishes ==
    ASSUME InstallerTypes, NEW c \in Clients, Current(c), cmd' = cmd,
           config' = [config EXCEPT ![FileOf[c]] = memory],
           NEW d \in Clients,
           \/ d = c
           \/ /\ Finished(d)
              /\ FileOf[d] = FileOf[c] => d \in Extensions
              /\ d \in marked' <=> d \in marked
    PROVE  Finished(d)'
<1> DEFINE f == FileOf[c]
           s == Loaded(f).servers
<1>1. f \in File /\ FileOf[d] \in File
  BY InstallerAssumption
<1>2. Readable(f) /\ memory = Mutated(c)
  BY DEF Current
<1>3. /\ Loaded(f) \in Content /\ config[f] \in Content \cup {None}
      /\ config[f] \in Content => Loaded(f) = config[f]
      /\ Mutated(c) \in Content /\ Mutated(c).servers = Servers(c, s)
  BY <1>1, <1>2, LoadedContent, MutatedContent
<1>4. CASE FileOf[d] # f
  <2>1. config'[FileOf[d]] = config[FileOf[d]] /\ d # c
    BY <1>1, <1>4 DEF InstallerTypes
  <2> QED BY <2>1, SameFinished
<1>5. CASE FileOf[d] = f
  <2>1. config'[FileOf[d]] = Mutated(c)
    BY <1>1, <1>2, <1>5 DEF InstallerTypes
  <2>2. ASSUME cmd = "uninstall" PROVE Removed(d)'
    <3>1. d = c \/ ({SectionOf[d]} \X Named) \cap s = {}
      <4>1. CASE d # c /\ config[f] \in Content
        BY <1>3, <1>5, <2>2, <4>1 DEF Finished, Removed
      <4>2. CASE config[f] = None
        BY <4>2 DEF Loaded, Blank
      <4> QED BY <1>3, <4>1, <4>2
    <3>2. ({SectionOf[d]} \X Named) \cap Servers(c, s) = {}
      BY <2>2, <3>1, ServersRemoved
    <3> QED BY <1>3, <2>1, <3>2 DEF Removed
  <2>3. ASSUME cmd = "install", d \in marked \/ d = c PROVE InstalledFor(d)'
    <3>1. d = c \/ s \cap ({SectionOf[d]} \X Ours) = {<<SectionOf[d], "current">>}
      BY <1>3, <1>5, <2>3 DEF Finished, Installed, InstalledFor
    <3>2. Servers(c, s) \cap ({SectionOf[d]} \X Ours) = {<<SectionOf[d], "current">>}
      <4> HIDE DEF s
      <4>1. \A e, t : e = c \/ t \cap ({SectionOf[e]} \X Ours) = {<<SectionOf[e], "current">>} =>
               Servers(c, t) \cap ({SectionOf[e]} \X Ours) = {<<SectionOf[e], "current">>}
        BY <2>3, ServersInstalled
      <4> QED BY <3>1, <4>1, Zenon
    <3> QED BY <1>3, <2>1, <3>2 DEF InstalledFor
  <2>4. ASSUME cmd = "install" PROVE Installed(d)'
    <3>1. d = c \/ d \in Extensions
      BY <1>5
    <3> QED BY <2>3, <2>4, <3>1 DEF Installed
  <2> QED BY <2>2, <2>4 DEF Finished
<1> QED BY <1>4, <1>5

LEMMA PassedStep ==
    ASSUME InstallerTypes, PlaceInv, TodoInv, MemoryInv, PassedInv, [Next]_vars
    PROVE  PassedInv'
<1> USE DEF Go, Step, Kept, work
<1>1. at' # "clients" => PassedInv'
  BY DEF PassedInv
<1>2. ASSUME todo' = Client PROVE PassedInv'
  <2>1. Passed' = {}
    BY <1>2 DEF Passed, Clients
  <2> QED BY <2>1 DEF PassedInv
<1>3. ASSUME UNCHANGED <<config, cmd, marked, at, todo, failures>>,
             Passed \ (touched' \cup failures') \subseteq Passed \ (touched \cup failures)
      PROVE  PassedInv'
  <2>1. Passed' = Passed
    BY <1>3 DEF Passed
  <2>2. \A c \in Passed : c \in Clients
    BY DEF Passed
  <2> QED BY <1>3, <2>1, <2>2, SameFinished DEF PassedInv
<1>4. ASSUME NEW c \in {"install", "uninstall"}, NEW e \in BOOLEAN, Start(c, e)
      PROVE  PassedInv'
  BY <1>1, <1>4 DEF Start
<1>5. ASSUME NEW r, End(r) PROVE PassedInv'
  BY <1>1, <1>5 DEF End
<1>6. CASE Raise \/ Die \/ Return
  BY <1>5, <1>6 DEF Raise, Die, Return
<1>7. CASE \/ PlaceLoader \/ OldUnlinked \/ LoadersUnlinked
           \/ \E l \in Loaders : UnlinkOld(l) \/ UnlinkLoader(l)
  BY <1>1, <1>7 DEF PlaceLoader, OldUnlinked, LoadersUnlinked, UnlinkOld, UnlinkLoader
<1>8. CASE RemoveRegistry \/ ReplaceIda
  <2>1. at \notin {"out", "clients"} /\ todo' = todo
    BY <1>8 DEF RemoveRegistry, ReplaceIda
  <2> QED BY <1>2, <2>1 DEF PlaceInv
<1>9. CASE IdaFails
  <2>1. CASE \E r : End(r)
    BY <1>5, <2>1
  <2>2. CASE todo' = todo /\ at = "ida"
    BY <1>2, <2>2 DEF PlaceInv
  <2> QED BY <1>9, <2>1, <2>2 DEF IdaFails
<1>10. CASE ReadIda
  BY <1>1, <1>10 DEF ReadIda
<1>11. ASSUME NEW c \in Clients, ReadConfig(c) PROVE PassedInv'
  <2>1. /\ c = Head(todo) /\ todo # <<>> /\ touched' = touched \ {c}
        /\ UNCHANGED <<config, cmd, marked, at, todo, failures>>
    BY <1>11 DEF ReadConfig, At
  <2>2. PICK k \in 0..Len(Client) : Rest(todo, k)
    BY DEF TodoInv
  <2>3. ToSet(todo) = {c} \cup ToSet(Tail(todo))
    BY <2>1, <2>2, RestTail
  <2> QED BY <1>3, <2>1, <2>3 DEF Passed
<1>12. ASSUME NEW c \in Clients, Skip(c) PROVE PassedInv'
  <2>1. /\ c = Head(todo) /\ todo # <<>> /\ todo' = Tail(todo) /\ touched' = touched \ {c}
        /\ UNCHANGED <<config, cmd, marked, at, failures>>
    BY <1>12 DEF Skip, At, Pass
  <2>2. Passed' = Passed \cup {c} /\ c \notin Passed
    BY <2>1, PassedOne
  <2>3. Finished(c)
    BY <1>12, SkipFinishes
  <2>4. \A d : Finished(d) => Finished(d)'
    BY <2>1, SameFinished
  <2>5. ASSUME at' = "clients", NEW d \in Passed' \ (touched' \cup failures') PROVE Finished(d)'
    <3>1. d = c \/ d \in Passed \ (touched \cup failures)
      BY <2>1, <2>2, <2>5
    <3> QED BY <2>1, <2>3, <2>4, <2>5, <3>1 DEF PassedInv
  <2> QED BY <2>5 DEF PassedInv
<1>13. ASSUME NEW c \in Clients, ReplaceConfig(c) PROVE PassedInv'
  <2>1. /\ at = "clients" /\ c = Head(todo) /\ todo # <<>> /\ todo' = Tail(todo) /\ memory # None
        /\ config' = [config EXCEPT ![FileOf[c]] = memory] /\ MakeDirectory(c)
        /\ UNCHANGED <<cmd, at, failures, touched>>
    BY <1>13 DEF ReplaceConfig, At, Pass
  <2>2. /\ Passed' = Passed \cup {c}
        /\ \A d \in Passed : FileOf[d] = FileOf[c] => d \in Extensions
    BY <2>1, PassedOne
  <2>3. /\ c \in touched => AllTouched(FileOf[c])
        /\ c \notin touched => Current(c)
    BY <2>1 DEF MemoryInv
  <2>4. ASSUME NEW d \in Clients, d \in Passed \cup {c}, d \notin touched \cup failures
        PROVE  Finished(d)'
    <3>1. d = c \/ (Finished(d) /\ (d \in marked' <=> d \in marked))
      BY <2>1, <2>2, <2>4 DEF PassedInv, MakeDirectory
    <3>2. CASE c \notin touched
      BY <2>1, <2>2, <2>3, <2>4, <3>1, <3>2, ReplaceFinishes
    <3>3. CASE c \in touched
      <4>1. FileOf[d] # FileOf[c] /\ d # c
        BY <2>3, <2>4, <3>3 DEF AllTouched
      <4>2. config'[FileOf[d]] = config[FileOf[d]]
        BY <2>1, <4>1, InstallerAssumption DEF InstallerTypes
      <4> QED BY <2>1, <3>1, <4>1, <4>2, SameFinished
    <3> QED BY <3>2, <3>3
  <2> QED BY <2>1, <2>2, <2>4 DEF PassedInv, Passed
<1>14. ASSUME NEW c \in Clients, ClientFails(c) PROVE PassedInv'
  <2>1. /\ at = "clients" /\ c = Head(todo) /\ todo # <<>> /\ todo' = Tail(todo)
        /\ failures' = failures \cup {c} /\ (marked' = marked \/ MakeDirectory(c))
        /\ UNCHANGED <<config, cmd, at, touched>>
    BY <1>14 DEF ClientFails, At, Pass
  <2>2. /\ Passed' = Passed \cup {c}
        /\ \A d \in Passed : FileOf[d] = FileOf[c] => d \in Extensions
    BY <2>1, PassedOne
  <2>3. ASSUME NEW d \in Passed' \ (touched' \cup failures') PROVE Finished(d)'
    <3>1. d \in Passed /\ d \notin touched \cup failures
      BY <2>1, <2>2, <2>3
    <3>2. Finished(d) /\ (d \in marked' <=> d \in marked)
      BY <2>1, <2>2, <3>1 DEF PassedInv, MakeDirectory
    <3> QED BY <2>1, <3>2, SameFinished
  <2> QED BY <2>3 DEF PassedInv
<1>15. CASE Others
  <2>1. PICK f \in File, servers \in SUBSET Entries, n \in Nat : Edit(f, servers, n)
    BY <1>15, AnEdit
  <2>2. /\ \A g \in File : g # f => config'[g] = config[g]
        /\ \A d \in Clients : d \in touched' <=> d \in touched \/ FileOf[d] = f
    BY <2>1, EditContent
  <2>3. UNCHANGED <<cmd, marked, at, todo, failures>>
    BY <2>1 DEF Edit
  <2>4. ASSUME at = "clients", NEW d \in Passed \ (touched' \cup failures) PROVE Finished(d)'
    <3>1. d \in Clients /\ d \notin touched /\ FileOf[d] # f /\ FileOf[d] \in File
      BY <2>2, <2>4, InstallerAssumption DEF Passed
    <3>2. Finished(d)
      BY <2>4, <3>1 DEF PassedInv
    <3> QED BY <2>2, <2>3, <3>1, <3>2, SameFinished
  <2> QED BY <2>3, <2>4 DEF PassedInv, Passed
<1>16. CASE UNCHANGED vars
  BY <1>3, <1>16 DEF vars
<1> QED
  BY <1>4, <1>6, <1>7, <1>8, <1>9, <1>10, <1>11, <1>12, <1>13, <1>14, <1>15, <1>16 DEF Next, Work

\* A command that ends well has passed every client.
LEMMA ResultStep ==
    ASSUME InstallerTypes, PlaceInv, TodoInv, PassedInv, ResultInv, [Next]_vars
    PROVE  ResultInv'
<1> USE DEF Go, Step, Kept, work
<1>0. /\ <<"install", "ok">> \in {"install", "uninstall"} \X {"ok"}
      /\ <<"uninstall", "ok">> \in {"install", "uninstall"} \X {"ok"}
  OBVIOUS
<1>1. ASSUME result' = None PROVE ResultInv'
  BY <1>0, <1>1, NoneAssumption DEF ResultInv
<1>2. ASSUME NEW r, r # "ok", End(r) PROVE ResultInv'
  BY <1>2 DEF End, ResultInv
<1>3. CASE Raise \/ Die
  BY <1>2, <1>3 DEF Raise, Die
<1>4. CASE Return
  <2>1. /\ at = "clients" /\ todo = <<>> /\ config' = config /\ marked' = marked
        /\ touched' = touched /\ failures' = failures
        /\ result' = <<cmd, IF cmd = "uninstall" /\ failures # {} THEN "failed" ELSE "ok">>
    BY <1>4 DEF Return, End
  <2>2. \A c \in Clients \ (touched \cup failures) : Finished(c)
    BY <2>1, AllPassed DEF PassedInv
  <2>3. \A c : (Removed(c)' <=> Removed(c)) /\ (Installed(c)' <=> Installed(c))
    BY <2>1 DEF Removed, Installed, InstalledFor
  <2>4. ASSUME result' = <<"uninstall", "ok">> PROVE \A c \in Clients \ touched' : Removed(c)'
    <3>1. cmd = "uninstall" /\ failures = {}
      BY <2>1, <2>4
    <3> QED BY <2>1, <2>2, <2>3, <3>1 DEF Finished
  <2>5. ASSUME result' = <<"install", "ok">>
        PROVE  \A c \in Clients \ (touched' \cup failures') : Installed(c)'
    <3>1. cmd = "install"
      BY <2>1, <2>5
    <3> QED BY <2>1, <2>2, <2>3, <3>1 DEF Finished
  <2> QED BY <2>4, <2>5 DEF ResultInv
<1>5. ASSUME NEW c \in {"install", "uninstall"}, NEW e \in BOOLEAN, Start(c, e)
      PROVE  ResultInv'
  BY <1>1, <1>5 DEF Start
<1>6. ASSUME cmd # None, result' = result PROVE ResultInv'
  BY <1>1, <1>6 DEF PlaceInv
<1>7. CASE IdaFails
  BY <1>2, <1>6, <1>7, NoneAssumption DEF IdaFails, PlaceInv
<1>8. CASE \/ PlaceLoader \/ OldUnlinked \/ LoadersUnlinked \/ RemoveRegistry
           \/ \E l \in Loaders : UnlinkOld(l) \/ UnlinkLoader(l)
           \/ ReadIda \/ ReplaceIda
           \/ \E c \in Clients : ReadConfig(c) \/ Skip(c) \/ ReplaceConfig(c) \/ ClientFails(c)
  <2>1. at # "out" /\ result' = result
    BY <1>8 DEF PlaceLoader, OldUnlinked, LoadersUnlinked, RemoveRegistry, UnlinkOld, UnlinkLoader,
       ReadIda, ReplaceIda, ReadConfig, Skip, ReplaceConfig, ClientFails, At
  <2> QED BY <1>6, <2>1 DEF PlaceInv
<1>9. CASE Others
  <2>1. PICK f \in File, servers \in SUBSET Entries, n \in Nat : Edit(f, servers, n)
    BY <1>9, AnEdit
  <2>2. /\ \A g \in File : g # f => config'[g] = config[g]
        /\ \A d \in Clients : d \in touched' <=> d \in touched \/ FileOf[d] = f
    BY <2>1, EditContent
  <2>3. UNCHANGED <<result, marked, failures>>
    BY <2>1 DEF Edit
  <2>4. ASSUME NEW c \in Clients, c \notin touched'
        PROVE  /\ c \notin touched
               /\ Removed(c) => Removed(c)'
               /\ Installed(c) => Installed(c)'
    <3>1. c \notin touched /\ config'[FileOf[c]] = config[FileOf[c]]
      BY <2>2, <2>4, InstallerAssumption
    <3> QED BY <2>3, <3>1 DEF Removed, Installed, InstalledFor
  <2> QED BY <2>3, <2>4 DEF ResultInv
<1>10. CASE UNCHANGED vars
  BY <1>10 DEF vars, ResultInv, Removed, Installed, InstalledFor
<1> QED BY <1>3, <1>4, <1>5, <1>7, <1>8, <1>9, <1>10 DEF Next, Work
-----------------------------------------------------------------------------
(***************************************************************************)
(* The theorems.                                                           *)
(***************************************************************************)
LEMMA InvInit == Init => InstallerInv
<1> SUFFICES ASSUME Init PROVE InstallerInv
  OBVIOUS
<1>1. LoadersInv /\ ResultInv
  <2>1. result = None
    BY DEF Init
  <2>2. /\ <<"install", "ok">> \in {"install", "uninstall"} \X {"ok"}
        /\ <<"uninstall", "ok">> \in {"install", "uninstall"} \X {"ok"}
    OBVIOUS
  <2>3. result # <<"install", "ok">> /\ result # <<"uninstall", "ok">>
    BY <2>1, <2>2, NoneAssumption
  <2> QED BY <2>3 DEF Init, LoadersInv, ResultInv
<1>2. PassedInv
  BY DEF Init, PassedInv
<1> QED BY <1>1, <1>2, TypesInit, PlaceInit, MemoryInit DEF InstallerInv

LEMMA InvStep == InstallerInv /\ [Next]_vars => InstallerInv'
<1> SUFFICES ASSUME InstallerInv, [Next]_vars PROVE InstallerInv'
  OBVIOUS
<1>1. InstallerTypes /\ PlaceInv /\ TodoInv /\ LoadersInv /\ MemoryInv /\ PassedInv /\ ResultInv
  BY DEF InstallerInv
<1>2. InstallerTypes'
  BY <1>1, TypesStep
<1>3. PlaceInv' /\ TodoInv'
  BY <1>1, PlaceStep
<1>4. LoadersInv'
  BY <1>1, LoadersStep
<1>5. MemoryInv'
  BY <1>1, MemoryStep
<1>6. PassedInv'
  BY <1>1, PassedStep
<1>7. ResultInv'
  BY <1>1, ResultStep
<1> QED BY <1>2, <1>3, <1>4, <1>5, <1>6, <1>7 DEF InstallerInv

LEMMA InstallerInvariant == Spec => []InstallerInv
<1> QED BY InvInit, InvStep, PTL DEF Spec

\* A command that says it is done has done its work: no loader and no entry of
\* our name is left, or one loader and the present entry with every client it
\* found, except at the clients whose file others wrote since and those it said it
\* failed for (cmd_install and cmd_uninstall, the loop of install_mcp_servers).
THEOREM DoneCorrect == Spec => []DoneMeansDone
<1>1. InstallerInv => DoneMeansDone
  <2> SUFFICES ASSUME InstallerInv PROVE DoneMeansDone
    OBVIOUS
  <2>1. PlaceInv /\ LoadersInv /\ ResultInv
    BY DEF InstallerInv
  <2>2. /\ <<"install", "ok">> \in {"install", "uninstall"} \X {"ok"}
        /\ <<"uninstall", "ok">> \in {"install", "uninstall"} \X {"ok"}
    OBVIOUS
  <2>3. ASSUME result = <<"uninstall", "ok">>
        PROVE  loaders = {} /\ \A c \in Clients \ touched : Removed(c)
    BY <2>1, <2>3 DEF LoadersInv, ResultInv
  <2>4. ASSUME result = <<"install", "ok">>
        PROVE  /\ loaders = {"loader"}
               /\ \A c \in Clients \ (touched \cup failures) : Detected(c) => InstalledFor(c)
    <3>1. result # None
      BY <2>2, <2>4, NoneAssumption
    <3>2. cmd # "uninstall"
      BY <2>1, <3>1, NoneAssumption DEF PlaceInv
    <3> QED BY <2>1, <2>4, <3>2 DEF LoadersInv, ResultInv, Installed, Detected
  <2> QED BY <2>3, <2>4 DEF DoneMeansDone, Removed
<1> QED BY <1>1, InstallerInvariant, PTL

\* Once there is a loader, no step of an installation, and no failure or death
\* of one, leaves IDA without one (cmd_install unlinks the loaders of older
\* versions after the new one is in place).
THEOREM LoaderStays == Spec => LoaderKept
<1>1. InstallerInv /\ [Next]_vars => [cmd # "uninstall" /\ loaders # {} => loaders' # {}]_vars
  <2> SUFFICES ASSUME InstallerInv, [Next]_vars, cmd # "uninstall", loaders # {}
               PROVE  loaders' # {} \/ UNCHANGED vars
    OBVIOUS
  <2>1. LoadersInv
    BY DEF InstallerInv
  <2>2. CASE PlaceLoader
    BY <2>2 DEF PlaceLoader
  <2>3. ASSUME NEW l, UnlinkOld(l) PROVE "loader" \in loaders'
    BY <2>1, <2>3 DEF UnlinkOld, LoadersInv
  <2>4. ASSUME NEW l PROVE ~UnlinkLoader(l)
    BY DEF UnlinkLoader
  <2>5. CASE \/ \E c \in {"install", "uninstall"}, e \in BOOLEAN : Start(c, e)
             \/ Raise \/ Die \/ Return \/ Others
             \/ OldUnlinked \/ LoadersUnlinked \/ RemoveRegistry
             \/ IdaFails \/ ReadIda \/ ReplaceIda
             \/ \E c \in Clients : ReadConfig(c) \/ Skip(c) \/ ReplaceConfig(c) \/ ClientFails(c)
    <3>1. loaders' = loaders
      BY <2>5 DEF Start, Raise, Die, Return, Others, Edit, OldUnlinked, LoadersUnlinked,
         RemoveRegistry, IdaFails, ReadIda, ReplaceIda, ReadConfig, Skip, ReplaceConfig, ClientFails
    <3> QED BY <3>1
  <2> QED BY <2>2, <2>3, <2>4, <2>5 DEF Next, Work
<1> QED BY <1>1, InstallerInvariant, PTL DEF Spec, LoaderKept

\* One step and one file of UsersKept.
KeepsUsers(f) ==
    config'[f] # config[f] /\ edits' = edits
    /\ ~Overtaken(f) =>
       /\ config[f] # Bad
       /\ Users(config'[f]) = Users(Loaded(f))

LEMMA UsersStep ==
    ASSUME InstallerInv, [Next]_vars, NEW f \in File
    PROVE  KeepsUsers(f)
<1> USE DEF Go, Step, Kept, work
<1>0. InstallerTypes /\ PlaceInv /\ TodoInv /\ MemoryInv
  BY DEF InstallerInv
<1>1. ASSUME config' = config PROVE KeepsUsers(f)
  BY <1>1 DEF KeepsUsers
<1>2. CASE ReplaceIda
  <2>1. at = "ida" /\ memory # None /\ config' = [config EXCEPT ![IdaConfig] = memory]
    BY <1>2 DEF ReplaceIda
  <2>2. config'[f] # config[f] => f = IdaConfig /\ config'[f] = memory
    BY <1>0, <2>1 DEF InstallerTypes
  <2>3. CASE IdaConfig \in touched
    BY <2>1, <2>2, <2>3 DEF KeepsUsers, Overtaken
  <2>4. CASE IdaConfig \notin touched
    <3>1. Readable(IdaConfig) /\ memory = [Loaded(IdaConfig) EXCEPT !.ida = TRUE]
      BY <1>0, <2>1, <2>4 DEF MemoryInv
    <3>2. Users(memory) = Users(Loaded(IdaConfig))
      BY <1>0, <3>1, IdaContent
    <3> QED BY <2>2, <3>1, <3>2 DEF KeepsUsers, Readable
  <2> QED BY <2>3, <2>4
<1>3. ASSUME NEW c \in Clients, ReplaceConfig(c) PROVE KeepsUsers(f)
  <2>1. At(c) /\ memory # None /\ config' = [config EXCEPT ![FileOf[c]] = memory]
    BY <1>3 DEF ReplaceConfig
  <2>2. c \notin touched => Current(c)
    BY <1>0, <2>1 DEF At, MemoryInv
  <2>3. config'[f] # config[f] => f = FileOf[c] /\ config'[f] = memory
    BY <1>0, <2>1 DEF InstallerTypes
  <2>4. CASE c \notin touched
    <3>1. Readable(FileOf[c]) /\ Users(memory) = Users(Loaded(FileOf[c]))
      BY <1>0, <2>2, <2>4, MutatedContent DEF Current
    <3> QED BY <2>3, <3>1 DEF KeepsUsers, Readable
  <2>5. CASE c \in touched
    BY <2>1, <2>3, <2>5 DEF KeepsUsers, Overtaken
  <2> QED BY <2>4, <2>5
<1>4. CASE Others
  <2>1. PICK g \in File, servers \in SUBSET Entries, n \in Nat : Edit(g, servers, n)
    BY <1>0, <1>4, AnEdit
  <2>2. edits' = edits + 1 /\ edits \in Nat
    BY <1>0, <2>1 DEF Edit, InstallerTypes
  <2> QED BY <2>2, NextNat DEF KeepsUsers
<1>5. CASE \/ \E c \in {"install", "uninstall"}, e \in BOOLEAN : Start(c, e)
           \/ Raise \/ Die \/ Return \/ UNCHANGED vars
           \/ PlaceLoader \/ OldUnlinked \/ LoadersUnlinked \/ RemoveRegistry
           \/ \E l \in Loaders : UnlinkOld(l) \/ UnlinkLoader(l)
           \/ IdaFails \/ ReadIda
           \/ \E c \in Clients : ReadConfig(c) \/ Skip(c) \/ ClientFails(c)
  <2>1. config' = config
    BY <1>5 DEF Start, Raise, Die, Return, PlaceLoader, OldUnlinked, LoadersUnlinked, UnlinkOld,
       UnlinkLoader, RemoveRegistry, IdaFails, ReadIda, ReadConfig, Skip, ClientFails, vars
  <2> QED BY <1>1, <2>1
<1> QED BY <1>2, <1>3, <1>4, <1>5 DEF Next, Work

\* Whatever the command does, everything its user has in a configuration beside
\* the entries of our names stays, and a file that cannot be parsed is not written:
\* the change that replaces a file is that of what the file says now, or others
\* wrote it since it was read
\* (_mutate_client_config, _configure_idalib_path, _replace_or_overwrite_file).
THEOREM UsersStay == Spec => UsersKept
<1>1. InstallerInv /\ [Next]_vars =>
         [\A f \in File :
             config'[f] # config[f] /\ edits' = edits /\ ~Overtaken(f) =>
                /\ config[f] # Bad
                /\ Users(config'[f]) = Users(Loaded(f))]_vars
  BY UsersStep DEF KeepsUsers
<1> QED BY <1>1, InstallerInvariant, PTL DEF Spec, UsersKept
=============================================================================
