------------------------------ MODULE Startup ------------------------------
(***************************************************************************)
(* From the configuration file to a serving process: main, with            *)
(* CConfigFileReader, CStrExplode, DBManager and CacheManager.             *)
(*                                                                         *)
(* A file is a sequence of lines, a line a sequence of words and of the    *)
(* characters that mean something to the reader: "=", "#", "," and " "     *)
(* (which is also the tab).  A key is a sequence of words, too: the host   *)
(* of instance <<"a">> is configured under <<"a", "_host">>, its limit     *)
(* under <<"a", "_max", "conn", "cnt">>.  A word of a key stands for some  *)
(* four characters, so that long keys have more words than short ones; a   *)
(* key that does not fit its buffer is cut between two of its words.       *)
(***************************************************************************)
EXTENDS Integers, SequencesExt

CONSTANTS
  Files,    \* the configuration files, Missing among them
  Missing,  \* a path that cannot be opened
  Servers,  \* the accounts MySQL and Redis know: the settings they let in
  LineMax,  \* 255: fgets reads as much of a line at once
  KeyMax,   \* 63: snprintf writes as much of a key into char[64]
  NULL,     \* the null pointer
  Junk      \* a pointer nobody has initialised

\* What the lines are made of, and main's settings.
Characters == UNION {UNION {Range(f[i]) : i \in DOMAIN f} : f \in Files \ {Missing}}
Text == Seq(Characters)
UploadSettings == {<<"dfs_path_client">>, <<"storage_web_server_ip">>, <<"storage_web_server_port">>}

ASSUME StartupAssumption ==
  /\ LineMax \in Nat \ {0} /\ KeyMax \in Nat
  /\ \A f \in Files \ {Missing} : f \in Seq(Text)
  /\ NULL \notin Text \cup Seq(Text \cup {Junk}) \cup [UploadSettings -> Text]
  /\ Junk \notin Text

VARIABLES
  file,     \* what the path given to main names
  up,       \* the accounts that are let in now: their servers answer
  pc,       \* where main is: "load", then the two managers, then "serving"
  reader,   \* the CConfigFileReader that main, or the manager at work, has made
  todo,     \* the instances the manager at work still has to open
  settings, \* the three settings apiUploadInit was given
  pools     \* [manager -> its map from instance names to pools]

vars == <<file, up, pc, reader, todo, settings, pools>>

-----------------------------------------------------------------------------
(* CConfigFileReader                                                       *)

\* fgets: a line longer than the buffer is read as several.
Chunks(line) ==
  [i \in 1 .. (Len(line) + LineMax - 1) \div LineMax |->
     SubSeq(line, (i - 1) * LineMax + 1, IF i * LineMax < Len(line) THEN i * LineMax ELSE Len(line))]

\* The first place of c in s, one past the end if there is none.
FirstOf(s, c) == CHOOSE i \in 1 .. Len(s) + 1 :
  (i = Len(s) + 1 \/ s[i] = c) /\ \A j \in 1 .. i - 1 : s[j] # c

\* _LoadFile removes what starts with #.
StripComment(s) == SubSeq(s, 1, FirstOf(s, "#") - 1)

\* Mutant of TrimSpace: only the front is trimmed.
TrimFront(s) == LET ink == {i \in DOMAIN s : s[i] # " "}
                IN  SubSeq(s, IF ink = {} THEN Len(s) + 1 ELSE Min(ink), Len(s))

\* _TrimSpace (<<>> stands for the NULL it returns when nothing is left).
TrimSpace(s) == LET ink == {i \in DOMAIN s : s[i] # " "}
                IN  IF ink = {} THEN <<>> ELSE SubSeq(s, Min(ink), Max(ink))

\* _ParseLine splits at the first =.
Pair(s) == LET eq == FirstOf(s, "=")
           IN  [key |-> TrimSpace(SubSeq(s, 1, eq - 1)), value |-> TrimSpace(SubSeq(s, eq + 1, Len(s)))]

\* map::insert keeps the value that is there.
Inserted(map, key, value) ==
  [k \in DOMAIN map \cup {key} |-> IF k \in DOMAIN map THEN map[k] ELSE value]

\* _ParseLine needs both.
Insert(map, p) ==
  IF p.key = <<>> \/ p.value = <<>> THEN map ELSE Inserted(map, p.key, p.value)

\* _LoadFile, the loop over what fgets returns.
ReadLine(map, line) ==
  LET parts == Chunks(line)
      after[j \in 0 .. Len(parts)] ==
        IF j = 0 THEN map ELSE Insert(after[j - 1], Pair(StripComment(parts[j])))
  IN  after[Len(parts)]
ConfigMap(lines) ==
  LET after[i \in 0 .. Len(lines)] ==
        IF i = 0 THEN <<>> ELSE ReadLine(after[i - 1], lines[i])
  IN  after[Len(lines)]

\* The readers the constructor may leave behind: load_ok_ is only ever set to
\* true, so that for a file that cannot be opened it is whatever was there.
Readers(f) ==
  IF f = Missing
  THEN [load_ok_ : BOOLEAN, config_map_ : {<<>>}]
  ELSE {[load_ok_ |-> TRUE, config_map_ |-> ConfigMap(f)]}

GetConfigName(name) ==
  IF reader.load_ok_ /\ name \in DOMAIN reader.config_map_ THEN reader.config_map_[name] ELSE NULL

-----------------------------------------------------------------------------
(* CStrExplode                                                             *)

\* A separator ends an item unless it comes where the item would start: then it
\* is the item's first character.
Scan(s, i, before) ==
  IF s[i] = "," /\ i # before.start
  THEN [start |-> i + 1, items |-> Append(before.items, SubSeq(s, before.start, i - 1))]
  ELSE before

\* There are as many items as separators and one more; those that have not been
\* filled are uninitialised pointers.
Items(s) ==
  LET scan[i \in 0 .. Len(s)] ==
        IF i = 0 THEN [start |-> 1, items |-> <<>>] ELSE Scan(s, i, scan[i - 1])
      end == scan[Len(s)]
  IN  IF end.start <= Len(s) THEN Append(end.items, SubSeq(s, end.start, Len(s))) ELSE end.items
Separators(s) == Cardinality({i \in DOMAIN s : s[i] = ","})

Unfilled(s) == [i \in 1 .. Separators(s) + 1 |-> Junk]

\* Mutant of Explode: the count of items starts at 0.
ExplodeShort(s) == SubSeq(Items(s) \o Unfilled(s), 1, Separators(s))

Explode(s) == SubSeq(Items(s) \o Unfilled(s), 1, Separators(s) + 1)

-----------------------------------------------------------------------------
(* DBManager and CacheManager                                              *)

Managers == {"db", "cache"}
List(m)   == IF m = "db" THEN <<"DBInstances">> ELSE <<"CacheInstances">>
Limit     == <<"_max", "conn", "cnt">>
Fields(m) == {<<"_host">>, <<"_port">>, Limit} \cup
             IF m = "db" THEN {<<"_db", "name">>, <<"_user", "name">>, <<"_pass", "word">>}
                         ELSE {<<"_db">>}
\* What a connection is made with.
Login(m)  == Fields(m) \ {Limit}
After(m)  == IF m = "db" THEN "cache" ELSE "serving"

Init ==
  /\ file \in Files
  /\ up \in SUBSET Servers
  /\ pc = "load"
  /\ reader = NULL
  /\ todo = NULL
  /\ settings = NULL
  /\ pools = [m \in Managers |-> <<>>]

\* The constructor of CConfigFileReader: main's, and then each manager's.
OpenConfig ==
  /\ pc \in Managers \cup {"load"}
  /\ reader = NULL
  /\ reader' \in Readers(file)
  /\ UNCHANGED <<file, up, pc, todo, settings, pools>>

\* main up to apiUploadInit, whose parameters are std::strings: one made from
\* a null pointer throws, and nobody catches.
UploadInit ==
  /\ pc = "load" /\ reader # NULL
  /\ LET given == [s \in UploadSettings |-> GetConfigName(s)]
     IN  IF \E s \in UploadSettings : given[s] = NULL
         THEN pc' = "crashed" /\ UNCHANGED <<reader, settings>>
         ELSE pc' = "db" /\ reader' = NULL /\ settings' = given
  /\ UNCHANGED <<file, up, todo, pools>>

\* Mutant of Stop: what init returns is ignored.
StopIgnored(m) == pc' = After(m) /\ UNCHANGED <<pools, reader, todo>>

\* init returns -1, 1, 2 or 3: getInstance deletes the manager (which closes none
\* of the pools it had opened), and main returns.
Stop(m) ==
  /\ pc' = "stopped"
  /\ pools' = [pools EXCEPT ![m] = <<>>]
  /\ UNCHANGED <<reader, todo>>

\* getInstance makes the manager, whose init asks for the list of instances.
BeginInit(m) ==
  /\ pc = m /\ reader # NULL /\ todo = NULL
  /\ LET list == GetConfigName(List(m))
     IN  IF list = NULL
         THEN Stop(m)
         ELSE todo' = Explode(list) /\ UNCHANGED <<pc, reader, pools>>
  /\ UNCHANGED <<file, up, settings>>

\* The key init asks for: what snprintf leaves of it in its buffer.
Key(name, f) == SubSeq(name \o f, 1, IF Len(name \o f) <= KeyMax THEN Len(name \o f) ELSE KeyMax)

\* What init finds out about the instance of that name.
Parameters(name, m) == [f \in Fields(m) |-> GetConfigName(Key(name, f))]

\* One turn of init's loop; DBPool::init (CachePool::Init) fails when the server
\* does not answer, or refuses the user, the password or the database; and
\* map::insert keeps the pool that is there already.
OpenPool(m) ==
  /\ pc = m /\ todo \notin {NULL, <<>>} /\ Head(todo) # Junk
  /\ LET given == Parameters(Head(todo), m)
     IN  IF (\E f \in Fields(m) : given[f] = NULL) \/ [f \in Login(m) |-> given[f]] \notin up
         THEN Stop(m)
         ELSE /\ pools' = [pools EXCEPT ![m] = Inserted(@, Head(todo), given)]
              /\ todo' = Tail(todo)
              /\ UNCHANGED <<pc, reader>>
  /\ UNCHANGED <<file, up, settings>>

\* snprintf is given an item that was never filled in.  The null pointer is
\* printed as "(null)" and no such instance is configured; any other one is read
\* through, or deleted by ~CStrExplode.
OpenJunk(m) ==
  /\ pc = m /\ todo \notin {NULL, <<>>} /\ Head(todo) = Junk
  /\ \/ Stop(m)
     \/ pc' = "crashed" /\ UNCHANGED <<reader, todo, pools>>
  /\ UNCHANGED <<file, up, settings>>

\* init returns 0.  After the second manager main starts the server.
EndInit(m) ==
  /\ pc = m /\ todo = <<>>
  /\ pc' = After(m)
  /\ reader' = NULL
  /\ todo' = NULL
  /\ UNCHANGED <<file, up, settings, pools>>

\* getConn (GetCacheConn) of a manager that is there.
FindPool(m, name) == IF name \in DOMAIN pools[m] THEN pools[m][name] ELSE NULL

\* The loop runs for good, or the process is gone.
Terminating == pc \in {"serving", "stopped", "crashed"} /\ UNCHANGED vars

Next ==
  \/ OpenConfig \/ UploadInit
  \/ \E m \in Managers : BeginInit(m) \/ OpenPool(m) \/ OpenJunk(m) \/ EndInit(m)
  \/ Terminating

Spec == Init /\ [][Next]_vars

-----------------------------------------------------------------------------
TypeOK ==
  /\ file \in Files /\ up \subseteq Servers
  /\ pc \in Managers \cup {"load", "serving", "stopped", "crashed"}
  /\ reader # NULL => pc # "serving"
  /\ todo # NULL => reader # NULL /\ pc \in Managers \cup {"stopped", "crashed"}
  /\ pc \in Managers \cup {"serving"} => settings # NULL
  /\ pools["db"] # <<>> => pc # "load"
  /\ pools["cache"] # <<>> => pc \in {"cache", "serving", "crashed"}

\* What a file says, from how one is written.  A setting is a line with the key
\* before its = and something behind it, space around them and comments left
\* aside; the first such line counts.  A list of instances is what stands between
\* the commas.
Core(s) ==
  LET Spaces(i, j) == \A k \in i .. j : s[k] = " "
  IN  {SubSeq(s, w[1], w[2]) :
         w \in {v \in (DOMAIN s) \X (DOMAIN s) :
                  /\ v[1] <= v[2] /\ s[v[1]] # " " /\ s[v[2]] # " "
                  /\ Spaces(1, v[1] - 1) /\ Spaces(v[2] + 1, Len(s))}}
Said(line, key) ==
  LET body == SubSeq(line, 1, FirstOf(line, "#") - 1)
      eq   == FirstOf(body, "=")
  IN  IF key \in Core(SubSeq(body, 1, eq - 1)) THEN Core(SubSeq(body, eq + 1, Len(body))) ELSE {}
Setting(f, key) ==
  LET at == {i \in DOMAIN f : Said(f[i], key) # {}}
  IN  IF at = {} THEN NULL ELSE CHOOSE v \in Said(f[Min(at)], key) : TRUE
Between(s) ==
  LET cuts  == {0, Len(s) + 1} \cup {i \in DOMAIN s : s[i] = ","}
      spans == {c \in cuts \X cuts : c[1] < c[2] /\ ~ \E k \in cuts : c[1] < k /\ k < c[2]}
  IN  {SubSeq(s, c[1] + 1, c[2] - 1) : c \in spans}

\* No line is longer than the reader's buffer; no key of that instance is longer
\* than init's.
Fits(f)       == \A i \in DOMAIN f : Len(f[i]) <= LineMax
KeysFit(n, m) == \A g \in Fields(m) : Len(n \o g) <= KeyMax

\* A process that serves has a pool for every instance its file lists, found
\* under its name, and no other; the pool of an instance whose keys are not too
\* long is connected as the file says; and the process knows where to upload.
PoolsAsConfigured ==
  pc = "serving" /\ Fits(file) =>
    /\ \A s \in UploadSettings : settings[s] = Setting(file, s) /\ settings[s] # NULL
    /\ \A m \in Managers :
         LET names == Between(Setting(file, List(m)))
         IN  /\ DOMAIN pools[m] = names
             /\ \A n \in names : KeysFit(n, m) =>
                  \A g \in Fields(m) : FindPool(m, n)[g] = Setting(file, n \o g)

\* A file that lacks nothing, and names accounts there are.
Complete(f) ==
  /\ f # Missing /\ Fits(f)
  /\ \A s \in UploadSettings : Setting(f, s) # NULL
  /\ \A m \in Managers :
       /\ Setting(f, List(m)) # NULL
       /\ \A n \in Between(Setting(f, List(m))) :
            /\ n # <<>> /\ KeysFit(n, m)
            /\ \A g \in Fields(m) : Setting(f, n \o g) # NULL
            /\ [g \in Login(m) |-> Setting(f, n \o g)] \in Servers

\* The process does not give up, or die, over such a file when every account is
\* let in (and, since it never gets stuck, it comes to serve).
RefusedForAReason ==
  pc \in {"stopped", "crashed"} => ~ Complete(file) \/ up # Servers
=============================================================================
