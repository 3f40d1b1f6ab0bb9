------------------------------ MODULE Handlers ------------------------------
(***************************************************************************)
(* The request handlers of src/src/api, on the IO threads that run them.   *)
(*                                                                         *)
(* A handler takes a connection from a pool (at most one at a time), sends *)
(* its statements one by one, gives the connection back and answers.  One  *)
(* step is one statement, one Redis command or one external program, with  *)
(* the code up to the next one; threads interleave between them, and the   *)
(* process may die between them.  There are no transactions.               *)
(*                                                                         *)
(* The MySQL server, Redis and FastDFS are external.  Refused is the set   *)
(* of statements MySQL rejects whatever the data: what it holds depends on *)
(* how the handlers spell them and on the schema of the deployment.        *)
(***************************************************************************)
EXTENDS Integers, Sequences, FiniteSetsExt, Functions

CONSTANTS
  Thread,     \* the IO threads
  Requests,   \* the requests clients send
  Users0,     \* rows of user_info at the start: [name, nick]
  Refused,    \* statements MySQL rejects as they are spelt
  Faults,     \* what may fail: "sql", "redis", "dfs", "connect", "crash"
  PoolSize,   \* [pool -> its maxconncnt]
  MaxToken,   \* bound: tokens in Redis at a time
  MaxShare    \* bound: rows of share_picture_list, and random strings per process

Statements == {"find_user", "insert_user", "password", "insert_info", "insert_owner",
               "insert_share", "find_share", "count_shares", "list_shares",
               "count_files", "list_files"}
Pools == {"master", "slave", "token"}

\* The fields that the decoders insist on; one of them asks for a key that is "".
decodeRegistJson        == {"userName", "nickName", "firstPwd"}
decodeLoginJson         == {"user", "pwd"}
decodeSharePictureJson  == {"tokeen", "user", "md5", "filename"}
decodeBrowsePictureJson == {""}
decodePictureListJson   == {"token", "user", "start", "count"}
decodeCountJson         == {"token"}
decodeFilesListJson     == {"token", "user", "start", "count"}

Required ==
  [reg |-> decodeRegistJson, login |-> decodeLoginJson,
   share |-> decodeSharePictureJson, browse |-> decodeBrowsePictureJson,
   shares |-> decodePictureListJson, count |-> decodeCountJson, files |-> decodeFilesListJson]

\* The pool from which the step takes its connection.
PoolOf ==
  [reg |-> "master", reg_insert |-> "master",
   login |-> "slave", login_token |-> "token",
   upload |-> "master", upload_url |-> "master", upload_info |-> "master",
   upload_owner |-> "master",
   share |-> "slave", browse |-> "master", shares |-> "slave", shares_list |-> "slave",
   verify |-> "token", count |-> "slave", files |-> "slave"]

\* A request: the handler that gets it (op), the user, what it is about (a
\* nick name, md5 or urlmd5), the fields it carries, its token, and for a
\* login whether the password is the one in user_info.  An upload carries a
\* form: a sequence of parts, each with a name and a value; the body may end in
\* the last one before the CRLFs that apiUpload looks for (~ends).  It fits when
\* nothing apiUpload copies passes the end of its array.
\* The user and the md5 of an upload are what its form says they are, the user
\* in the parts behind the size.
Describes(r) ==
  /\ \A i \in DOMAIN r.form : r.form[i].name = "file_md5" => r.form[i].value = r.item
  /\ \A i, j \in DOMAIN r.form :
       i < j /\ r.form[i].name = "file_size" /\ r.form[j].name = "user" => r.form[j].value = r.user

ASSUME HandlersAssumption ==
  /\ \A r \in Requests :
       \/ r.op \in DOMAIN Required /\ {"user", "item", "fields", "token", "right"} \subseteq DOMAIN r
       \/ /\ r.op = "upload" /\ {"user", "item", "form", "fits"} \subseteq DOMAIN r
          /\ r.form \in Seq(Range(r.form)) /\ Describes(r)
          /\ \A i \in DOMAIN r.form : i # Len(r.form) => r.form[i].ends
  /\ IsFiniteSet(Thread)
  /\ Refused \subseteq Statements
  /\ Faults \subseteq {"sql", "redis", "dfs", "connect", "crash"}
  /\ PoolSize \in [Pools -> Nat \ {0}]
  /\ MaxToken \in Nat /\ MaxShare \in Nat

VARIABLES
  alive,      \* FALSE between a crash of the process and its restart
  pc,         \* [Thread -> the handler step it is at, or "idle"]
  job,        \* [Thread -> the request it works on]
  held,       \* [Thread -> the pool it has a connection of, or "none"]
  stored,     \* [Thread -> what apiUpload will store: [user, md5, name],
              \*   the fields as <<what was copied, what stands behind it>>]
  leaked,     \* [Pools -> connections that never come back]
  reply,      \* the last answer: [req, code, data]
  users, files, owned, shares,  \* user_info, file_info (md5 -> count), user_file_list,
                                \* share_picture_list
  tokens,     \* Redis: token -> user
  drawn       \* random strings drawn since the process started

tables  == <<users, files, owned, shares>>
threads == <<pc, job, held, stored, reply>>
vars    == <<alive, threads, leaked, tables, tokens, drawn>>

NoRequest == [op |-> "none"]
NoField   == <<"none", "">>
Nothing   == [user |-> NoField, md5 |-> NoField, name |-> NoField]
NoReply   == [req |-> NoRequest, code |-> -1, data |-> -1]

Init ==
  /\ alive = TRUE
  /\ pc = [t \in Thread |-> "idle"]
  /\ job = [t \in Thread |-> NoRequest]
  /\ held = [t \in Thread |-> "none"]
  /\ stored = [t \in Thread |-> Nothing]
  /\ leaked = [p \in Pools |-> 0]
  /\ reply = NoReply
  /\ users = Users0 /\ files = <<>> /\ owned = {} /\ shares = <<>>
  /\ tokens = <<>>
  /\ drawn = 0

-----------------------------------------------------------------------------
Busy       == {t \in Thread : pc[t] # "idle"}
InUse(p)   == Cardinality({t \in Thread : held[t] = p}) + leaked[p]
\* Mutant of HasRoom: one connection too many.
HasRoomForOneMore(p) == InUse(p) <= PoolSize[p]

HasRoom(p) == InUse(p) < PoolSize[p]

May(fault) == fault \in Faults
Runs(st)   == st \notin Refused                 \* the statement can succeed
Fails(st)  == st \in Refused \/ May("sql")      \* it can fail without a reason in the data

IsUser(u) == \E row \in users : row.name = u

\* Mutant of Answer: the connection is not given back.
AnswerKeeps(t, code, data) ==
  /\ pc' = [pc EXCEPT ![t] = "idle"]
  /\ job' = [job EXCEPT ![t] = NoRequest]
  /\ stored' = [stored EXCEPT ![t] = Nothing]
  /\ reply' = [req |-> job[t], code |-> code, data |-> data]
  /\ UNCHANGED <<alive, held>>

\* Answer the client; the AUTO_REL objects give back what the handler holds.
Answer(t, code, data) ==
  /\ pc' = [pc EXCEPT ![t] = "idle"]
  /\ job' = [job EXCEPT ![t] = NoRequest]
  /\ held' = [held EXCEPT ![t] = "none"]
  /\ stored' = [stored EXCEPT ![t] = Nothing]
  /\ reply' = [req |-> job[t], code |-> code, data |-> data]
  /\ UNCHANGED alive

\* Go on with the same connection; or after giving it back.
Go(t, l) ==
  /\ pc' = [pc EXCEPT ![t] = l]
  /\ UNCHANGED <<alive, job, held, stored, reply>>

GoReleased(t, l) ==
  /\ pc' = [pc EXCEPT ![t] = l]
  /\ held' = [held EXCEPT ![t] = "none"]
  /\ UNCHANGED <<alive, job, stored, reply>>

\* The process dies with everything its threads were doing; tables and Redis
\* stay as they are.
Die ==
  /\ alive' = FALSE
  /\ pc' = [t \in Thread |-> "idle"]
  /\ job' = [t \in Thread |-> NoRequest]
  /\ held' = [t \in Thread |-> "none"]
  /\ stored' = [t \in Thread |-> Nothing]
  /\ UNCHANGED reply

Crash == May("crash") /\ alive /\ Die /\ UNCHANGED <<leaked, tables, tokens, drawn>>

\* The new process starts with new pools; rand() is never seeded.
Restart ==
  /\ ~alive /\ alive' = TRUE
  /\ leaked' = [p \in Pools |-> 0]
  /\ drawn' = 0
  /\ UNCHANGED <<threads, tables, tokens>>

-----------------------------------------------------------------------------
\* apiUpload looks for its six fields one behind the other.  It looks for
\* file_name, too, but takes the value of the first part, whatever its name.
UploadForm == <<"file_name", "file_content_type", "file_path", "file_md5", "file_size", "user">>

\* Mutant of PartOf: each field is looked for from the start of the form.
PartOfAnyOrder(form, k, before) ==
  LET found == {i \in DOMAIN form : form[i].name = UploadForm[k]}
  IN  IF found = {} THEN 0 ELSE Min(found)

\* The part whose value becomes field k, behind the parts of the fields before
\* it; 0 when it is not found, or one of them was not.
PartOf(form, k, before) ==
  LET found == {i \in DOMAIN form : form[i].name = UploadForm[k] /\ \A j \in DOMAIN before : before[j] < i}
  IN  IF found = {} \/ 0 \in Range(before) THEN 0 ELSE IF k = 1 THEN 1 ELSE Min(found)
Parts(form) ==
  LET upto[k \in 0 .. Len(UploadForm)] ==
        IF k = 0
        THEN <<>>
        ELSE LET before == upto[k - 1] IN Append(before, PartOf(form, k, before))
  IN  upto[Len(UploadForm)]
PartsOf == [form \in {r.form : r \in {q \in Requests : q.op = "upload"}} |-> Parts(form)]
Field(form, name) == form[PartsOf[form][CHOOSE k \in DOMAIN UploadForm : UploadForm[k] = name]].value

\* The body ends in a part that apiUpload takes: strstr finds no CRLF there, and
\* it goes on from the pointer NULL + 4.
Cut(form) == \E k \in DOMAIN UploadForm : PartsOf[form][k] # 0 /\ ~form[PartsOf[form][k]].ends

\* Parsing such a body, or one that does not fit, may end the process.
Overruns(r) == Cut(r.form) \/ ~r.fits

Decodes(r) ==
  \/ r.op = "upload" /\ PartsOf[r.form][Len(UploadForm)] # 0 /\ ~Cut(r.form)
  \/ r.op # "upload" /\ Required[r.op] \subseteq r.fields

FirstStep(op) == IF op \in {"count", "files"} THEN "verify" ELSE op

\* The bounds: handlers that store something do not begin when it is full.
Room(r) ==
  LET n == Cardinality({t \in Busy : job[t].op = r.op})
  IN  /\ r.op = "login" => n + Cardinality(DOMAIN tokens) < MaxToken
      /\ r.op = "share" => n + Len(shares) < MaxShare /\ n + drawn < MaxShare

\* A request reaches its handler.  apiUpload parses after it has a connection.
Arrive(t, r) ==
  /\ alive /\ pc[t] = "idle" /\ Room(r)
  /\ Decodes(r) \/ r.op = "upload"
  /\ pc' = [pc EXCEPT ![t] = FirstStep(r.op)]
  /\ job' = [job EXCEPT ![t] = r]
  /\ UNCHANGED <<alive, held, stored, reply, leaked, tables, tokens, drawn>>

Undecodable(t, r) ==
  /\ alive /\ pc[t] = "idle"
  /\ ~Decodes(r) /\ r.op # "upload"
  /\ reply' = [req |-> r, code |-> 1, data |-> -1]
  /\ UNCHANGED <<alive, pc, job, held, stored, leaked, tables, tokens, drawn>>

\* getConn, GetCacheConn.
Acquire(t) ==
  /\ pc[t] # "idle" /\ held[t] = "none"
  /\ HasRoom(PoolOf[pc[t]])
  /\ held' = [held EXCEPT ![t] = PoolOf[pc[t]]]
  /\ UNCHANGED <<alive, pc, job, stored, reply, leaked, tables, tokens, drawn>>

\* They return nullptr when a connection the pool has room for cannot be made.
\* Three callers look at it; the others dereference it, apiUpload only when it
\* comes to the database: it may have failed before.
NoConnection(t) ==
  /\ May("connect") /\ pc[t] # "idle" /\ held[t] = "none"
  /\ HasRoom(PoolOf[pc[t]])
  /\ \/ pc[t] = "reg" /\ Answer(t, 0, 1)
     \/ pc[t] = "login_token" /\ Answer(t, 0, MaxToken + 1)
     \/ pc[t] = "verify" /\ Answer(t, 1, -1)
     \/ pc[t] = "upload" /\ ~Cut(job[t].form) /\ Answer(t, 1, -1)
     \/ pc[t] = "upload" /\ (Decodes(job[t]) \/ Overruns(job[t])) /\ Die
     \/ pc[t] \notin {"reg", "login_token", "verify", "upload"} /\ Die
  /\ UNCHANGED <<leaked, tables, tokens, drawn>>

Ready(t, l) == pc[t] = l /\ held[t] # "none"

-----------------------------------------------------------------------------
(***************************************************************************)
(* register.cc.  apiRegistUser answers 0 whatever registUser returns; data *)
(* is what it returned.                                                    *)
(***************************************************************************)
RegFind(t) ==
  /\ Ready(t, "reg")
  /\ \/ Runs("find_user") /\ IsUser(job[t].user) /\ Answer(t, 0, 2)
     \/ (Fails("find_user") \/ ~IsUser(job[t].user)) /\ Go(t, "reg_insert")
  /\ UNCHANGED <<leaked, tables, tokens, drawn>>

\* A statement that cannot be prepared leaves ret as it is, 0; one that cannot
\* be executed, because of a unique key or otherwise, makes it 1.
RegInsert(t) ==
  LET row   == [name |-> job[t].user, nick |-> job[t].item]
      clash == \E r \in users : r.name = row.name \/ r.nick = row.nick
  IN  /\ Ready(t, "reg_insert")
      /\ \/ Runs("insert_user") /\ ~clash /\ users' = users \cup {row} /\ Answer(t, 0, 0)
         \/ Fails("insert_user") /\ UNCHANGED users /\ Answer(t, 0, 0)
         \/ Runs("insert_user") /\ (clash \/ May("sql")) /\ UNCHANGED users /\ Answer(t, 0, 1)
      /\ UNCHANGED <<leaked, files, owned, shares, tokens, drawn>>

(***************************************************************************)
(* login.cc.  verifyUserPassword returns true for the right password, and  *)
(* apiUserLogin takes that for a failure; data is the token it answers.    *)
(***************************************************************************)
Login(t) ==
  LET matches == IsUser(job[t].user) /\ job[t].right
  IN  /\ Ready(t, "login")
      /\ \/ Runs("password") /\ matches /\ Answer(t, 1, -1)
         \/ (~matches \/ Fails("password")) /\ GoReleased(t, "login_token")
      /\ UNCHANGED <<leaked, tables, tokens, drawn>>

NewToken == CHOOSE k \in 1 .. MaxToken : k \notin DOMAIN tokens

\* setToken: whether SetEx succeeded is not looked at.
LoginToken(t) ==
  /\ Ready(t, "login_token")
  /\ \/ tokens' = [k \in DOMAIN tokens \cup {NewToken} |->
                     IF k = NewToken THEN job[t].user ELSE tokens[k]]
     \/ May("redis") /\ UNCHANGED tokens
  /\ Answer(t, 0, NewToken)
  /\ UNCHANGED <<leaked, tables, drawn>>

\* A token lives for 86400 seconds.
Expire ==
  /\ \E k \in DOMAIN tokens : tokens' = Restrict(tokens, DOMAIN tokens \ {k})
  /\ UNCHANGED <<alive, threads, leaked, tables, drawn>>

(***************************************************************************)
(* upload.cc.  data is the md5 of the file.                                *)
(***************************************************************************)
\* What may stand behind a field in its array: the arrays are not initialised,
\* and strncpy puts no terminator behind what it copies, so up to the next NUL the
\* text goes on with what the stack held, the last upload of the thread perhaps.
Behind == {"", "junk"}

\* What apiUpload has for a field of the form, with what stands behind it; the
\* copies of a form that does not fit overwrite each other.
Copied(r, name) == ({Field(r.form, name)} \cup IF r.fits THEN {} ELSE {"junk"}) \X Behind

\* Parse, rename, upload to FastDFS and delete the local copy.  Whatever the program
\* fdfs_upload_file prints is taken for the id of the file; printing nothing is its
\* only failure.  The new name is appended to an array that is not
\* initialised either: the rename may fail with nothing else being wrong.
UploadStore(t) ==
  LET r == job[t]
  IN  /\ Ready(t, "upload")
      /\ \/ /\ Decodes(r)
            /\ \E u \in Copied(r, "user"), m \in Copied(r, "file_md5"), n \in Copied(r, "file_name") :
                 stored' = [stored EXCEPT ![t] = [user |-> u, md5 |-> m, name |-> n]]
            /\ pc' = [pc EXCEPT ![t] = "upload_url"]
            /\ UNCHANGED <<alive, job, held, reply>>
         \/ ~Cut(r.form) /\ Answer(t, 1, -1)
         \/ Overruns(r) /\ Die
      /\ UNCHANGED <<leaked, tables, tokens, drawn>>

\* Mutant of UploadUrl: the statements of storeFileInfo change places.
UploadUrlThenOwner(t) ==
  /\ Ready(t, "upload_url")
  /\ \/ Go(t, "upload_owner")
     \/ May("dfs") /\ (Answer(t, 1, -1) \/ Die)
  /\ UNCHANGED <<leaked, tables, tokens, drawn>>

\* getFullUrlByFileId reads the output of fdfs_file_info through the pointer
\* strstr returns, found or not; only a failing pipe or fork is an error.
UploadUrl(t) ==
  /\ Ready(t, "upload_url")
  /\ \/ Go(t, "upload_info")
     \/ May("dfs") /\ (Answer(t, 1, -1) \/ Die)
  /\ UNCHANGED <<leaked, tables, tokens, drawn>>

\* A statement that holds leftovers may be no SQL.
Unclean(t) == \E field \in {"user", "md5", "name"} : stored[t][field][2] # ""

\* storeFileInfo, first statement, with count 1; md5 is unique in file_info.
UploadInfo(t) ==
  LET md5 == stored[t].md5
  IN  /\ Ready(t, "upload_info")
      /\ \/ /\ Runs("insert_info") /\ md5 \notin DOMAIN files
            /\ files' = [m \in DOMAIN files \cup {md5} |->
                           IF m = md5 THEN 1 ELSE files[m]]
            /\ Go(t, "upload_owner")
         \/ /\ md5 \in DOMAIN files \/ Fails("insert_info") \/ Unclean(t)
            /\ UNCHANGED files /\ Answer(t, 1, -1)
      /\ UNCHANGED <<leaked, users, owned, shares, tokens, drawn>>

\* Second statement; (user, md5, file_name) is unique in user_file_list.
UploadOwner(t) ==
  LET row == <<stored[t].user, stored[t].md5, stored[t].name>>
  IN  /\ Ready(t, "upload_owner")
      /\ \/ Runs("insert_owner") /\ row \notin owned /\ owned' = owned \cup {row} /\ Answer(t, 0, -1)
         \/ /\ row \in owned \/ Fails("insert_owner") \/ Unclean(t)
            /\ UNCHANGED owned /\ Answer(t, 1, -1)
      /\ UNCHANGED <<leaked, users, files, shares, tokens, drawn>>

(***************************************************************************)
(* sharepicture.cc.  RandomString(32) is the next value of an unseeded     *)
(* rand(); nothing makes urlmd5 unique.                                    *)
(***************************************************************************)
RandomString == drawn + 1

SharePicture(t) ==
  LET row == [user |-> job[t].user, md5 |-> job[t].item, urlmd5 |-> RandomString]
  IN  /\ Ready(t, "share")
      /\ drawn' = drawn + 1
      /\ \/ Runs("insert_share") /\ shares' = Append(shares, row) /\ Answer(t, 0, RandomString)
         \/ Fails("insert_share") /\ UNCHANGED shares /\ Answer(t, 1, -1)
      /\ UNCHANGED <<leaked, users, files, owned, tokens>>

\* handleBrowsePicture asks the row it has found for a column the select does
\* not name, and makes a string of the null pointer it gets.
BrowsePicture(t) ==
  LET found == \E i \in DOMAIN shares : shares[i].urlmd5 = job[t].item
  IN  /\ Ready(t, "browse")
      /\ \/ Runs("find_share") /\ found /\ Die
         \/ (~found \/ Fails("find_share")) /\ Answer(t, 1, -1)
      /\ UNCHANGED <<leaked, tables, tokens, drawn>>

SharesOf(u) == {i \in DOMAIN shares : shares[i].user = u}

\* handleGetSharePictureList: the count, then the list (of the shares whose
\* file is in file_info).  On a failure the code goes into an object that is
\* thrown away, and the answer has none: -1.
CountShares(t) ==
  /\ Ready(t, "shares")
  /\ \/ Runs("count_shares") /\ Go(t, "shares_list")
     \/ Fails("count_shares") /\ Answer(t, -1, -1)
  /\ UNCHANGED <<leaked, tables, tokens, drawn>>

ListShares(t) ==
  LET listed == {i \in SharesOf(job[t].user) : <<shares[i].md5, "">> \in DOMAIN files}
  IN  /\ Ready(t, "shares_list")
      /\ \/ Runs("list_shares") /\ Answer(t, 0, Cardinality(listed))
         \/ Fails("list_shares") /\ Answer(t, -1, -1)
      /\ UNCHANGED <<leaked, tables, tokens, drawn>>

(***************************************************************************)
(* myfiles.cc.  data is the number of files.                               *)
(***************************************************************************)
\* What Get returns for a token: its user, or "" when it is unknown or there is
\* no answer.
Got(token) ==
  {IF token \in DOMAIN tokens THEN tokens[token] ELSE ""} \cup IF May("redis") THEN {""} ELSE {}

\* VerifyToken compares it with the user of the request, who may be "", too.
Verify(t) ==
  /\ Ready(t, "verify")
  /\ \E name \in Got(job[t].token) :
       \/ name = job[t].user /\ GoReleased(t, "count")
       \/ name # job[t].user /\ Answer(t, 1, -1)
  /\ UNCHANGED <<leaked, tables, tokens, drawn>>

\* The rows a statement finds for a user; leftovers make another name of it.
FilesOf(u) == {row \in owned : row[1] = <<u, "">> /\ row[2] \in DOMAIN files}
CountOf(u) == Cardinality({row \in owned : row[1] = <<u, "">>})

\* handleUserFileCount, for either command; an empty list needs no query.
CountFiles(t) ==
  LET n == CountOf(job[t].user)
  IN  /\ Ready(t, "count")
      /\ \/ Runs("count_files") /\ (job[t].op = "count" \/ n = 0) /\ Answer(t, 0, n)
         \/ Runs("count_files") /\ job[t].op = "files" /\ n > 0 /\ GoReleased(t, "files")
         \/ Fails("count_files") /\ Answer(t, 1, -1)
      /\ UNCHANGED <<leaked, tables, tokens, drawn>>

\* getUserFileList asks the first row for a column it does not have; when there
\* is no row (start is past the last) or no result, it keeps its connection.
ListFiles(t) ==
  /\ Ready(t, "files")
  /\ \/ Runs("list_files") /\ FilesOf(job[t].user) # {} /\ Die /\ UNCHANGED leaked
     \/ /\ \/ Runs("list_files") /\ Answer(t, 0, 0)
           \/ Fails("list_files") /\ Answer(t, 1, -1)
        /\ leaked' = [leaked EXCEPT ![held[t]] = @ + 1]
  /\ UNCHANGED <<tables, tokens, drawn>>

-----------------------------------------------------------------------------
Step(t) ==
  \/ Acquire(t) \/ NoConnection(t)
  \/ RegFind(t) \/ RegInsert(t)
  \/ Login(t) \/ LoginToken(t)
  \/ UploadStore(t) \/ UploadUrl(t) \/ UploadInfo(t) \/ UploadOwner(t)
  \/ SharePicture(t) \/ BrowsePicture(t) \/ CountShares(t) \/ ListShares(t)
  \/ Verify(t) \/ CountFiles(t) \/ ListFiles(t)

Next ==
  \/ Crash \/ Restart \/ Expire
  \/ \E t \in Thread : Step(t) \/ \E r \in Requests : Arrive(t, r) \/ Undecodable(t, r)

Spec == Init /\ [][Next]_vars

\* Threads run: while a handler can go on, one does.
Fairness == WF_vars(\E t \in Thread : Step(t))

FairSpec == Spec /\ Fairness

-----------------------------------------------------------------------------
TypeOK ==
  /\ alive \in BOOLEAN
  /\ pc \in [Thread -> DOMAIN PoolOf \cup {"idle"}]
  /\ job \in [Thread -> Requests \cup {NoRequest}]
  /\ held \in [Thread -> Pools \cup {"none"}]
  /\ reply.req \in Requests \cup {NoRequest} /\ reply.code \in {-1, 0, 1}
  /\ \A p \in Pools : InUse(p) \in 0 .. PoolSize[p]
  /\ DOMAIN tokens \subseteq 1 .. MaxToken
  /\ Len(shares) <= MaxShare

Accepted(op) == reply.req.op = op /\ reply.code = 0

\* Whatever statement fails and wherever the process dies, a row of
\* user_file_list has its row in file_info: the list of files joins the two.
OwnedFileHasInfo == \A row \in owned : row[2] \in DOMAIN files

\* A client whose upload is answered 0 has a row of user_file_list, with its row
\* of file_info, that begins with what the form said, whatever the stack adds:
\* apiUpload does not swallow the failure of a step, and does not take one part of
\* the form for another (except for the name, when the form starts with another).
AcceptedUploadIsStored ==
  Accepted("upload") /\ reply.req.fits =>
    \E row \in owned :
      /\ row[1][1] = reply.req.user /\ row[2][1] = reply.req.item /\ row[2] \in DOMAIN files
      /\ reply.req.form[1].name = "file_name" => row[3][1] = reply.req.form[1].value

\* A thread that has answered holds no connection, on whatever path it left
\* its handler, and the pools have all of theirs when nothing runs.
NoConnectionLeak ==
  /\ \A t \in Thread : pc[t] = "idle" => held[t] = "none"
  /\ \A p \in Pools : leaked[p] = 0

\* Handlers that wait for each other's connections do not stop each other:
\* while there are requests, one after the other is answered.
RequestsKeepBeingAnswered ==
  []<>(Busy = {}) \/ []<><<\E t \in Busy : pc'[t] = "idle">>_vars

-----------------------------------------------------------------------------
(***************************************************************************)
(* What the sources say of the handlers, and the handlers do not do.       *)
(***************************************************************************)
\* login.cc:152 reports "verify user password failed": not for a user whose
\* password is right, when nothing else fails.
RightPasswordLogsIn ==
  reply.req.op = "login" /\ reply.req.right /\ IsUser(reply.req.user) => reply.code = 0

\* table.sql:46 says that file_info.count is 1, and one more for every further user
\* that owns the file: when nobody is at work it is the number of its owners.
CountMatchesOwners ==
  alive /\ Busy = {} =>
    \A m \in DOMAIN files : files[m] = Cardinality({row[1] : row \in {o \in owned : o[2] = m}})
=============================================================================
