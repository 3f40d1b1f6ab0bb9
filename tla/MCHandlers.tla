----------------------------- MODULE MCHandlers -----------------------------
(***************************************************************************)
(* Instances of Handlers for TLC: requests, and what MySQL refuses.        *)
(***************************************************************************)
EXTENDS Handlers, TLC

Ask(op, u, i, fs, k, ok) ==
  [op |-> op, user |-> u, item |-> i, fields |-> fs, token |-> k, right |-> ok]

\* A request with every field its decoder wants; one with none.
Full(op, u, i)     == Ask(op, u, i, Required[op], 1, TRUE)
Empty(op, u, i)    == Ask(op, u, i, {}, 1, TRUE)
\* The form of an upload; with the user as its first part.
Part(name, value) == [name |-> name, value |-> value, ends |-> TRUE]
Form(u, i) ==
  LET value == [file_name |-> "its name", file_md5 |-> i, user |-> u]
  IN  [k \in DOMAIN UploadForm |->
         Part(UploadForm[k], IF UploadForm[k] \in DOMAIN value THEN value[UploadForm[k]] ELSE "x")]
Upload(u, i, form, fits) == [op |-> "upload", user |-> u, item |-> i, form |-> form, fits |-> fits]
InOrder(u, i)      == Upload(u, i, Form(u, i), TRUE)
UserFirst(u, i)    == Upload(u, i, <<Form(u, i)[6]>> \o SubSeq(Form(u, i), 1, 5), TRUE)
\* A part before it and a second user in it, between the other parts.
TwoUsers(u, i)     == Upload(u, i, <<Part("note", "x")>> \o SubSeq(Form(u, i), 1, 3)
                                     \o <<Part("user", "x")>> \o SubSeq(Form(u, i), 4, 6), TRUE)
\* One with a field that is longer than its array (its values tell no overwriting
\* apart); one that stops in the user.
TooLong(u, i)      == Upload(u, i, Form(u, i), FALSE)
Short(u, i)        == Upload(u, i, [Form(u, i) EXCEPT ![6].ends = FALSE], TRUE)
WithPwd(u, ok)     == Ask("login", u, "none", Required.login, 0, ok)

\* The handlers' statements against sql/table.sql: the verb of three is spelt
\* "selece", two name a column user_info and user_file_list do not have, and
\* the list of shares runs two words together.
AsShipped == {"insert_user", "insert_owner", "find_share", "count_shares",
              "list_shares", "count_files"}
\* The same, spelt as the schema has it.
AllAccepted == {}
\* As the schema has it, but no upload gets further than its first statement, and
\* no list of files (as shipped) further than counting them.
NoFiles     == {"insert_info", "count_files"}

\* Threads are interchangeable.
ThreadSymmetry == Permutations(Thread)

Nobody == {}
Known  == {[name |-> "ann", nick |-> "a"]}

AllFaults == {"sql", "redis", "dfs", "connect", "crash"}
NoFaults  == {}

One   == [p \in Pools |-> 1]
Two   == [p \in Pools |-> 2]
\* Two threads may register at the same time; they compete for the other pools.
Mixed == [p \in Pools |-> IF p = "master" THEN 2 ELSE 1]

\* A request for every handler, and for every way through it.
Everything ==
  {Full("reg", "ann", "a"), WithPwd("ann", TRUE), WithPwd("ann", FALSE),
   TooLong("junk", "junk"), UserFirst("ann", "m1"), Short("ann", "m1"), Full("share", "ann", "m1"),
   Full("browse", "ann", 1), Full("shares", "ann", "none"), Full("count", "ann", "none"),
   Full("files", "", "none"), Empty("share", "ann", "m1")}
\* The user without a name needs no token to list its files.
SameFile == {InOrder("", "m1"), TwoUsers("bob", "m1"), Full("files", "", "none")}
Uploads  == {InOrder("ann", "m1"), InOrder("bob", "m1")}
Logins   == {WithPwd("ann", TRUE), WithPwd("bob", TRUE)}
=============================================================================
