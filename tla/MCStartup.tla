----------------------------- MODULE MCStartup -----------------------------
(***************************************************************************)
(* Instances of Startup for TLC: the configuration files.                  *)
(***************************************************************************)
EXTENDS Startup

Line(key, value) == key \o <<"=">> \o value
Value(m, f)   == IF f = <<"_host">> THEN <<m>> ELSE f
Of(m, name)   == SetToSeq({Line(name \o f, Value(m, f)) : f \in Fields(m)})

\* MySQL's account and Redis's.
Both == {[f \in Login(m) |-> Value(m, f)] : m \in Managers}

\* Two MySQL instances, one Redis instance; DBInstances lists them as l says.
Upload  == SetToSeq({Line(k, <<"there">>) : k \in UploadSettings})
Shipped(l) ==
  Upload \o <<Line(<<"DBInstances">>, l), Line(<<"CacheInstances">>, <<"t">>)>>
  \o Of("db", <<"a">>) \o Of("db", <<"b">>) \o Of("cache", <<"t">>)

Two       == Shipped(<<"a", ",", "b">>)
Without(f, i) == SubSeq(f, 1, i - 1) \o SubSeq(f, i + 1, Len(f))
Spaced(line)  == <<" ">> \o SubSeq(line, 1, FirstOf(line, "=") - 1) \o <<" ", "=", " ">>
                 \o SubSeq(line, FirstOf(line, "=") + 1, Len(line)) \o <<" ", "#", "=">>

\* One line missing, or without a value; one spaced out; one in a comment; one
\* with another value, or repeated with one; lists written in every way.
OneMissing   == {Without(Two, i) : i \in DOMAIN Two}
OneCommented == {[Two EXCEPT ![i] = <<"#">> \o @] : i \in DOMAIN Two}
OneSpaced    == {[Two EXCEPT ![i] = Spaced(@)] : i \in DOMAIN Two}
OneEmptied   == {[Two EXCEPT ![i] = SubSeq(@, 1, FirstOf(@, "="))] : i \in DOMAIN Two}
Other(line)  == SubSeq(line, 1, FirstOf(line, "=")) \o <<"other">>
OneChanged   == {[Two EXCEPT ![i] = Other(@)] : i \in DOMAIN Two}
OneRepeated  == {Append(Two, Other(Two[i])) : i \in DOMAIN Two}
Lists        == {Shipped(l) : l \in {s \in SeqOf({"a", "b", ",", " "}, 3) : s # <<>>}}

\* An instance whose limit has a key longer than the buffer, without and with the
\* line that init then asks for.
Long     == Shipped(<<"a", "b">>) \o Of("db", <<"a", "b">>)
LongKeys == {Long, Append(Long, Line(Key(<<"a", "b">>, Limit), <<"other">>))}

Written == {Missing, Two} \cup OneMissing \cup OneCommented \cup OneSpaced \cup OneEmptied
           \cup OneChanged \cup OneRepeated \cup Lists \cup LongKeys
=============================================================================
