------------------------------ MODULE MCKeyPair ------------------------------
(***************************************************************************)
(* Two passwords and the three key names.  A metadata file is the salt it  *)
(* was made with and the digest of the key, which only the password it was *)
(* made with expands to; old is the salt of a metadata file that is there  *)
(* before the first command or that the user brings back from a backup.    *)
(***************************************************************************)
EXTENDS KeyPair

CONSTANTS kkey, kmeta, xkey,    \* the three names
          old,                  \* a salt from before
          p1, p2                \* two passwords

MCNames == {kkey, kmeta, xkey}
MCPasswords == {p1, p2}

Text(kind, w, s) == [kind |-> kind, password |-> w, salt |-> s]
MCMakeMeta(w, r) == Text("meta", w, r)
MCKeyOf(w, m) == IF m.kind = "meta" THEN Text("key", w, m.salt) ELSE Reject
MCDescribes(m, k) == m.kind = "meta" /\ k = Text("key", m.password, m.salt)
MCRandomKey(r) == Text("random", NoPassword, r)
UserText == Text("user", NoPassword, old)
Backup == Text("meta", p1, old)

MCTexts ==
    {Text(kind, w, s) : kind \in {"meta", "key"}, w \in MCPasswords, s \in Runs \cup {old}}
        \cup {MCRandomKey(r) : r \in Runs} \cup {UserText}
MCUserTexts == {UserText, Backup}

\* An empty folder, and one whose key.key is lost but whose key.meta is not.
MCGiven == {[n \in MCNames |-> Unborn],
            [n \in MCNames |-> IF n = kmeta THEN Backup ELSE Unborn]}
=============================================================================
