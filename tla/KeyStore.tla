------------------------------ MODULE KeyStore ------------------------------
(***************************************************************************)
(* keys.rs: the symmetric keys of a key file, sorted by id, with a cache   *)
(* of the last lookup.  A file is a sequence of lines; a line is a key     *)
(* [id, type, secret, len] or one that is skipped ("bad": it does not      *)
(* parse, does not decode, or its algorithm is not supported).  The hash   *)
(* is taken to be free of collisions: an authenticator is the pair of the  *)
(* secret and the data it was made of.                                     *)
(***************************************************************************)
EXTENDS Integers, Sequences, FiniteSets, SequencesExt

CONSTANTS KeyIds, Secrets,      \* the ids and secrets that key files hold
          FileLines,            \* bound: lines of a key file
          Algorithms            \* key types: TRUE where the backend supports it

Lines == [id : KeyIds, type : DOMAIN Algorithms, secret : Secrets]
Files == UNION {[1..n -> Lines] : n \in 0..FileLines}

VARIABLES keys,         \* KeyStore.keys
          cache,        \* cache_valid, cache_key_id, cache_key_pos
          file,         \* history: the file read last
          made          \* history: an authenticator made earlier: id, secret

keyvars == <<keys, cache, file, made>>

NoCache == [valid |-> FALSE, id |-> 0, pos |-> 0]
NoAuth == [id |-> 0, secret |-> 0]

\* The stable sort by id at the end of reload.
SortById(ks) ==
    LET Pos(k) == Cardinality({j \in DOMAIN ks : ks[j].id < ks[k].id \/ (ks[j].id = ks[k].id /\ j <= k)})
    IN [p \in DOMAIN ks |-> ks[CHOOSE k \in DOMAIN ks : Pos(k) = p]]

KeyInit == keys = <<>> /\ cache = NoCache /\ file = <<>> /\ made = NoAuth

\* Mutant: free_keys keeps the cache.
ReloadKeepCache(f) ==
    /\ keys' = SortById(SelectSeq(f, LAMBDA k : Algorithms[k.type]))
    /\ file' = f
    /\ UNCHANGED <<cache, made>>

\* reload: free_keys, then the lines that give a key, sorted.
Reload(f) ==
    /\ keys' = SortById(SelectSeq(f, LAMBDA k : Algorithms[k.type]))
    /\ cache' = NoCache
    /\ file' = f
    /\ UNCHANGED made

\* lookup_key: a binary search; 0 for None.  Which of two keys with one id it
\* finds is left open by the library, but is always the same one.
LookupKey(id) ==
    LET search[n \in 0..Len(keys), lo \in 1..(Len(keys) + 1), hi \in 0..Len(keys)] ==
            LET mid == (lo + hi) \div 2
            IN IF lo > hi \/ n = 0 THEN 0
               ELSE IF keys[mid].id = id THEN mid
               ELSE IF keys[mid].id < id THEN search[n - 1, mid + 1, hi]
               ELSE search[n - 1, lo, mid - 1]
    IN search[Len(keys), 1, Len(keys)]

\* get_key_by_id: the position, through the cache.
Position(id) == IF cache.valid /\ cache.id = id THEN cache.pos ELSE LookupKey(id)

Looked(id) == cache' = IF Position(id) = 0 THEN cache
                       ELSE [valid |-> TRUE, id |-> id, pos |-> Position(id)]

\* key_known, get_auth_length, check_key_length, get_key_info: a lookup.
Query(id) == Looked(id) /\ UNCHANGED <<keys, file, made>>

\* generate_key_auth with a key that is known.
GenerateKeyAuth(id) ==
    /\ Position(id) # 0
    /\ Looked(id)
    /\ made' = [id |-> id, secret |-> keys[Position(id)].secret]
    /\ UNCHANGED <<keys, file>>

\* check_key_auth.
CheckKeyAuth(auth) == Position(auth.id) \in DOMAIN keys /\ keys[Position(auth.id)].secret = auth.secret

KeyNext == \/ \E f \in Files : Reload(f)
           \/ \E id \in KeyIds : Query(id) \/ GenerateKeyAuth(id)

KeySpec == KeyInit /\ [][KeyNext]_keyvars

----------------------------------------------------------------------------
(* Properties *)

\* A key is found through the cache exactly when the file read last has a
\* usable line for its id, and it is a line of that id: the cached position
\* never points into the keys of an earlier file.
KeyLookupExact ==
    \A id \in KeyIds :
      LET usable == {k \in DOMAIN file : file[k].id = id /\ Algorithms[file[k].type]}
      IN IF usable = {} THEN Position(id) = 0
         ELSE Position(id) \in DOMAIN keys /\ \E k \in usable : keys[Position(id)] = file[k]

\* An authenticator is accepted as long as its key has not changed: after any
\* reloads, check_key_auth takes one made before exactly when the id's key (the
\* only one with that id) is the same as then.
KeyAuthStable ==
    made # NoAuth =>
      LET usable == {k \in DOMAIN file : file[k].id = made.id /\ Algorithms[file[k].type]}
      IN /\ usable = {} => ~CheckKeyAuth(made)
         /\ (\A k \in usable : file[k].secret = made.secret) /\ usable # {} => CheckKeyAuth(made)
         /\ (\A k \in usable : file[k].secret # made.secret) => ~CheckKeyAuth(made)

=============================================================================
