------------------------------- MODULE Config -------------------------------
(***************************************************************************)
(* The configuration singleton: threads that reload it, the callbacks a    *)
(* Reload runs with the recursive mutex held, and what those callbacks may *)
(* do in turn, a Reload of their own included.                             *)
(*                                                                         *)
(* A subscriber registers a callback with OnChange and then reads the key, *)
(* and its callback reads the key again whenever it is called.  A scalar   *)
(* of the file is represented by what std::stoi and std::stod make of its  *)
(* text.                                                                   *)
(***************************************************************************)
EXTENDS Integers, Sequences, Functions

CONSTANTS
    Threads, Keys,
    Subscribers,  \* callbacks
    Subscriptions,\* the (key, callback) pairs OnChange is called with, once each
    Scalars,      \* the scalars of the file: [text, stoi, stod]
    Throws,       \* in place of an integer or a double: the conversion throws
    Near,         \* the pairs of doubles of which abs(old - new) > 1e-9 is false:
                  \* equal ones, close ones, and NaN with any
    Contents,     \* what the file may say: the scalar at each (flattened) key
    Absent,       \* no entry for a key
    None,
    MaxDepth      \* how deep Reloads nest

Doubles == {s.stod : s \in Scalars} \ {Throws}

ASSUME ConfigAssumption ==
    /\ MaxDepth \in Nat
    /\ None \notin Threads \cup Keys
    /\ Subscriptions \subseteq Keys \X Subscribers
    /\ Contents \subseteq [Keys -> Scalars \cup {Absent}]
    /\ Near \subseteq Doubles \X Doubles
    /\ \A x \in Doubles : <<x, x>> \in Near

\* What may be on disk when the file is read, and whether YAML can read it: not
\* at all, or only up to a key that is not a string, after the keys of "upto".
File == [content : Contents, defect : {"none", "unreadable"}, upto : {Keys}]
          \cup [content : Contents, defect : {"bad key"}, upto : (SUBSET Keys) \ {Keys}]

VARIABLES
    configs,     \* m_configs: key -> typed value
    callbacks,   \* m_callbacks; a key without callbacks is not in the map
    holder,      \* the thread that holds m_mtx
    reloads,     \* its Reload calls, innermost last: the old configuration, the
                 \* keys still to visit, the key whose callbacks run, those that
                 \* follow the running one, and whether that one calls Reload
    fault,       \* "none" or "invalidated": the container iterated over moved
    \* History:
    told,        \* what each callback read last at each key; a difference that
                 \* IsConfigChanged tolerates is carried over
    skipped      \* the callbacks, with their keys, that were passed over

configVars == <<configs, callbacks, holder, reloads, fault, told, skipped>>

ConfigInit ==
    /\ configs = [k \in Keys |-> Absent]
    /\ callbacks = [k \in Keys |-> <<>>]
    /\ holder = None
    /\ reloads = <<>>
    /\ fault = "none"
    /\ told = [k \in Keys |-> [s \in Subscribers |-> Absent]]
    /\ skipped = {}

-----------------------------------------------------------------------------
(* Parsing and comparing.                                                  *)

\* ParseYamlNode of a scalar: stoi takes any text that begins like an integer.
ParseScalar(s) ==
    IF s.stoi # Throws THEN [type |-> "int", value |-> s.stoi]
    ELSE IF s.stod # Throws THEN [type |-> "double", value |-> s.stod]
    ELSE IF s.text \in {"true", "True"} THEN [type |-> "bool", value |-> "true"]
    ELSE IF s.text \in {"false", "False"} THEN [type |-> "bool", value |-> "false"]
    ELSE [type |-> "string", value |-> s.text]

\* LoadFromFile into the configuration c, which keeps what the file lacks.
Parsed(file, c) ==
    [k \in Keys |-> IF file.defect # "unreadable" /\ k \in file.upto
                       /\ file.content[k] # Absent
                    THEN ParseScalar(file.content[k]) ELSE c[k]]
LoadSucceeds(file) == file.defect = "none"

\* IsConfigChanged: presence, type, value.  Doubles are compared with a
\* tolerance, which is not transitive.
SameValue(v, w) ==
    /\ v.type = w.type
    /\ IF v.type = "double" THEN <<v.value, w.value>> \in Near ELSE v.value = w.value
BugPresence(k, old) == Absent \notin {old[k], configs[k]} /\ ~SameValue(old[k], configs[k])
IsConfigChanged(k, old) ==
    \/ (old[k] = Absent) # (configs[k] = Absent)
    \/ Absent \notin {old[k], configs[k]} /\ ~SameValue(old[k], configs[k])

-----------------------------------------------------------------------------
Depth == Len(reloads)
Innermost == reloads[Depth]
SetTop(r) == [reloads EXCEPT ![Depth] = r]
Outermost(n) == SubSeq(reloads, 1, n)

\* What is in m_callbacks, and what the loops of the Reload r may yet call.
Registered == {ks \in Subscriptions : ks[2] \in Range(callbacks[ks[1]])}
StillCalls(r, k, s) == k \in r.todo \/ (k = r.at /\ s \in Range(r.rest))

InCallback == fault = "none" /\ reloads # <<>> /\ Innermost.at # None /\ ~Innermost.calling
Between == fault = "none" /\ reloads # <<>> /\ Innermost.at = None

\* The callback s is called with key k, and reads it.
Informs(k, s) ==
    /\ told' = [told EXCEPT ![k][s] = configs[k]]
    /\ skipped' = skipped \ {<<k, s>>}

\* What the callbacks of k were told, when a Reload that compared with old took
\* a close double for the same.
Tolerated(v, w) ==
    /\ Absent \notin {v, w}
    /\ v.type = "double" /\ w.type = "double" /\ <<v.value, w.value>> \in Near
CarriedOver(k, old) ==
    [s \in Subscribers |-> IF told[k][s] = old /\ Tolerated(old, configs[k])
                           THEN configs[k] ELSE told[k][s]]

\* Whether t gets m_mtx, a recursive_mutex.
BugPlainMutex(t) == holder = None
Locks(t) == holder \in {None, t}

\* A callback calls Reload.
CallReload ==
    /\ InCallback /\ Depth < MaxDepth
    /\ reloads' = SetTop([Innermost EXCEPT !.calling = TRUE])
    /\ UNCHANGED <<configs, callbacks, holder, fault, told, skipped>>

\* Reload up to the loop over the callbacks: the old configuration is saved
\* and restored if the file does not load.  The caller goes on at once.
Reload(t, file) ==
    /\ fault = "none" /\ Locks(t)
    /\ (holder = t) = (reloads # <<>>) /\ (reloads # <<>> => Innermost.calling)
    /\ LET outer == IF reloads = <<>> THEN <<>> ELSE SetTop([Innermost EXCEPT !.calling = FALSE])
           entered == [old |-> configs, todo |-> {k \in Keys : callbacks[k] # <<>>},
                       at |-> None, rest |-> <<>>, calling |-> FALSE]
       IN  IF LoadSucceeds(file)
           THEN /\ configs' = Parsed(file, [k \in Keys |-> Absent])
                /\ reloads' = Append(outer, entered)
                /\ holder' = t
           ELSE /\ reloads' = outer
                /\ UNCHANGED <<configs, holder>>
    /\ UNCHANGED <<callbacks, fault, told, skipped>>

\* The loop of Reload reaches key k: it calls the first of its callbacks ...
Visit(k) ==
    /\ Between /\ k \in Innermost.todo
    /\ LET left == [Innermost EXCEPT !.todo = @ \ {k}]
       IN  IF IsConfigChanged(k, Innermost.old)
           THEN /\ reloads' = SetTop([left EXCEPT !.at = k, !.rest = Tail(callbacks[k])])
                /\ Informs(k, Head(callbacks[k]))
           ELSE /\ reloads' = SetTop(left)
                /\ told' = [told EXCEPT ![k] = CarriedOver(k, Innermost.old[k])]
                /\ UNCHANGED skipped
    /\ UNCHANGED <<configs, callbacks, holder, fault>>

\* ... and, when one returned, the next.
CallbackReturns ==
    /\ InCallback
    /\ \/ /\ Innermost.rest = <<>>
          /\ reloads' = SetTop([Innermost EXCEPT !.at = None])
          /\ UNCHANGED <<told, skipped>>
       \/ /\ Innermost.rest # <<>>
          /\ reloads' = SetTop([Innermost EXCEPT !.rest = Tail(@)])
          /\ Informs(Innermost.at, Head(Innermost.rest))
    /\ UNCHANGED <<configs, callbacks, holder, fault>>

\* A callback throws: the Reloads are left, up to the callback that catches or,
\* when n is 0, all of them.  Whoever they had still to call is passed over.
CallbackThrows(n) ==
    /\ InCallback /\ n < Depth
    /\ skipped' = skipped \cup
          {ks \in Registered : /\ told[ks[1]][ks[2]] # configs[ks[1]]
                              /\ \E i \in n + 1 .. Depth : StillCalls(reloads[i], ks[1], ks[2])}
    /\ reloads' = Outermost(n)
    /\ holder' = IF n = 0 THEN None ELSE holder
    /\ UNCHANGED <<configs, callbacks, fault, told>>

ReloadReturns ==
    /\ Between /\ Innermost.todo = {}
    /\ reloads' = Outermost(Depth - 1)
    /\ holder' = IF Depth = 1 THEN None ELSE holder
    /\ UNCHANGED <<configs, callbacks, fault, told, skipped>>

\* LoadFromFile called by the application: nobody is told, and a file that
\* fails half-way leaves what it had set.
LoadFromFile(file) ==
    /\ fault = "none" /\ (holder = None \/ InCallback)
    /\ configs' = Parsed(file, configs)
    /\ skipped' = skipped \cup
          {ks \in Registered : configs'[ks[1]] # configs[ks[1]]}
    /\ UNCHANGED <<callbacks, holder, reloads, fault, told>>

\* OnChange appends the callback to those of the key ...
Subscribes(k, s) ==
    /\ <<k, s>> \in Subscriptions \ Registered
    /\ callbacks' = [callbacks EXCEPT ![k] = Append(@, s)]
    /\ told' = [told EXCEPT ![k][s] = configs[k]]

OnChange(k, s) ==
    /\ fault = "none" /\ holder = None
    /\ Subscribes(k, s)
    /\ UNCHANGED <<configs, holder, reloads, fault, skipped>>

\* ... and may be called by a callback, while the loops of Reload iterate over
\* the map, which a new key may rehash, and over the vectors of the keys whose
\* callbacks run, which may have to move.  If nothing moves, the loops over the
\* map visit a new key or not, and those over a vector end where they would have.
OnChangeInCallback(k, s, moved) ==
    /\ InCallback
    /\ Subscribes(k, s)
    /\ moved => callbacks[k] = <<>> \/ \E i \in 1 .. Depth : reloads[i].at = k
    /\ fault' = IF moved THEN "invalidated" ELSE "none"
    /\ \E visiting \in SUBSET (1 .. Depth) :
          /\ callbacks[k] # <<>> => visiting = {}
          /\ reloads' = [i \in 1 .. Depth |->
                IF i \in visiting THEN [reloads[i] EXCEPT !.todo = @ \cup {k}] ELSE reloads[i]]
    /\ UNCHANGED <<configs, holder, skipped>>

Holding == CallbackReturns \/ ReloadReturns \/ \E k \in Keys : Visit(k)

ConfigNext ==
    \/ \E t \in Threads, file \in File : Reload(t, file)
    \/ Holding
    \/ CallReload
    \/ \E n \in 0 .. MaxDepth - 1 : CallbackThrows(n)
    \/ \E file \in File : LoadFromFile(file)
    \/ \E k \in Keys, s \in Subscribers :
          OnChange(k, s) \/ \E moved \in BOOLEAN : OnChangeInCallback(k, s, moved)

\* A Reload that has the mutex, or can have it, goes on, and every callback
\* returns sooner or later, however often it calls Reload.
ConfigFairness ==
    /\ WF_configVars(ReloadReturns \/ \E k \in Keys : Visit(k))
    /\ \A d \in 1 .. MaxDepth : SF_configVars(Depth = d /\ CallbackReturns)
    /\ \A t \in Threads : WF_configVars(reloads # <<>> /\ \E file \in File : Reload(t, file))

ConfigSpec == ConfigInit /\ [][ConfigNext]_configVars /\ ConfigFairness

-----------------------------------------------------------------------------
(* Properties.                                                             *)

Value == [type : {"int", "double", "bool", "string"},
          value : {"true", "false"} \cup UNION {{s.text, s.stoi, s.stod} : s \in Scalars}]
Configuration == [Keys -> Value \cup {Absent}]

ConfigTypeOK ==
    /\ configs \in Configuration
    /\ told \in [Keys -> [Subscribers -> Value \cup {Absent}]]
    /\ callbacks \in [Keys -> Seq(Subscribers)]
    /\ skipped \subseteq Subscriptions
    /\ holder \in Threads \cup {None}
    /\ reloads \in Seq([old : Configuration, todo : SUBSET Keys, at : Keys \cup {None},
                        rest : Seq(Subscribers), calling : BOOLEAN])
    /\ fault \in {"none", "invalidated"}

\* No subscriber is left with a stale value: whenever nobody holds the mutex,
\* each callback has read what m_configs holds for its key now, although others
\* are called before it, callbacks reload again under a Reload's feet, that
\* inner Reload may fail and roll back, and the outer one then goes on with an
\* outdated copy to compare with.  Exceptions: a callback that throws ends the
\* loops before the turn of others, LoadFromFile tells nobody, and doubles that
\* IsConfigChanged does not tell apart pass for the same, one Reload after the
\* other.
Informed ==
    holder = None /\ fault = "none" =>
        \A ks \in Registered \ skipped : told[ks[1]][ks[2]] = configs[ks[1]]

\* A Reload, and the Reloads its callbacks call, come to an end and let go of
\* the mutex.
MutexReleased == holder # None ~> (holder = None \/ fault # "none")
=============================================================================
