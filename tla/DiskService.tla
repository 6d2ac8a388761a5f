----------------------------- MODULE DiskService -----------------------------
(***************************************************************************)
(* What the users of a block device count on, without registers: a call    *)
(* names sectors and is answered once: with success, and for a read with   *)
(* what they hold, or with failure.                                        *)
(***************************************************************************)
EXTENDS Integers, Sequences

VARIABLES
    content,    \* of every sector there is
    request,    \* [op, where, what]: the sectors of the call in progress, and what to write
    reply,      \* [ok, data] of the last call
    errors,     \* sectors that failed to be read or written
    astray      \* sectors on which a call was given up: nothing is promised of them

vars == <<content, request, reply, errors, astray>>

Nothing == [op |-> "none", where |-> <<>>, what |-> <<>>]

Failed == [ok |-> FALSE, data |-> <<>>]
Success(data) == [ok |-> TRUE, data |-> data]

Init == request = Nothing /\ reply = Failed /\ errors = 0 /\ astray = {}

Exists(r) == \A i \in DOMAIN r.where : r.where[i] \in DOMAIN content
InDoubt   == \E i \in DOMAIN request.where : request.where[i] \in astray

Begin ==
    /\ request = Nothing /\ request' # Nothing
    /\ UNCHANGED <<content, reply, errors, astray>>

\* A call with sectors beyond the end may be refused before it begins.
Refuse ==
    /\ request = Nothing
    /\ reply' = Failed
    /\ UNCHANGED <<content, request, errors, astray>>

Store == \E i \in DOMAIN request.where :
    /\ request.op = "write" /\ request.where[i] \in DOMAIN content
    /\ content' = [content EXCEPT ![request.where[i]] = request.what[i]]
    /\ UNCHANGED <<request, reply, errors, astray>>

Holds(i) == content[request.where[i]] = request.what[i]

Answer ==
    /\ request # Nothing /\ request' = Nothing
    /\ Exists(request)
    /\ \/ /\ request.op = "read"
          /\ reply' = Success([i \in DOMAIN request.where |-> content[request.where[i]]])
       \/ /\ request.op = "write" /\ reply' = Success(<<>>)
          /\ \A i \in DOMAIN request.where :
                Holds(i) \/ (i = Len(request.where) /\ errors > 0)
    /\ UNCHANGED <<content, errors, astray>>

\* Calls fail for a reason.
Fail ==
    /\ request # Nothing /\ request' = Nothing
    /\ errors > 0 \/ ~Exists(request)
    /\ reply' = Failed
    /\ UNCHANGED <<content, errors, astray>>

Error == errors' = errors + 1 /\ UNCHANGED <<content, request, reply, astray>>

\* The sectors that share a channel with those of the call.
GiveUp ==
    /\ request # Nothing /\ request' = Nothing
    /\ reply' = Failed
    /\ astray \subseteq astray' /\ \A i \in DOMAIN request.where : request.where[i] \in astray'
    /\ UNCHANGED <<content, errors>>

\* After that, only the other sectors are left alone.
Stray ==
    /\ DOMAIN content' = DOMAIN content
    /\ \A x \in DOMAIN content \ astray : content'[x] = content[x]
    /\ UNCHANGED <<request, reply, errors, astray>>

StrayReply ==
    /\ request # Nothing /\ InDoubt /\ request' = Nothing
    /\ UNCHANGED <<content, errors, astray>>

Next == Begin \/ Refuse \/ Store \/ Answer \/ Fail \/ Error \/ GiveUp \/ Stray \/ StrayReply

Spec == Init /\ [][Next]_vars
=============================================================================
