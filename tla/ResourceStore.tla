---------------------------- MODULE ResourceStore ----------------------------
(***************************************************************************)
(* What a stateful collection promises its callers: a store of documents   *)
(* keyed by resource id whose every answer is right at the instant the     *)
(* request took effect.  Which document a PUT or PATCH writes is left      *)
(* open; that it never brings a deleted resource back is not.              *)
(***************************************************************************)
CONSTANTS Ids,     \* resource ids of one collection of one account
          Docs,    \* documents a resource can hold
          NoDoc    \* no resource under the id

VARIABLES store,   \* the document under each id
          answer   \* the last answer given: id, status and body

Answered(id, status, doc) ==
  answer' = [id |-> id, status |-> status, doc |-> doc]

Init == /\ store = [id \in Ids |-> NoDoc]
        /\ answer = [id |-> NoDoc, status |-> 0, doc |-> NoDoc]

Present(id) == store[id] # NoDoc

\* What is stored is what the caller is shown.
Stored(id, status) == /\ answer'.doc \in Docs
                      /\ store' = [store EXCEPT ![id] = answer'.doc]
                      /\ Answered(id, status, answer'.doc)

Post(id) == \/ ~Present(id) /\ Stored(id, 201)
            \/ Present(id) /\ UNCHANGED store /\ Answered(id, 409, NoDoc)

Get(id) == /\ Present(id)
           /\ UNCHANGED store
           /\ Answered(id, 200, store[id])

Replace(id) == Present(id) /\ Stored(id, 200)

Remove(id) == /\ Present(id)
              /\ store' = [store EXCEPT ![id] = NoDoc]
              /\ Answered(id, 204, NoDoc)

\* 404 only for an id that is unknown, 400 for a body that is no object, and
\* 500 for an internal error at any time.
Refuse(id) == /\ UNCHANGED store
              /\ \/ ~Present(id) /\ Answered(id, 404, NoDoc)
                 \/ Present(id) /\ Answered(id, 400, NoDoc)
                 \/ Answered(id, 500, NoDoc)

Next == \E id \in Ids :
          Post(id) \/ Get(id) \/ Replace(id) \/ Remove(id) \/ Refuse(id)

Spec == Init /\ [][Next]_<<store, answer>>
=============================================================================
