------------------------------ MODULE Templates -----------------------------
(***************************************************************************)
(* TemplateService and the engine that reads a template's body: a body is  *)
(* written with [Label] markers, kept with one TemplateVariable row per    *)
(* label and, for WhatsApp, compiled to numbered placeholders.             *)
(***************************************************************************)
EXTENDS Naturals, Sequences, FiniteSets, SequencesExt

CONSTANTS
    Slots,    \* templates that may be stored
    Editors,  \* handlers that may be in progress at once
    Blank,    \* a marker of nothing but spaces
    None,     \* no template, a field the request leaves out, a null column
    Shelves   \* the states to start from: [stored, todo]; a name is
              \* <<what the user chose, a number that tells copies apart>>

VARIABLES
    stored, \* MessageTemplate with its rows, Slots -> template or None
    used,   \* slots that held a template: an id is never used again
    hand,   \* handler -> the request it serves
    todo,   \* requests that may still come
    torn    \* templates that two updates changed at once

vars == <<stored, used, hand, todo, torn>>

(* What the shelves hold and what is asked for.                            *)
Types == {"WHATSAPP", "INTERNAL"}
IsBody(b) == b \in Seq(ToSet(b))
IsDto(d, op) ==
    /\ d.name # None \/ op = "create" => d.name[2] = 0
    /\ (d.type = None /\ op # "create") \/ d.type \in Types
    /\ (d.body = None /\ op # "create") \/ IsBody(d.body)
IsRequest(q) ==
    \/ q.op = "create" /\ IsDto(q.dto, q.op)
    \/ q.op = "update" /\ IsDto(q.dto, q.op) /\ q.id \in Slots
    \/ q.op \in {"remove", "duplicate"} /\ q.id \in Slots
ShelvesOK ==
    /\ IsFiniteSet(Slots) /\ None \notin Slots
    /\ \A s \in Shelves :
        /\ DOMAIN s.stored \subseteq Slots
        /\ \A t \in DOMAIN s.stored : IsDto(s.stored[t], "create")
        /\ \A t, u \in DOMAIN s.stored : s.stored[t].name = s.stored[u].name => t = u
        /\ \A q \in s.todo : IsRequest(q)

Free == [op |-> "none"]
Busy(h) == hand[h] # Free
Live == {t \in Slots : stored[t] # None}

TemplatesTypeOK ==
    /\ Live \subseteq used /\ used \subseteq Slots /\ torn \subseteq Slots
    /\ \A t \in Live :
        /\ stored[t].type \in Types
        /\ \A r \in stored[t].rows : r.position \in Nat \ {0} /\ r.label # Blank
    /\ \A t, u \in Live : stored[t].name = stored[u].name => t = u
    /\ \A h \in Editors : Busy(h) => hand[h].at \in {"read", "begin", "write"}

-----------------------------------------------------------------------------
(* The engine.  Mutant: every marker gets a position, repeated or not.     *)
EveryMarker(body) ==
    {[position |-> i, label |-> body[i]] : i \in {j \in DOMAIN body : body[j] # Blank}}
Labels(body) == ToSet(body) \ {Blank}
FirstAt(body, l) ==
    CHOOSE i \in DOMAIN body : body[i] = l /\ \A j \in DOMAIN body : body[j] = l => i <= j
(* One variable for each label, numbered in the order of first appearance. *)
parseBody(body) ==
    {[position |-> Cardinality({m \in Labels(body) : FirstAt(body, m) <= FirstAt(body, l)}),
      label |-> l] : l \in Labels(body)}
compileBody(body) ==
    [i \in DOMAIN body |->
        IF body[i] = Blank THEN Blank
        ELSE (CHOOSE v \in parseBody(body) : v.label = body[i]).position]
Compiled(type, body) == IF type = "WHATSAPP" THEN compileBody(body) ELSE None

Template(name, type, body) ==
    [name |-> name, type |-> type, body |-> body, edition |-> 1,
     bodyCompiled |-> Compiled(type, body), rows |-> parseBody(body)]

-----------------------------------------------------------------------------
Init ==
    \E s \in Shelves :
        /\ stored = [t \in Slots |->
               IF t \notin DOMAIN s.stored THEN None
               ELSE Template(s.stored[t].name, s.stored[t].type, s.stored[t].body)]
        /\ used = DOMAIN s.stored
        /\ todo = s.todo
        /\ torn = {}
        /\ hand = [h \in Editors |-> Free]

Doing(h, op, at) == Busy(h) /\ hand[h].op = op /\ hand[h].at = at
Done(h) == hand' = [hand EXCEPT ![h] = Free]

Begin(h) ==
    /\ ~Busy(h)
    /\ \E q \in todo :
        /\ hand' = [hand EXCEPT ![h] =
              [op |-> q.op, id |-> q.id, dto |-> q.dto, at |-> "read",
               existing |-> None, deleted |-> 0]]
        /\ todo' = todo \ {q}
    /\ UNCHANGED <<stored, used, torn>>

NameTaken(name, t) == \E u \in Live \ {t} : stored[u].name = name

StoreNew(name, type, body) ==
    \E t \in Slots \ used :
        /\ stored' = [stored EXCEPT ![t] = Template(name, type, body)]
        /\ used' = used \cup {t}

Create(h) ==
    /\ Doing(h, "create", "read")
    /\ Done(h)
    /\ LET d == hand[h].dto IN
       IF NameTaken(d.name, None) THEN UNCHANGED <<stored, used>>
       ELSE StoreNew(d.name, d.type, d.body)
    /\ UNCHANGED <<todo, torn>>

(* findOne, at the beginning of update, remove and duplicate.              *)
FindOne(h) ==
    /\ Busy(h) /\ hand[h].at = "read" /\ hand[h].op # "create"
    /\ LET t == hand[h].id IN
       IF stored[t] = None THEN Done(h) /\ UNCHANGED torn
       ELSE /\ hand' = [hand EXCEPT ![h].at = IF hand[h].op = "update" THEN "begin" ELSE "write",
                                    ![h].existing = stored[t]]
            /\ torn' = torn \cup {u \in {t} : hand[h].op = "update" /\ \E g \in Editors \ {h} :
                   Busy(g) /\ hand[g].op = "update" /\ hand[g].id = u /\ hand[g].at # "read"}
    /\ UNCHANGED <<stored, used, todo>>

(* Mutant: the old rows stay when the number of markers is the same.       *)
LengthChanged(h) ==
    hand[h].dto.body # None /\ Len(hand[h].dto.body) # Len(hand[h].existing.body)
bodyChanged(h) ==
    hand[h].dto.body # None /\ hand[h].dto.body # hand[h].existing.body

(* deleteMany: the rows it finds are those of the edition that is stored   *)
(* when it begins; it waits for a transaction that has deleted them.       *)
DeleteVariables(h) ==
    /\ Doing(h, "update", "begin")
    /\ hand' = [hand EXCEPT ![h].at = "write",
           ![h].deleted = IF bodyChanged(h) /\ hand[h].id \in Live
                          THEN stored[hand[h].id].edition ELSE 0]
    /\ UNCHANGED <<stored, used, todo, torn>>

Given(new, old) == IF new = None THEN old ELSE new

(* The rest of the transaction.  It is rolled back when the template has   *)
(* gone, its name is taken or a position is there already.                 *)
Update(h) ==
    /\ Doing(h, "update", "write")
    /\ Done(h)
    /\ LET t == hand[h].id
           d == hand[h].dto
           now == stored[t]
           kept == IF hand[h].deleted = now.edition THEN {} ELSE now.rows
           new == IF bodyChanged(h) THEN parseBody(d.body) ELSE {}
           clash == \E r \in kept, s \in new : r.position = s.position
       IN stored' =
           IF now = None \/ NameTaken(d.name, t) \/ clash THEN stored
           ELSE [stored EXCEPT ![t] =
               [name |-> Given(d.name, now.name), type |-> Given(d.type, now.type),
                body |-> Given(d.body, now.body),
                edition |-> now.edition + (IF bodyChanged(h) THEN 1 ELSE 0),
                bodyCompiled |-> IF d.body = None THEN now.bodyCompiled
                                 ELSE Compiled(Given(d.type, hand[h].existing.type), d.body),
                rows |-> kept \cup new]]
    /\ UNCHANGED <<used, todo, torn>>

RemoveTemplate(h) ==
    /\ Doing(h, "remove", "write")
    /\ Done(h)
    /\ stored' = [stored EXCEPT ![hand[h].id] = None]
    /\ UNCHANGED <<used, todo, torn>>

(* The copy's name ends in the time and is taken by nobody.                *)
Duplicate(h) ==
    /\ Doing(h, "duplicate", "write")
    /\ Done(h)
    /\ LET src == hand[h].existing IN
       StoreNew(<<src.name[1], Cardinality(used)>>, src.type, src.body)
    /\ UNCHANGED <<todo, torn>>

Next == \E h \in Editors :
    \/ Begin(h) \/ Create(h) \/ FindOne(h) \/ DeleteVariables(h)
    \/ Update(h) \/ RemoveTemplate(h) \/ Duplicate(h)

Spec == Init /\ [][Next]_vars

-----------------------------------------------------------------------------
(* Every marker of a body has its row, rows are numbered from 1 without a  *)
(* gap and belong to no other label, and the compiled body, which no race  *)
(* can part from its body, points at the row of each marker; two updates   *)
(* of a template at once may leave it with the rows of the other body      *)
(* (schema.prisma, TemplateVariable: "sequential, NO GAPS").               *)
PlaceholdersFilled ==
    \A t \in Live : LET s == stored[t] IN
        /\ s.bodyCompiled # None => s.bodyCompiled = compileBody(s.body)
        /\ t \notin torn =>
            /\ {r.position : r \in s.rows} = 1..Cardinality(s.rows)
            /\ {r.label : r \in s.rows} = ToSet(s.body) \ {Blank}
            /\ \A q, r \in s.rows : q.label = r.label => q = r
            /\ s.bodyCompiled # None =>
                \A i \in DOMAIN s.body : s.body[i] # Blank =>
                    [position |-> s.bodyCompiled[i], label |-> s.body[i]] \in s.rows
=============================================================================
