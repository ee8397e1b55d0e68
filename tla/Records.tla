------------------------------- MODULE Records ------------------------------
(***************************************************************************)
(* The parts of the back end that share no state with the rest and are     *)
(* written by handlers that read first and write later, put side by side:  *)
(* automatic replies, drafts, contacts, templates and access.  Each is an  *)
(* instance with the variables and parameters named here.                  *)
(***************************************************************************)
EXTENDS AutoReply

CONSTANTS
    None, Blank,
    DraftIds, Files, Calls, Plans,           \* of Drafts
    ContactIds, Addresses, Handlers, Books,  \* of Contacts
    Slots, Editors, Shelves,                 \* of Templates
    PermissionIds, Staff, Admins, Roles, Words, Offices  \* of Access

VARIABLES
    status, fresh, attached, old, stored, sent, lapsed, job, todo,
    known, gone, rows, issued, open, hand, calls, overlap,
    shelf, used, editor, edits, torn,
    perm, past, grants, given, user, token, admin, errands, reports, removed

Draft == INSTANCE Drafts
Contact == INSTANCE Contacts WITH People <- ContactIds, todo <- calls
Template == INSTANCE Templates WITH stored <- shelf, hand <- editor, todo <- edits
Rights == INSTANCE Access WITH
    Ids <- PermissionIds, Users <- Staff, Handlers <- Admins,
    issued <- given, hand <- admin, todo <- errands

ASSUME RecordsAssumption ==
    Draft!PlansOK /\ Contact!BooksOK /\ Template!ShelvesOK /\ Rights!OfficesOK

draftVars == <<status, fresh, attached, old, stored, sent, lapsed, job, todo>>
contactVars == <<known, gone, rows, issued, open, hand, calls, overlap>>
templateVars == <<shelf, used, editor, edits, torn>>
accessVars == <<perm, past, grants, given, user, token, admin, errands, reports, removed>>

(* DraftService.cleanOrphanedFiles: see Drafts.                            *)
FilesKept == Draft!FilesKept
(* ContactService.removeChannel: see Contacts.                             *)
KeepsAChannel == Contact!KeepsAChannel
(* TemplateService.update: see Templates.                                  *)
PlaceholdersFilled == Template!PlaceholdersFilled
(* PermissionService.bulkAssignRolePermissions: see Access.                *)
ReportsHold == Rights!ReportsHold
=============================================================================
