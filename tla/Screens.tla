------------------------------- MODULE Screens ------------------------------
(***************************************************************************)
(* The parts of the web client that keep state of their own, and what they *)
(* talk to, put side by side: the window of a chat, one chat message, its  *)
(* ticks, the socket of a tab, and the pages of channels, enquiries,       *)
(* contacts and templates.  Each is an instance with the variables and     *)
(* parameters named here.                                                  *)
(***************************************************************************)
EXTENDS Naturals, Sequences, FiniteSets

CONSTANTS
    Nothing,                                 \* no copy, row or answer
    Page, Before, Known, Requests,           \* of ChatWindow
    Owner, Author, Chores,                   \* of ChatMessages
    Users, LastTick, Evenings,               \* of ChatReceipts
    HeldContacts, HeldChats, Holds, Chances, \* of Connections
    ChannelIds, Accounts, Weeks,             \* of Channels
    Enquiries, Texts, Filters, Hits, Limit, Visits,  \* of EnquiryList
    People, Sieves, Found, SheetSize, Engaged, Browses,  \* of ContactsPage
    LastId, Names, Mornings                  \* of TemplatesPage

VARIABLES
    thread, pushing, joined, read, shown, edge, asked, sending, left,
    row, window, pushes, flights, chores,
    clock, members, since, marks, best, posts, handling, inside, upward, downward, view, evening,
    mounted, refs, link, trusted, again, waiting, buffer, wire, joining, rooms, lost, chances,
    links, linkIds, onPage, cards, busyId, modal, line, desk, pacing, unseen, week,
    listed, search, choice, leaf, debounce, asks, data, chosen, deleted, crossed, visit,
    people, made, told, sieve, sheet, cache, actions, ticks, picked, panel, strayed, browse,
    catalogue, lastId, served, pending, where, everything, pick, isLoading, occupied,
    preview, form, toasts, behind, wishes

Window == INSTANCE ChatWindow
Message == INSTANCE ChatMessages WITH calls <- flights, None <- Nothing
Ticks == INSTANCE ChatReceipts WITH left <- evening
Tab == INSTANCE Connections WITH Contacts <- HeldContacts, Rooms <- HeldChats
Channel == INSTANCE Channels WITH
    Ids <- ChannelIds, None <- Nothing,
    rows <- links, used <- linkIds, open <- onPage, page <- cards,
    queue <- line, hand <- desk, left <- week
List == INSTANCE EnquiryList WITH
    None <- Nothing,
    db <- listed, filter <- choice, page <- leaf, timer <- debounce, queue <- asks,
    selected <- chosen, gone <- deleted, left <- visit
Contacted == INSTANCE ContactsPage WITH
    Filters <- Sieves, Limit <- SheetSize, Visits <- Browses, None <- Nothing,
    db <- people, filter <- sieve, page <- sheet, queue <- actions,
    selected <- picked, left <- browse
Catalogue == INSTANCE TemplatesPage WITH
    Shelves <- Mornings, None <- Nothing,
    table <- catalogue, hand <- served, queue <- pending, all <- everything,
    choice <- pick, busyId <- occupied, left <- wishes

(* What the parts need of what they start from.                            *)
ASSUME ScreensAssumption ==
    /\ Window!SizesOK
    /\ Message!ChoresOK
    /\ Ticks!EveningsOfUsers
    /\ Tab!HoldsOK
    /\ Channel!WeeksOK
    /\ List!VisitsOK
    /\ Contacted!PagesOK
    /\ Catalogue!ShelvesOK

windowVars == <<thread, pushing, joined, read, shown, edge, asked, sending, left>>
messageVars == <<row, window, pushes, flights, chores>>
tickVars == <<clock, members, since, marks, best, posts, handling, inside,
              upward, downward, view, evening>>
tabVars == <<mounted, refs, link, trusted, again, waiting, buffer, wire,
             joining, rooms, lost, chances>>
channelVars == <<links, linkIds, onPage, cards, busyId, modal, line, desk, pacing, unseen, week>>
listVars == <<listed, search, choice, leaf, debounce, asks, data, chosen, deleted, crossed, visit>>
peopleVars == <<people, made, told, sieve, sheet, cache, actions, ticks, picked, panel, strayed, browse>>
catalogueVars == <<catalogue, lastId, served, pending, where, everything, pick, isLoading,
                   occupied, preview, form, toasts, behind, wishes>>

-----------------------------------------------------------------------------
(* TeamChatRoom: a window of a chat shows what others wrote once, and one  *)
(* that was opened in the middle can go on to the end.  See ChatWindow.    *)
WindowIsWhole == Window!OthersShownOnce /\ Window!AnchoredCanGoOn
(* ChatService.deleteMessageForEveryone: see ChatMessages.                 *)
GoneStaysGone == Message!GoneStaysGone
(* ChatService.computeRoomReceipts: see ChatReceipts.                      *)
TicksAreEarned == Ticks!TicksAreEarned
(* joinContactRoom, joinChatRoom: see Connections.                         *)
HeldRoomsAreJoined == Tab!HeldRoomsAreJoined
(* ChannelsClient: see Channels.                                           *)
PageMatchesTable == Channel!PageMatchesTable
(* EnquiriesClient.fetchData: see EnquiryList.                             *)
ListMatchesFilters == List!ListMatchesFilters
(* ContactsPage, ContactDetailPanel: see ContactsPage.                     *)
PageIsCurrent == Contacted!PageIsCurrent
(* TemplateList, ToastProvider: see TemplatesPage.                         *)
ListIsTheTable == Catalogue!ListIsTheTable
=============================================================================
