---------------------------- MODULE ClientPages ----------------------------
(***************************************************************************)
(* The pages of a reader's and a creator's browser together.  Each has its *)
(* own store; they share no state, so one page moves while the others rest.*)
(***************************************************************************)
EXTENDS Integers, ReaderPage, AiAssistant, ReadingShelf, JournalPage, DaoPage, PassportPage,
        CreatorApplication

Page == {"reader", "ai", "shelf", "journal", "dao", "passport", "creator"}

pagesVars == <<readerVars, aiVars, shelfVars, journalVars, daoVars, passportVars, applicationVars>>

PagesInit == /\ ReaderInit /\ AiInit /\ ShelfInit /\ JournalInit /\ DaoInit
             /\ PassportInit /\ ApplicationInit

Acts(p) == \/ p = "reader"   /\ ReaderNext
           \/ p = "ai"       /\ AiNext
           \/ p = "shelf"    /\ ShelfNext
           \/ p = "journal"  /\ JournalNext
           \/ p = "dao"      /\ DaoNext
           \/ p = "passport" /\ PassportNext
           \/ p = "creator"  /\ ApplicationNext

Rests(p) == CASE p = "reader"   -> UNCHANGED readerVars
              [] p = "ai"       -> UNCHANGED aiVars
              [] p = "shelf"    -> UNCHANGED shelfVars
              [] p = "journal"  -> UNCHANGED journalVars
              [] p = "dao"      -> UNCHANGED daoVars
              [] p = "passport" -> UNCHANGED passportVars
              [] p = "creator"  -> UNCHANGED applicationVars

Turn(p) == Acts(p) /\ \A q \in Page \ {p} : Rests(q)

PagesSpec == PagesInit /\ [][\E p \in Page : Turn(p)]_pagesVars

-----------------------------------------------------------------------------
\* Pages that show the server's rows: what each shows is the server's once it is quiet.
PagesTold == QuietPageIsRight /\ ShelfSound /\ JournalSound /\ PassportShown /\ ApplicationSound
=============================================================================
