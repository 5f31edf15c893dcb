------------------------------ MODULE PmsDesk ------------------------------
(***************************************************************************)
(* The mock PMS: its forms and its route handlers, for the hotel of the    *)
(* session a caller has.  The bot and the hotel's staff use the same       *)
(* pages.  A handler is one step here; BrowserReceipts takes the handlers  *)
(* of one task apart.                                                      *)
(*                                                                         *)
(* Each hotel has one reservation.  A row is told by its hotel, its task   *)
(* type and its receipt id, which the unique indexes of the schema allow   *)
(* once.  The forms send every field as a string, an empty one as well.    *)
(***************************************************************************)
EXTENDS RequestAgents

CONSTANT Hotel

VARIABLES
  rows,         \* maintenance_tickets and wake_up_calls
  receipts,     \* browser_action_receipts that name a resource
  reservation   \* the hotel's reservation

desk == <<rows, receipts, reservation>>

\* Receipt ids: <<request, task>> for the bot, <<>> for the empty field of staff.
NoReceipt == <<>>

ReservationStatus == {"CONFIRMED", "CHECKED_IN", "CANCELLED"}
Notes == {"", "Modified per guest request", "staff"}

IsCreate(taskType) == taskType \notin {"MODIFY_RESERVATION", "CANCEL_RESERVATION"}

\* quantity and partySize are integer columns: the strings of these two forms are
\* refused by the insert.
TakesStrings(taskType) ==
  taskType \notin {"CREATE_HOUSEKEEPING_REQUEST", "CREATE_RESTAURANT_BOOKING"}

Stored(hotel, taskType, receipt) ==
  \E row \in rows : /\ row.hotel = hotel /\ row.taskType = taskType
                    /\ row.receipt = receipt

\* findReceiptResource: the receipt and the row it names.
FindReceiptResource(hotel, taskType, receipt) ==
  <<hotel, receipt>> \in receipts /\ Stored(hotel, taskType, receipt)

RecordBrowserReceipt(hotel, receipt) ==
  receipts' = receipts \cup {<<hotel, receipt>>}

Inserts(hotel, taskType, receipt) ==
  TakesStrings(taskType) /\ ~Stored(hotel, taskType, receipt)

Insert(hotel, taskType, room, text, receipt) ==
  rows' = rows \cup {[hotel |-> hotel, taskType |-> taskType, room |-> room,
                      text |-> text, receipt |-> receipt]}

\* POST of a form: the four create routes are alike.  answer is the HTTP result.
Post(hotel, taskType, room, text, receipt, answer) ==
  \/ /\ receipt # NoReceipt /\ FindReceiptResource(hotel, taskType, receipt)
     /\ answer = "ok"
     /\ UNCHANGED desk
  \/ /\ ~(receipt # NoReceipt /\ FindReceiptResource(hotel, taskType, receipt))
     /\ Inserts(hotel, taskType, receipt)
     /\ Insert(hotel, taskType, room, text, receipt)
     /\ IF receipt = NoReceipt THEN UNCHANGED receipts
                               ELSE RecordBrowserReceipt(hotel, receipt)
     /\ answer = "ok"
     /\ UNCHANGED reservation
  \/ /\ ~(receipt # NoReceipt /\ FindReceiptResource(hotel, taskType, receipt))
     /\ ~Inserts(hotel, taskType, receipt)
     /\ answer = "error"
     /\ UNCHANGED desk

\* Faulty: the page sends the status it was loaded with.
PatchWithStatus(hotel, status, notes) ==
  /\ reservation' = [reservation EXCEPT ![hotel] = [status |-> status, notes |-> notes]]
  /\ UNCHANGED <<rows, receipts>>

\* PATCH of the reservation page: notes alone.  `status' is what the page shows.
Patch(hotel, status, notes) ==
  /\ reservation' = [reservation EXCEPT ![hotel].notes = notes]
  /\ UNCHANGED <<rows, receipts>>

\* DELETE of the reservation page.
Delete(hotel) ==
  /\ reservation' = [reservation EXCEPT ![hotel].status = "CANCELLED"]
  /\ UNCHANGED <<rows, receipts>>
-----------------------------------------------------------------------------
\* Some row of the list shows the room and the text; whose it is nobody looks.
RowVisible(hotel, task) ==
  \E row \in rows : /\ row.hotel = hotel /\ row.taskType = task.taskType
                    /\ row.room = task.room /\ row.text = task.text
=============================================================================
