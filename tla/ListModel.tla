------------------------------ MODULE ListModel ------------------------------
(***************************************************************************)
(* ListModel<T> (viewmodel/helpers/list_model.h), the list behind the      *)
(* tables of the program, as operators on sequences.  Two items are the    *)
(* same row when their ids are equal (operator== of the item types).  The  *)
(* signals to the attached table are left out.                             *)
(***************************************************************************)
EXTENDS SequencesExt

\* The row of an item, 0 when there is none.
RowOf(list, item) == SelectInSeq(list, LAMBDA x : x.id = item.id)

Insert(list, items) == list \o items

\* m_list.insert(0, item) for each item: the rows are in the opposite order.
Reset(items) == Reverse(items)

\* The rows of a list that are among these, in their order (std::copy_if).
Kept(list, rows) ==
    FoldLeft(LAMBDA kept, x : IF x \in rows THEN Append(kept, x) ELSE kept, <<>>, list)

\* Mutant: the row after the item's goes.
RemoveItem_Next(list, item) ==
    IF RowOf(list, item) = 0 THEN list ELSE RemoveAt(list, RowOf(list, item) + 1)

RemoveItem(list, item) ==
    IF RowOf(list, item) = 0 THEN list ELSE RemoveAt(list, RowOf(list, item))

RemoveItems(list, items) == FoldLeft(RemoveItem, list, items)

\* Mutant: the old row stays.
UpdateItem_KeepsOld(list, item) ==
    LET last == IF list = <<>> THEN 1 ELSE Len(list)
    IN  InsertAt(list, IF RowOf(list, item) = 0 THEN last ELSE RowOf(list, item), item)

\* Mutant: an updated row moves to the end.
UpdateItem_ToEnd(list, item) == Append(RemoveItem(list, item), item)

\* A row is replaced where it is; an item without a row goes to the index
\* count - 1, or 0 in an empty list.
UpdateItem(list, item) ==
    LET last == IF list = <<>> THEN 1 ELSE Len(list)
    IN  IF RowOf(list, item) = 0
        THEN InsertAt(list, last, item)
        ELSE ReplaceAt(list, RowOf(list, item), item)

Update(list, items) == FoldLeft(UpdateItem, list, items)
=============================================================================
