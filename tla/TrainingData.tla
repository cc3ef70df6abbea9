---------------------------- MODULE TrainingData ----------------------------
(***************************************************************************)
(* From the rows of a LOBSTER file to the samples the model is trained on: *)
(* encode_training of Tokeniser.py, LOBDataset of dataset.py, and the      *)
(* broadcast of book states in Simulator.forward.  The values are left out *)
(* (Tokeniser has them): a token says of which rows it is made.  Row n of  *)
(* the book file is the book after message n.                              *)
(***************************************************************************)
EXTENDS Integers, Sequences, SequencesExt

CONSTANTS Rows,    \* the length of the files
          Window   \* window_size

ASSUME RowsAssumption   == Rows \in Nat
ASSUME WindowAssumption == Window \in Nat \ {0} /\ Window % 4 = 0

VARIABLES types,           \* the type column of the message file
          message_tokens,  \* the encoded messages, one after another
          book_tokens,     \* the encoded books, one for each message
          idx,             \* the sample
          sample           \* the last item of the data set, with its books broadcast

data_vars == <<types, message_tokens, book_tokens, idx, sample>>

NaN == 0     \* what shift(1) leaves in the first row
NoSample == [input |-> <<>>, label |-> <<>>, book |-> <<>>]

\* The mask: the rows that are kept, in their order.
Kept(t) ==
  LET kept[n \in 0..Len(t)] ==
        IF n = 0 THEN <<>>
        ELSE IF t[n] \in {1, 2, 3} THEN Append(kept[n - 1], n) ELSE kept[n - 1]
  IN  kept[Len(t)]

\* The books are shifted after they are filtered.
Books_M(t) == [k \in DOMAIN Kept(t) |-> IF k = 1 THEN NaN ELSE Kept(t)[k - 1]]

\* book.shift(1), then the mask.
Books(t) == [k \in DOMAIN Kept(t) |-> Kept(t)[k] - 1]

\* The first kept message has no predecessor and is dropped, and so is its book.
Encoded(t) ==
  LET Message(k) == LET n == Kept(t)[k] IN
        << [field |-> "action", of |-> n, with |-> n],
           [field |-> "size",   of |-> n, with |-> n],
           [field |-> "price",  of |-> n, with |-> Books(t)[k]],
           [field |-> "time",   of |-> n, with |-> Kept(t)[k - 1]] >>
  IN  FlattenSeq([k \in 1..Len(Kept(t)) - 1 |-> Message(k + 1)])

DataInit ==
  /\ types \in [1..Rows -> {1, 2, 3, 4}]
  /\ Kept(types) # <<>>
  /\ message_tokens = <<>> /\ book_tokens = <<>>
  /\ idx = -1
  /\ sample = NoSample

encode_training ==
  /\ idx = -1
  /\ message_tokens' = Encoded(types)
  /\ book_tokens' = Tail(Books(types))
  /\ idx' = 0
  /\ UNCHANGED <<types, sample>>

\* One more start than there are labels for.
n_start_M == (Len(message_tokens) - Window) \div 4 + 1

n_start == (Len(message_tokens) - Window) \div 4

\* a[lo:hi] of an array, which ends where the array ends.
Slice(a, lo, hi) == SubSeq(a, lo + 1, IF hi < Len(a) THEN hi ELSE Len(a))

RepeatInterleave(a) == [k \in 1..4 * Len(a) |-> a[(k + 3) \div 4]]

GetItem ==
  /\ idx \in 0..n_start - 1
  /\ sample' = [input |-> Slice(message_tokens, 4 * idx, 4 * idx + Window),
                label |-> Slice(message_tokens, 4 * idx + 1, 4 * idx + Window + 1),
                book  |-> RepeatInterleave(Slice(book_tokens, idx, idx + Window \div 4))]
  /\ idx' = idx + 1
  /\ UNCHANGED <<types, message_tokens, book_tokens>>

\* The loader shuffles and starts again.
Epoch == idx >= n_start /\ idx' = 0 /\ UNCHANGED <<types, message_tokens, book_tokens, sample>>

DataNext == encode_training \/ GetItem \/ (idx # -1 /\ Epoch)

DataSpec == DataInit /\ [][DataNext]_data_vars

-----------------------------------------------------------------------------

\* Input, labels and books of a sample line up, whatever rows were filtered out: the
\* book beside a token is the one right before the token's message in the file, rows
\* that are not kept included, and it is the one the price was taken relative to.
BookIsTheOneBefore ==
  \A p \in DOMAIN sample.input :
    LET x == sample.input[p] IN
      /\ p \in DOMAIN sample.book /\ sample.book[p] = x.of - 1
      /\ x.field = "price" => x.with = sample.book[p]

\* Every sample has a full window and a label for each of its tokens, the next token
\* of the stream, the last one too; and starts with the action of a message.
LabelsAreNext ==
  sample # NoSample =>
    /\ Len(sample.input) = Window /\ Len(sample.label) = Window /\ Len(sample.book) = Window
    /\ sample.input[1].field = "action"
    /\ \A p \in 1..Window - 1 : sample.label[p] = sample.input[p + 1]
    /\ sample.label[Window].field = "action"
    /\ sample.label[Window].of > sample.input[Window].of
=============================================================================
