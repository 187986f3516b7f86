------------------------------ MODULE Showcase ------------------------------
(***************************************************************************)
(* product-service: the images and the reviews of one product.             *)
(*                                                                         *)
(* An image is a row in product_images and an object in the S3 bucket.     *)
(* The client uploads the object itself, to a presigned URL, and then has  *)
(* it confirmed; the two stores are changed one after the other, so every  *)
(* request on them can be overtaken between two calls.                     *)
(* UpdateImage reads a row and writes it back, position and alt text.      *)
(* A review is one row per product and customer.  Alt texts of images and  *)
(* the texts of reviews are left out.                                      *)
(***************************************************************************)
EXTENDS Integers, FiniteSetsExt

CONSTANTS
  ImageKey,    \* storage keys of this product the service may hand out
  Position,    \* positions of images a request may name
  Same,        \* the request leaves the position out
  Customer,    \* customers who may review it
  Rating,      \* the ratings they may send
  Worker,      \* requests that may be in progress at the same time
  Unrated,     \* no review by a customer
  NoJob

First == 0

VARIABLES
  onFile,      \* the row of the product exists
  tickets,     \* keys for which an upload URL was handed out
  bucket,      \* keys with an object in the bucket
  images,      \* keys with a row in product_images
  position,    \* position[key]: the position in that row, First without a row
  reviews,     \* reviews[u]: the rating in the review of customer u
  job,         \* job[w]: what request w is doing, and its next step
  crossed      \* requests during which another one has changed a store

stores == <<onFile, tickets, bucket, images, position, reviews>>
showcaseVars == <<stores, job, crossed>>

Job == [op : {"confirm"}, step : {"insert"}, key : ImageKey, position : Position]
         \cup [op : {"update"}, step : {"write"}, key : ImageKey, asked : Position \cup {Same},
               position : Position]
         \cup [op : {"remove"}, step : {"row", "object"}, key : ImageKey]
         \cup [op : {"review"}, step : {"upsert"}, customer : Customer, rating : Rating]

ASSUME ShowcaseAssumption ==
  /\ Rating \subseteq Int
  /\ First \in Position
  /\ Same \notin Position
  /\ NoJob \notin Job

ShowcaseInit ==
  /\ onFile = TRUE
  /\ tickets = {}
  /\ bucket = {}
  /\ images = {}
  /\ position = [key \in ImageKey |-> First]
  /\ reviews = [u \in Customer |-> Unrated]
  /\ job = [w \in Worker |-> NoJob]
  /\ crossed = {}

-----------------------------------------------------------------------------
Step(w, next) ==
  /\ job' = [job EXCEPT ![w] = next]
  /\ crossed' = (crossed \cup {v \in Worker : job[v] # NoJob /\ v # w})
                   \cap {v \in Worker : job'[v] # NoJob}

StartJob(w, doing) ==
  /\ job' = [job EXCEPT ![w] = doing]
  /\ UNCHANGED <<stores, crossed>>

JobStops(w) ==
  /\ job[w] # NoJob
  /\ job' = [job EXCEPT ![w] = NoJob]
  /\ crossed' = crossed \ {w}
  /\ UNCHANGED stores

\* CreateImageUploadURL: a new image id, its key and a presigned URL for it.
CreateImageUploadURL(w, key) ==
  /\ onFile
  /\ key \notin tickets
  /\ tickets' = tickets \cup {key}
  /\ UNCHANGED <<onFile, bucket, images, position, reviews, job, crossed>>

\* The client PUTs the file, as often as it likes while the URL is valid.
Upload(key) ==
  /\ key \in tickets
  /\ bucket' = bucket \cup {key}
  /\ UNCHANGED <<onFile, tickets, images, position, reviews, job, crossed>>

Unchecked(key) == TRUE

\* Storage.Exists, after KeyBelongsTo has found the product's prefix.
Uploaded(key) == key \in bucket

ConfirmImage(w, key, place) ==
  /\ onFile
  /\ Uploaded(key)
  /\ StartJob(w, [op |-> "confirm", step |-> "insert", key |-> key, position |-> place])

\* ImageRepository.Create: UNIQUE (storage_key), and the product must exist.
InsertImage(w) ==
  /\ job[w] # NoJob
  /\ job[w].op = "confirm"
  /\ onFile
  /\ job[w].key \notin images
  /\ images' = images \cup {job[w].key}
  /\ position' = [position EXCEPT ![job[w].key] = job[w].position]
  /\ Step(w, NoJob)
  /\ UNCHANGED <<onFile, tickets, bucket, reviews>>

\* UpdateImage reads the row and puts the fields of the request over it ...
UpdateImage(w, key, asked) ==
  /\ onFile
  /\ key \in images
  /\ StartJob(w, [op |-> "update", step |-> "write", key |-> key, asked |-> asked,
                  position |-> IF asked = Same THEN position[key] ELSE asked])

\* ... and ImageRepository.Update writes it back, unless it has gone.
WriteImage(w) ==
  /\ job[w] # NoJob
  /\ job[w].op = "update"
  /\ job[w].key \in images
  /\ position' = [position EXCEPT ![job[w].key] = job[w].position]
  /\ Step(w, NoJob)
  /\ UNCHANGED <<onFile, tickets, bucket, images, reviews>>

\* DeleteImage reads the row ...
DeleteImage(w, key) ==
  /\ onFile
  /\ key \in images
  /\ StartJob(w, [op |-> "remove", step |-> "row", key |-> key])

\* ... deletes it, unless it has gone meanwhile ...
DeleteImageRow(w) ==
  /\ job[w] # NoJob
  /\ job[w].op = "remove" /\ job[w].step = "row"
  /\ job[w].key \in images
  /\ images' = images \ {job[w].key}
  /\ position' = [position EXCEPT ![job[w].key] = First]
  /\ Step(w, [job[w] EXCEPT !.step = "object"])
  /\ UNCHANGED <<onFile, tickets, bucket, reviews>>

\* ... and then the object; its failure (JobStops) is ignored.
DeleteObject(w) ==
  /\ job[w] # NoJob
  /\ job[w].op = "remove" /\ job[w].step = "object"
  /\ bucket' = bucket \ {job[w].key}
  /\ Step(w, NoJob)
  /\ UNCHANGED <<onFile, tickets, images, position, reviews>>

\* DeleteProduct: the rows go with the product, the objects stay.
DropProduct(w) ==
  /\ onFile
  /\ onFile' = FALSE
  /\ images' = {}
  /\ position' = [key \in ImageKey |-> First]
  /\ reviews' = [u \in Customer |-> Unrated]
  /\ Step(w, NoJob)
  /\ UNCHANGED <<tickets, bucket>>

\* Service.Create of the review module: the product exists ...
CreateReview(w, u, rating) ==
  /\ onFile
  /\ StartJob(w, [op |-> "review", step |-> "upsert", customer |-> u, rating |-> rating])

\* ... and Repository.Upsert, refused if it does no longer.
Upsert(w) ==
  /\ job[w] # NoJob
  /\ job[w].op = "review"
  /\ onFile
  /\ reviews' = [reviews EXCEPT ![job[w].customer] = job[w].rating]
  /\ Step(w, NoJob)
  /\ UNCHANGED <<onFile, tickets, bucket, images, position>>

\* The author reads the row and deletes it.
DeleteReview(w, u) ==
  /\ reviews[u] # Unrated
  /\ reviews' = [reviews EXCEPT ![u] = Unrated]
  /\ Step(w, NoJob)
  /\ UNCHANGED <<onFile, tickets, bucket, images, position>>

\* Repository.Summary: sum and number of the ratings; the average is their quotient.
Summary == LET rated == {u \in Customer : reviews[u] # Unrated}
           IN  [sum |-> MapThenSumSet(LAMBDA u : reviews[u], rated), count |-> Cardinality(rated)]

-----------------------------------------------------------------------------
ImageRequest(w) ==
  \E key \in ImageKey :
    \/ CreateImageUploadURL(w, key)
    \/ \E place \in Position : ConfirmImage(w, key, place)
    \/ \E asked \in Position \cup {Same} : UpdateImage(w, key, asked)
    \/ DeleteImage(w, key)

ReviewRequest(w) ==
  \E u \in Customer :
    \/ \E rating \in Rating : CreateReview(w, u, rating)
    \/ DeleteReview(w, u)

ShowcaseNext ==
  \/ \E key \in ImageKey : Upload(key)
  \/ \E w \in Worker :
       \/ job[w] = NoJob /\ (ImageRequest(w) \/ ReviewRequest(w) \/ DropProduct(w))
       \/ InsertImage(w)
       \/ WriteImage(w)
       \/ DeleteImageRow(w)
       \/ DeleteObject(w)
       \/ Upsert(w)
       \/ JobStops(w)

ShowcaseSpec == ShowcaseInit /\ [][ShowcaseNext]_showcaseVars

-----------------------------------------------------------------------------
(***************************************************************************)
(* Properties.                                                             *)
(***************************************************************************)

\* The variables have their types; the rows belong to an existing product.
ShowcaseTypeOK ==
  /\ onFile \in BOOLEAN
  /\ images \subseteq tickets /\ bucket \subseteq tickets /\ tickets \subseteq ImageKey
  /\ position \in [ImageKey -> Position] /\ \A key \in ImageKey \ images : position[key] = First
  /\ reviews \in [Customer -> Rating \cup {Unrated}]
  /\ job \in [Worker -> Job \cup {NoJob}]
  /\ crossed \subseteq {w \in Worker : job[w] # NoJob}
  /\ ~onFile => images = {} /\ Summary = [sum |-> 0, count |-> 0]

(***************************************************************************)
(* ErrImageNotUploaded: "no uploaded file found at that storage key", and  *)
(* DeleteImage: "the row is gone; a leftover object is harmless".  A row   *)
(* whose object is missing would show as a broken picture.  It arises only *)
(* when a confirmation and a deletion of the same image overlap: the row   *)
(* is written after the object was seen but by then deleted, or while its  *)
(* deletion is still to come.  Likewise, an image moves to a position the  *)
(* request did not name only when UpdateImage was overtaken.               *)
(***************************************************************************)
OnlyOverlapsBreakImages ==
  [][/\ (images' \ bucket') \subseteq (images \ bucket)
          \/ \E w \in crossed : /\ job[w].op \in {"confirm", "remove"}
                                /\ job'[w] = NoJob
                                /\ job[w].key \in images' \ bucket'
     /\ \A key \in images \cap images' : position'[key] # position[key] =>
          \E w \in Worker : /\ job[w] # NoJob /\ job[w].op = "update" /\ job[w].key = key
                            /\ job[w].asked = position'[key] \/ w \in crossed]_showcaseVars
=============================================================================
