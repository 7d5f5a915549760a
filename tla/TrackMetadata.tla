--------------------------- MODULE TrackMetadata ----------------------------
(***************************************************************************)
(* What a file on disk says of itself: the number and title its name       *)
(* carries (metadata/filename.rs), its tag where it has one, its cover     *)
(* (metadata/tags.rs) and the image beside it (metadata/cover_files.rs).   *)
(* The scan asks once for metadata(), a request for a cover asks for       *)
(* find_art() at any time later.  A disk is a record with                  *)
(*   files    path -> [dir, stem, ext, target, modified, tag, meant]:      *)
(*            target the file it is or links to; tag None if there is none *)
(*            or the file cannot be read, else                             *)
(*            [title, number, artist, album, pictures]; meant what number  *)
(*            and title its name is to say                                 *)
(*   listing  directory -> [path, base, image, dir, hint], in path order   *)
(*   above    directory -> the one above it                                *)
(*   within   the directories inside the media directories                 *)
(***************************************************************************)
EXTENDS Texts

Digits == <<"0", "1", "2", "3", "4", "5", "6", "7", "8", "9">>

Separators == {"-", ".", "_", " "}

ValueOf(digits) ==
  LET value[n \in 0 .. Len(digits)] ==
        IF n = 0 THEN 0
        ELSE 10 * value[n - 1] + CHOOSE d \in 0 .. 9 : Digits[d + 1] = digits[n]
  IN value[Len(digits)]

Named(number, title) == [number |-> number, title |-> title]

(* Mutant: what is left after one number is not tried again.               *)
parse_first_number(stem) ==
  LET text  == SubSeq(stem, 1, SelectLastInSeq(stem, LAMBDA c : c # " "))
      first == FirstFrom(text, 1, LAMBDA c : c \notin ToSet(Digits))
      rest  == FirstFrom(text, first, LAMBDA c : c \notin Separators)
  IN IF first \in 2 .. 4 /\ rest # 0
     THEN Named(ValueOf(SubSeq(text, 1, first - 1)), SubSeq(text, rest, Len(text)))
     ELSE Named(None, stem)

(* One to three digits and the separators after them come off the front,   *)
(* again and again while that leaves something; the last number counts.    *)
parse_track_number(stem) ==
  LET text == SubSeq(stem, 1, SelectLastInSeq(stem, LAMBDA c : c # " "))
      from[i \in 1 .. Len(text) + 1] ==
        LET first == FirstFrom(text, i, LAMBDA c : c \notin ToSet(Digits))
            rest  == FirstFrom(text, first, LAMBDA c : c \notin Separators)
        IN IF first # 0 /\ first - i \in 1 .. 3 /\ rest # 0
           THEN IF from[rest].number # None THEN from[rest]
                ELSE Named(ValueOf(SubSeq(text, i, first - 1)),
                           SubSeq(text, rest, Len(text)))
           ELSE Named(None, stem)
  IN from[1]

-----------------------------------------------------------------------------
(* The image beside a track.                                               *)

NAMED_BASES == <<"cover", "folder", "front", "albumart", "album", "art", "thumb">>

is_image(entry) == entry.image /\ ~entry.dir

FirstPath(entries, Test(_)) ==
  LET i == SelectInSeq(entries, Test) IN IF i = 0 THEN None ELSE entries[i].path

named_file(entries) ==
  FoldRight(LAMBDA base, later :
              Or(FirstPath(entries, LAMBDA e : is_image(e) /\ e.base = base), later),
            NAMED_BASES, None)

loose_image(entries) == FirstPath(entries, is_image)

(* The first directory whose name holds a hint; the others are not tried.  *)
art_subdir_image(disk, entries) ==
  LET subdir == FirstPath(entries, LAMBDA e : e.dir /\ e.hint)
  IN IF subdir = None THEN None ELSE loose_image(disk.listing[subdir])

find_in_dir(disk, dir) ==
  LET entries == disk.listing[dir]
  IN Or(named_file(entries), Or(loose_image(entries), art_subdir_image(disk, entries)))

(* The directory above is searched too, unless that leaves the library.    *)
find_cover_file(disk, path) ==
  LET dir == disk.files[path].dir
  IN Or(find_in_dir(disk, dir),
        IF disk.above[dir] \in disk.within THEN find_in_dir(disk, disk.above[dir]) ELSE None)

-----------------------------------------------------------------------------
(* Tags.                                                                   *)

(* The front cover in the file's tag, or its first picture.                *)
embedded_picture(disk, path) ==
  LET tag == disk.files[path].tag
  IN IF tag = None \/ tag.pictures = <<>> THEN None
     ELSE LET front == SelectInSeq(tag.pictures, LAMBDA p : p.front)
          IN tag.pictures[IF front = 0 THEN 1 ELSE front].path

(* Mutant: a request looks no further than the track itself.               *)
find_embedded_art(disk, path) == embedded_picture(disk, path)

find_art(disk, path) ==
  Or(embedded_picture(disk, path), find_cover_file(disk, path))

(* A blank title counts as none; a number of the tag goes before the name's. *)
metadata(disk, path) ==
  LET file  == disk.files[path]
      name  == parse_track_number(file.stem)
      Tagged(field, otherwise) ==
        IF file.tag = None \/ file.tag[field] = None THEN otherwise ELSE file.tag[field]
      title == trim(Tagged("title", <<>>))
  IN [title   |-> IF title = <<>> THEN name.title ELSE title,
      number  |-> Tagged("number", name.number),
      artist  |-> Tagged("artist", None),
      album   |-> Tagged("album", None),
      has_art |-> \/ Tagged("pictures", <<>>) # <<>>
                  \/ find_cover_file(disk, path) # None]
=============================================================================
