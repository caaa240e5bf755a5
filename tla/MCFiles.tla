------------------------------- MODULE MCFiles -------------------------------
(* A small image: the directory, the clock and a file of two units.        *)
EXTENDS Files

MCDirectory == << [name |-> [stem |-> "",     last |-> "."], type |-> FILE_DIR,    inode |-> 0],
                  [name |-> [stem |-> "rt",   last |-> "c"], type |-> FILE_RTC,    inode |-> 0],
                  [name |-> [stem |-> "ca",   last |-> "t"], type |-> FILE_NORMAL, inode |-> 1] >>
MCFileLength == [i \in {0, 1} |-> 2 * i]
MCNames == {Directory[e].name : e \in Entry} \cup {[stem |-> "do", last |-> "g"]}
=============================================================================
