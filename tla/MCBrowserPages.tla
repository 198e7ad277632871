---------------------------- MODULE MCBrowserPages ---------------------------
(* Small instances of the pages, see BrowserPages.cfg.                      *)
EXTENDS BrowserPages

Name(dir, stem, ext) == [dir |-> dir, stem |-> stem, ext |-> ext]

\* Two images that differ in their extension, and three with different folders;
\* a ZIP of two images, and one of an image that has two rows in a table
MCZips ==
    {<<Name(<<>>, "a", "png"), Name(<<"q">>, "b", "jpg")>>, <<Name(<<"y">>, "a", "jpg")>>}
MCSelections == MCZips \cup
    {<<Name(<<"q">>, "a", "jpg"), Name(<<"q">>, "a", "png")>>,
     <<Name(<<>>, "a", "jpg"), Name(<<"p", "q">>, "c", "png"), Name(<<"r">>, "b", "jpg")>>}

\* Rows that are found by the whole name, a suffix, the last part and the stem
FirstTable == {Name(<<>>, "a", "jpg"), Name(<<"z">>, "a", "jpg"), Name(<<>>, "a", "png")}
SecondTable ==
    {Name(<<>>, "a", "jpg"), Name(<<"q">>, "b", "jpg"), Name(<<"x">>, "b", "png"),
     Name(<<"q">>, "c", "png"), Name(<<>>, "a", "png")}
ThirdTable == {Name(<<"q">>, "a", "jpg")}

MCCsvs == {FirstTable, SecondTable, ThirdTable}
MCUnreadable == {ThirdTable}
==============================================================================
