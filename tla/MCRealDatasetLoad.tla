------------------------- MODULE MCRealDatasetLoad -------------------------
(* Instance of RealDatasetLoad: two directories the preparation produces and *)
(* directories that differ from one of them in one respect. *)
EXTENDS RealDatasetLoad

Rec(id, raw, bucketed) == [id |-> id, rawCount |-> Len(raw), raw |-> raw,
                           bucketedCount |-> Len(bucketed), bucketed |-> bucketed]
Pair(id, a, b, kind, label) == [id |-> id, a |-> a, b |-> b, kind |-> kind, label |-> label]
File(rows) == [strict |-> TRUE, rows |-> rows]

RowsA == <<Rec("r1", <<3, 7, 9>>, <<0, 2>>), Rec("r2", <<7, 8>>, <<1, 2>>)>>
RowsB == <<Rec("r1", <<>>, <<>>), Rec("r2", <<5>>, <<0>>), Rec("r3", <<>>, <<>>)>>
PairsA == <<Pair("p1", "r1", "r2", "known_match", 1), Pair("p2", "r2", "r1", "sampled_nonmatch", 0)>>
PairsB == <<Pair("p1", "r1", "r3", "thread_related", -1), Pair("p2", "r2", "r1", "cross_thread", -1)>>

Source(name) == [text |-> name]
Names == [source |-> "source.manifest.tsv", records |-> "records.tsv", pairs |-> "pairs.tsv"]
Manifest(dataset, recs, prs, src) ==
    [strict |-> TRUE, schema |-> "piccard-real-processed-v1", dataset |-> dataset,
     variant |-> IF dataset = "enron" THEN "enron_u65536" ELSE "dblp_acm_u65536",
     version |-> IF dataset = "enron" THEN "enron-shingle5-v2" ELSE "dblp-acm-trigram-v1",
     universe |-> IF dataset = "enron" THEN 65536 ELSE 3,
     proxy |-> IF dataset = "enron" THEN "canonical-subject-proxy-not-thread-ground-truth-v1" ELSE "none",
     positives |-> IF dataset = "enron" THEN 0 ELSE 1,
     limits |-> IF dataset = "enron" THEN <<9, 1>> ELSE <<>>,
     dropped |-> DropKeys(dataset), counters |-> <<1, 2>>, files |-> Names,
     recordCount |-> Len(recs.rows), pairCount |-> Len(prs.rows),
     sums |-> [source |-> src, records |-> recs, pairs |-> prs]]
Directory(m, recs, prs, src) ==
    [f \in Members(<<"dataset.manifest.tsv", Names.source, Names.records, Names.pairs>>) |->
        CASE f = Names.source -> src [] f = Names.records -> recs [] f = Names.pairs -> prs [] OTHER -> m]
Whole(dataset, recs, prs, src) == Directory(Manifest(dataset, recs, prs, src), recs, prs, src)

DirA == Whole("dblp_acm", File(RowsA), File(PairsA), Source("a"))
DirB == Whole("enron", File(RowsB), File(PairsB), Source("b"))
MCPrepared == {DirA, DirB}

WithRows(rows) == Whole("dblp_acm", File(rows), File(PairsA), Source("a"))
WithPairs(rows) == Whole("dblp_acm", File(RowsA), File(rows), Source("a"))
Twisted(m) == Directory(m, File(RowsA), File(PairsA), Source("a"))
ManA == DirA["dataset.manifest.tsv"]
ManB == DirB["dataset.manifest.tsv"]

MCForeign ==
    {WithRows(<<RowsA[1], RowsA[2], RowsA[1]>>),
     WithRows(<<RowsA[1], Rec("r2", <<8, 7>>, <<1, 2>>)>>),
     WithRows(<<RowsA[1], Rec("r2", <<7, 8>>, <<2, 2>>)>>),
     WithRows(<<RowsA[1], Rec("r2", <<7, 8>>, <<1, 3>>)>>),
     WithRows(<<RowsA[1], [RowsA[2] EXCEPT !.rawCount = 3]>>),
     WithRows(<<RowsA[1]>>),
     WithPairs(<<PairsA[1], [PairsA[2] EXCEPT !.kind = "cross_thread"]>>),
     WithPairs(<<PairsA[1], [PairsA[2] EXCEPT !.label = 1]>>),
     WithPairs(<<[PairsA[1] EXCEPT !.label = 2 ^ IntBits + 1]>>),
     WithPairs(<<[PairsA[1] EXCEPT !.label = 2 ^ (2 * IntBits) + 1]>>),
     WithPairs(<<PairsA[1], PairsA[1]>>),
     Whole("dblp_acm", [strict |-> FALSE, rows |-> RowsA], File(PairsA), Source("a")),
     Twisted([ManA EXCEPT !.recordCount = 3]), Twisted([ManA EXCEPT !.counters = <<-1>>]),
     Twisted([ManA EXCEPT !.universe = 0]), Twisted([ManA EXCEPT !.sums.records = File(<<>>)]),
     Twisted([ManA EXCEPT !.sums.source = Source("x")]), Twisted([ManA EXCEPT !.sums.pairs = File(<<>>)]),
     Twisted([ManA EXCEPT !.files.pairs = "../pairs.tsv"]), Twisted([ManA EXCEPT !.files.source = "none.tsv"]),
     Twisted([ManA EXCEPT !.limits = <<1, 1>>]), Twisted([ManA EXCEPT !.dropped = {}]),
     Twisted([ManB EXCEPT !.universe = 1048576]), Twisted([ManB EXCEPT !.positives = 1])}
MCSafePaths == {"source.manifest.tsv", "records.tsv", "pairs.tsv", "none.tsv"}
=============================================================================
