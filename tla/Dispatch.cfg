SPECIFICATION DispatchSpec
CONSTANTS
  Processors = {{}, {"sse2"}, {"sse2", "avx2"}, {"sse2", "avx2", "fma"},
                {"sse2", "avx2", "fma", "avx512f"},
                {"sse2", "avx2", "fma", "avx512f", "avx512bw"},
                {"sse2", "avx512f", "avx512bw"}, {"neon"}}
  Builds = {{}, {"sse2", "avx2", "avx2_fma", "avx512f", "avx512bw"},
            {"sse2", "avx2", "avx512f"}, {"avx2_fma", "avx512f"}, {"neon"}}
INVARIANTS RunsHere WithinRequest ReportFollowsChoice
