---------------------------- MODULE BootFSProofs ----------------------------
(***************************************************************************)
(* The boot image reads back, for every list of inputs, every length and   *)
(* every order of rebuilds.  The invariant follows the image as it grows:  *)
(* the places the headers give are apart and lie behind all headers, what  *)
(* the loops have written so far is still there, and a file whose header   *)
(* is older than its bytes is told by its rebuild count.                   *)
(***************************************************************************)
EXTENDS BootFS, SequenceTheorems, TLAPS

FileHeaders == [file_offset : Nat, file_length : Nat]

Bytes ==
  {Zero} \cup {<<"count", n>> : n \in Nat}
         \cup {<<"header", h, b>> : h \in FileHeaders, b \in Nat}
         \cup {<<"file", f, r, b>> : f \in Inputs, r \in Nat, b \in Nat}

(* What lies before the k-th header, and where the k-th file ends.         *)
At(k) == CountSize + HeaderSize * (k - 1)

End(k) == file_headers[k].file_offset + file_headers[k].file_length

Types ==
  /\ disk \in [Inputs -> Nat] /\ rebuilt \in [Inputs -> Nat]
  /\ file_headers \in Seq(FileHeaders) /\ offset \in Nat
  /\ output \in Seq(Bytes) /\ i \in Nat

(* The places of the files are apart, in order, and behind the headers; a  *)
(* header is right unless its file was built again.                        *)
Places ==
  /\ Len(file_headers) = IF pc = "lengths" THEN i - 1 ELSE Len(files)
  /\ FirstOffset <= offset
  /\ \A k \in 1 .. Len(file_headers) :
       /\ FirstOffset <= file_headers[k].file_offset /\ End(k) <= offset
       /\ \A j \in 1 .. (k - 1) : End(j) <= file_headers[k].file_offset
       /\ Unchanged(files[k]) => file_headers[k].file_length = disk[files[k]]

(* The number of headers and the first n of them are in the image.         *)
HeadersWritten(n) ==
  /\ At(n + 1) <= Len(output)
  /\ output[1] = <<"count", Len(files)>>
  /\ \A k \in 1 .. n, b \in 1 .. HeaderSize :
       output[At(k) + b] = <<"header", file_headers[k], b>>

(* So are the first n files, those that are kept.                          *)
FilesWritten(n) ==
  \A k \in 1 .. n : Kept(files[k]) =>
    /\ End(k) <= Len(output)
    /\ \A b \in 1 .. file_headers[k].file_length :
         output[file_headers[k].file_offset + b] = <<"file", files[k], 0, b>>

Progress ==
  /\ pc \in {"lengths", "headers", "data"} => i \in 1 .. (Len(files) + 1)
  /\ pc = "headers" => Len(output) = At(i) /\ HeadersWritten(i - 1)
  /\ pc = "data" => HeadersWritten(Len(files)) /\ FilesWritten(i - 1)
  /\ Built => HeadersWritten(Len(files)) /\ FilesWritten(Len(files))

Readers ==
  /\ ~Built => loader = NotRead /\ kernel = NotRead
  /\ pc \in {"lengths", "headers", "data"} \/ Built
  /\ KernelFirst

IInv == Types /\ Places /\ Progress /\ Readers

-----------------------------------------------------------------------------
(* The kernel, then the drivers.                                           *)
LEMMA FilesFacts ==
  /\ files \in Seq(Inputs) /\ Len(files) \in Nat \ {0} /\ Len(files) <= MAX_FILES
  /\ files[1] = KERNELS[1]
  /\ Len(files) >= 2 => files[2] = DRIVERS[1]
<1>1. /\ KERNELS \in Seq(Inputs) /\ DRIVERS \in Seq(Inputs) /\ Len(KERNELS) = 1
      /\ Len(DRIVERS) \in Nat /\ Len(KERNELS) + Len(DRIVERS) <= MAX_FILES /\ MAX_FILES \in Nat
  BY BootFSAssumption
<1>2. /\ files \in Seq(Inputs) /\ Len(files) = 1 + Len(DRIVERS)
      /\ \A k \in 1 .. 1 + Len(DRIVERS) :
           files[k] = IF k <= 1 THEN KERNELS[k] ELSE DRIVERS[k - 1]
  <2>1. /\ KERNELS \o DRIVERS \in Seq(Inputs)
        /\ Len(KERNELS \o DRIVERS) = Len(KERNELS) + Len(DRIVERS)
        /\ \A k \in 1 .. Len(KERNELS) + Len(DRIVERS) :
             (KERNELS \o DRIVERS)[k] =
               IF k <= Len(KERNELS) THEN KERNELS[k] ELSE DRIVERS[k - Len(KERNELS)]
    BY <1>1, ConcatProperties, Zenon
  <2>. QED BY <1>1, <2>1, Zenon DEF files
<1>. QED BY <1>1, <1>2

(* The headers lie one behind the other, all of them before FirstOffset.   *)
LEMMA HeaderPlaces ==
  ASSUME NEW k \in Nat \ {0}
  PROVE  /\ At(k) \in Nat /\ CountSize <= At(k) /\ At(1) = CountSize
         /\ At(k + 1) = At(k) + HeaderSize
         /\ \A j \in 1 .. (k - 1) : At(j) \in Nat /\ At(j) + HeaderSize <= At(k)
<1>1. PICK h \in Nat \ {0} : h = HeaderSize
  BY BootFSAssumption
<1>2. \A n \in Nat : h * n \in Nat
  OBVIOUS
<1>3. ASSUME NEW j \in 1 .. (k - 1) PROVE h * (j - 1) \in Nat /\ h * (j - 1) + h <= h * (k - 1)
  <2>1. PICK m \in Nat : k - 1 = j + m
    OBVIOUS
  <2>2. h * m \in Nat /\ h * j \in Nat /\ h * (j - 1) \in Nat
    BY <1>2
  <2>3. h * (k - 1) = h * j + h * m
    BY <2>1
  <2>4. h * (j - 1) + h = h * j
    OBVIOUS
  <2>. QED BY <2>2, <2>3, <2>4
<1>4. h * (k - 1) \in Nat /\ h * ((k + 1) - 1) = h * (k - 1) + h /\ h * (1 - 1) = 0
  BY <1>2
<1>. QED BY <1>1, <1>3, <1>4 DEF At, CountSize

(* The headers end before the first file's data.                           *)
LEMMA HeadersBeforeData ==
  At(Len(files) + 1) <= FirstOffset /\ FirstOffset \in Nat
<1>1. PICK h \in Nat \ {0}, m \in Nat : h = HeaderSize /\ m = MAX_FILES
  BY BootFSAssumption
<1>2. PICK n \in Nat, d \in Nat : n = Len(files) /\ m = n + d
  BY <1>1, FilesFacts
<1>3. h * n \in Nat /\ h * d \in Nat /\ h * m = h * n + h * d
  BY <1>2
<1>4. (n + 1) - 1 = n
  OBVIOUS
<1>. QED BY <1>1, <1>2, <1>3, <1>4 DEF At, FirstOffset, CountSize, ReservedForCount

(* What a write does: it leaves what lies before it alone.                 *)
Wrote(out, pos, bytes, new) ==
  /\ new \in Seq(Bytes) /\ Len(out) <= Len(new)
  /\ Len(bytes) > 0 => pos + Len(bytes) <= Len(new)
  /\ \A k \in 1 .. Len(out) : k <= pos => new[k] = out[k]
  /\ \A b \in 1 .. Len(bytes) : new[pos + b] = bytes[b]

(* WriteAt does so.                                                        *)
LEMMA Written ==
  ASSUME NEW out \in Seq(Bytes), NEW pos \in Nat, NEW bytes \in Seq(Bytes)
  PROVE  Wrote(out, pos, bytes, WriteAt(out, pos, bytes))
<1>0. PICK new : new = WriteAt(out, pos, bytes)
  OBVIOUS
<1>1. Len(out) \in Nat /\ Len(bytes) \in Nat /\ (bytes = <<>> <=> Len(bytes) = 0)
  BY EmptySeq
<1>2. PICK end \in Nat : end = IF bytes = <<>> THEN 0 ELSE pos + Len(bytes)
  BY <1>1
<1>3. PICK n \in Nat : n = IF end > Len(out) THEN end ELSE Len(out)
  BY <1>1
<1>4. new = [k \in 1 .. n |->
               IF k > pos /\ k <= end THEN bytes[k - pos]
               ELSE IF k <= Len(out) THEN out[k] ELSE Zero]
  BY <1>0, <1>2, <1>3, Zenon DEF WriteAt
<1>5. end <= pos + Len(bytes) /\ (Len(bytes) > 0 => end = pos + Len(bytes))
  BY <1>1, <1>2
<1>6. ASSUME NEW k \in 1 .. n
      PROVE  (IF k > pos /\ k <= end THEN bytes[k - pos]
              ELSE IF k <= Len(out) THEN out[k] ELSE Zero) \in Bytes
  <2>1. Zero \in Bytes
    BY DEF Bytes
  <2>2. CASE k > pos /\ k <= end
    <3>1. k - pos \in 1 .. Len(bytes)
      BY <1>1, <1>5, <2>2
    <3>. QED BY <2>2, <3>1, LenProperties
  <2>3. CASE ~(k > pos /\ k <= end)
    BY <1>1, <2>1, <2>3, LenProperties
  <2>. QED BY <2>2, <2>3
<1>7. new \in Seq(Bytes) /\ Len(new) = n
  BY <1>4, <1>6
<1>8. Wrote(out, pos, bytes, new)
  BY <1>1, <1>3, <1>4, <1>5, <1>7 DEF Wrote
<1>. QED BY <1>0, <1>8

(* What a header holds.                                                    *)
LEMMA HeaderTypes ==
  ASSUME Types, NEW k \in 1 .. Len(file_headers)
  PROVE  /\ file_headers[k] \in FileHeaders /\ End(k) \in Nat
         /\ file_headers[k].file_offset \in Nat /\ file_headers[k].file_length \in Nat
<1>1. file_headers[k] \in FileHeaders
  BY DEF Types
<1>. QED BY <1>1 DEF FileHeaders, End

(* The bytes of a file on the disk.                                        *)
LEMMA FileBytesFacts ==
  ASSUME Types, NEW f \in Inputs
  PROVE  /\ FileBytes(f) \in Seq(Bytes) /\ Len(FileBytes(f)) = disk[f]
         /\ \A b \in 1 .. disk[f] : FileBytes(f)[b] = <<"file", f, rebuilt[f], b>>
<1>1. disk[f] \in Nat /\ rebuilt[f] \in Nat
  BY DEF Types
<1>2. \A b \in 1 .. disk[f] : <<"file", f, rebuilt[f], b>> \in Bytes
  BY <1>1 DEF Bytes
<1>. QED BY <1>1, <1>2 DEF FileBytes

-----------------------------------------------------------------------------
(* A step that leaves headers and image alone, and undoes no rebuild and   *)
(* no short write, keeps what was written.                                 *)
LEMMA WrittenStays ==
  ASSUME UNCHANGED <<file_headers, output>>, NEW n \in Nat, n <= Len(files),
         \A f \in Inputs : Kept(f)' => Kept(f)
  PROVE  /\ HeadersWritten(n) => HeadersWritten(n)'
         /\ FilesWritten(n) => FilesWritten(n)'
<1>1. HeadersWritten(n) => HeadersWritten(n)'
  BY Zenon DEF HeadersWritten
<1>2. \A k \in 1 .. n : files[k] \in Inputs
  BY FilesFacts
<1>3. \A k \in 1 .. n : Kept(files[k])' => Kept(files[k])
  <2>1. ASSUME NEW k \in 1 .. n, Kept(files[k])' PROVE Kept(files[k])
    <3>1. PICK f \in Inputs : f = files[k]
      BY <1>2
    <3>2. Kept(f)'
      BY <2>1, <3>1 DEF Kept, Unchanged
    <3>. QED BY <3>1, <3>2
  <2>. QED BY <2>1
<1>4. FilesWritten(n) => FilesWritten(n)'
  BY <1>3, Zenon DEF FilesWritten, End
<1>. QED BY <1>1, <1>4

(* A file that is rebuilt during the run changes the disk only.            *)
LEMMA RebuildKeeps == ASSUME IInv, NEW f \in Inputs, rebuild(f) PROVE IInv'
<1>1. /\ pc \in {"lengths", "headers", "data"} /\ pc' = pc /\ i' = i
      /\ UNCHANGED <<file_headers, offset, output, cut, loader, kernel>> /\ ~Built
  BY DEF rebuild, Built
<1>2. PICK n \in Nat : disk' = [disk EXCEPT ![f] = n]
  BY BootFSAssumption DEF rebuild
<1>3. /\ disk \in [Inputs -> Nat] /\ rebuilt \in [Inputs -> Nat]
      /\ rebuilt' = [rebuilt EXCEPT ![f] = @ + 1]
  BY DEF IInv, Types, rebuild
<1>4. \A g \in Inputs : rebuilt'[g] = 0 => rebuilt[g] = 0 /\ disk'[g] = disk[g]
  BY <1>2, <1>3
<1>5. Types'
  BY <1>1, <1>2, <1>3 DEF IInv, Types
<1>6. Len(file_headers) \in Nat /\ Len(file_headers) <= Len(files)
  BY <1>1, FilesFacts DEF IInv, Types, Places, Progress
<1>7. \A k \in 1 .. Len(file_headers) :
        Unchanged(files[k])' => Unchanged(files[k]) /\ disk'[files[k]] = disk[files[k]]
  BY <1>4, <1>6, FilesFacts DEF Unchanged
<1>8. Places'
  BY <1>1, <1>7 DEF IInv, Places, End
<1>9. \A g \in Inputs : Kept(g)' => Kept(g)
  BY <1>1, <1>4 DEF Kept, Unchanged
<1>10. Progress'
  <2>1. PICK m \in Nat : m = i - 1 /\ m <= Len(files) /\ Len(files) \in Nat
    BY <1>1, FilesFacts DEF IInv, Progress
  <2>2. pc = "headers" => HeadersWritten(m)'
    BY <1>1, <1>9, <2>1, WrittenStays DEF IInv, Progress
  <2>3. pc = "data" => HeadersWritten(Len(files))' /\ FilesWritten(m)'
    BY <1>1, <1>9, <2>1, WrittenStays DEF IInv, Progress
  <2>4. ~Built'
    BY <1>1 DEF Built
  <2>. QED BY <1>1, <2>1, <2>2, <2>3, <2>4 DEF IInv, Progress
<1>11. Readers'
  BY <1>1 DEF IInv, Readers, Built, KernelFirst
<1>. QED BY <1>5, <1>8, <1>10, <1>11 DEF IInv

(* Reading one file's length adds a header.                                *)
LEMMA ReadLengthKeeps == ASSUME IInv, read_length PROVE IInv'
<1>1. /\ pc = "lengths" /\ pc' = pc /\ i' = i + 1 /\ i \in 1 .. Len(files) /\ i \in Nat
      /\ UNCHANGED <<disk, rebuilt, output, cut, loader, kernel>>
      /\ Len(file_headers) = i - 1 /\ file_headers \in Seq(FileHeaders) /\ offset \in Nat
      /\ FirstOffset <= offset
  BY DEF IInv, Types, Places, Progress, read_length
<1>2. PICK n \in Nat : n = disk[files[i]]
  BY <1>1, FilesFacts DEF IInv, Types
<1>3. PICK h \in FileHeaders : h = [file_offset |-> offset, file_length |-> n]
  BY <1>1 DEF FileHeaders
<1>4. file_headers' = Append(file_headers, h) /\ offset' = offset + n
  BY <1>2, <1>3 DEF read_length
<1>5. /\ file_headers' \in Seq(FileHeaders) /\ Len(file_headers') = i
      /\ \A k \in 1 .. (i - 1) : file_headers'[k] = file_headers[k]
      /\ file_headers'[i] = h /\ h.file_offset = offset /\ h.file_length = n
  BY <1>1, <1>3, <1>4
<1>6. Types'
  BY <1>1, <1>4, <1>5 DEF IInv, Types
<1>7. \A k \in 1 .. (i - 1) : /\ FirstOffset <= file_headers[k].file_offset /\ End(k) <= offset
                              /\ \A j \in 1 .. (k - 1) : End(j) <= file_headers[k].file_offset
                              /\ Unchanged(files[k]) => file_headers[k].file_length = disk[files[k]]
  BY <1>1 DEF IInv, Places
<1>8. \A k \in 1 .. (i - 1) : End(k) \in Nat
  BY <1>1, HeaderTypes DEF IInv
<1>9. \A k \in 1 .. (i - 1) : End(k)' = End(k)
  BY <1>5 DEF End
<1>10. \A k : k = i => End(k)' = offset + n
  BY <1>5 DEF End
<1>11. ASSUME NEW k \in 1 .. i
       PROVE  /\ FirstOffset <= file_headers'[k].file_offset /\ End(k)' <= offset'
              /\ \A j \in 1 .. (k - 1) : End(j)' <= file_headers'[k].file_offset
              /\ Unchanged(files[k])' => file_headers'[k].file_length = disk'[files[k]]
  <2>1. CASE k = i
    BY <1>1, <1>2, <1>4, <1>5, <1>7, <1>9, <1>10, <2>1
  <2>2. CASE k # i
    <3>1. k \in 1 .. (i - 1) /\ \A j \in 1 .. (k - 1) : j \in 1 .. (i - 1)
      BY <1>1, <2>2
    <3>2. file_headers'[k] = file_headers[k] /\ End(k)' = End(k) /\ End(k) \in Nat
      BY <1>5, <1>8, <1>9, <3>1
    <3>3. FirstOffset <= file_headers'[k].file_offset /\ End(k)' <= offset'
      BY <1>1, <1>4, <1>7, <3>1, <3>2
    <3>4. \A j \in 1 .. (k - 1) : End(j)' <= file_headers'[k].file_offset
      BY <1>7, <1>9, <3>1, <3>2
    <3>5. Unchanged(files[k])' => file_headers'[k].file_length = disk'[files[k]]
      BY <1>1, <1>7, <3>1, <3>2, Zenon DEF Unchanged
    <3>. QED BY <3>3, <3>4, <3>5
  <2>. QED BY <2>1, <2>2
<1>12. FirstOffset <= offset'
  BY <1>1, <1>4, HeadersBeforeData
<1>13. Places'
  BY <1>1, <1>5, <1>11, <1>12 DEF Places
<1>14. Progress'
  BY <1>1 DEF Progress, Built
<1>15. Readers'
  BY <1>1 DEF IInv, Readers, Built, KernelFirst
<1>. QED BY <1>6, <1>13, <1>14, <1>15 DEF IInv

(* The image starts with the number of files.                              *)
LEMMA WriteCountKeeps == ASSUME IInv, write_count PROVE IInv'
<1>1. /\ pc = "lengths" /\ pc' = "headers" /\ i' = 1 /\ i = Len(files) + 1
      /\ UNCHANGED <<disk, rebuilt, file_headers, offset, loader, kernel>>
      /\ Len(file_headers) = Len(files) /\ Len(files) \in Nat \ {0}
      /\ output' = CountBytes(Len(files))
  BY FilesFacts DEF IInv, Places, Progress, write_count
<1>2. /\ output' \in Seq(Bytes) /\ Len(output') = CountSize /\ output'[1] = <<"count", Len(files)>>
  <2>1. <<"count", Len(files)>> \in Bytes
    BY <1>1 DEF Bytes
  <2>. QED BY <1>1, <2>1 DEF CountBytes, CountSize
<1>3. Types'
  BY <1>1, <1>2 DEF IInv, Types
<1>4. Places'
  BY <1>1 DEF IInv, Places, End, Unchanged
<1>5. At(1) = CountSize /\ i' - 1 = 0
  BY <1>1, HeaderPlaces
<1>6. \A n : n = 0 => HeadersWritten(n)'
  BY <1>1, <1>2, <1>5 DEF HeadersWritten, CountSize
<1>7. Progress'
  BY <1>1, <1>2, <1>5, <1>6 DEF Progress, Built
<1>8. Readers'
  BY <1>1 DEF IInv, Readers, Built, KernelFirst
<1>. QED BY <1>3, <1>4, <1>7, <1>8 DEF IInv

(* One header is written behind the others.                                *)
LEMMA WriteHeaderKeeps == ASSUME IInv, write_header PROVE IInv'
<1>1. /\ pc = "headers" /\ pc' = pc /\ i' = i + 1 /\ i \in 1 .. Len(files) /\ i \in Nat \ {0}
      /\ UNCHANGED <<disk, rebuilt, file_headers, offset, loader, kernel>>
      /\ Len(file_headers) = Len(files) /\ Len(files) \in Nat \ {0}
      /\ output \in Seq(Bytes) /\ Len(output) = At(i) /\ HeadersWritten(i - 1)
      /\ output' = output \o HeaderBytes(file_headers[i])
  BY FilesFacts DEF IInv, Types, Places, Progress, write_header
<1>2. PICK m \in Nat \ {0}, a \in Nat : m = i /\ a = At(m) /\ CountSize <= a
  BY <1>1, HeaderPlaces
<1>3. HeaderSize \in Nat \ {0}
  BY BootFSAssumption
<1>4. PICK bytes \in Seq(Bytes) :
        /\ bytes = HeaderBytes(file_headers[m]) /\ Len(bytes) = HeaderSize
        /\ \A b \in 1 .. HeaderSize : bytes[b] = <<"header", file_headers[m], b>>
  <2>1. file_headers[m] \in FileHeaders
    BY <1>1, <1>2, HeaderTypes DEF IInv
  <2>2. \A b \in 1 .. HeaderSize : <<"header", file_headers[m], b>> \in Bytes
    BY <1>3, <2>1 DEF Bytes
  <2>3. PICK bytes : bytes = HeaderBytes(file_headers[m])
    OBVIOUS
  <2>4. bytes = [k \in 1 .. HeaderSize |-> <<"header", file_headers[m], k>>]
    BY <2>3 DEF HeaderBytes
  <2>5. bytes \in Seq(Bytes) /\ Len(bytes) = HeaderSize
    BY <1>3, <2>2, <2>4
  <2>6. \A b \in 1 .. HeaderSize : bytes[b] = <<"header", file_headers[m], b>>
    BY <2>4, Zenon
  <2>. QED BY <2>3, <2>5, <2>6, Zenon
<1>5. /\ output' \in Seq(Bytes) /\ Len(output') = a + HeaderSize
      /\ \A k \in 1 .. a : output'[k] = output[k]
      /\ \A b \in 1 .. HeaderSize : output'[a + b] = bytes[b]
  <2>1. output' = output \o bytes /\ Len(output) = a
    BY <1>1, <1>2, <1>4
  <2>2. /\ output' \in Seq(Bytes) /\ Len(output') = a + HeaderSize
        /\ \A k \in 1 .. (a + HeaderSize) :
             output'[k] = IF k <= a THEN output[k] ELSE bytes[k - a]
    BY <1>1, <1>4, <2>1, ConcatProperties
  <2>3. ASSUME NEW b \in 1 .. HeaderSize PROVE output'[a + b] = bytes[b]
    <3>1. a + b \in 1 .. (a + HeaderSize) /\ ~(a + b <= a) /\ (a + b) - a = b
      BY <1>3
    <3>. QED BY <2>2, <3>1
  <2>. QED BY <1>3, <2>2, <2>3
<1>6. Types'
  BY <1>1, <1>5 DEF IInv, Types
<1>7. Places'
  BY <1>1 DEF IInv, Places, End, Unchanged
<1>8. At(m + 1) = a + HeaderSize
  BY <1>2, HeaderPlaces
<1>9. HeadersWritten(m)'
  <2>1. /\ output[1] = <<"count", Len(files)>> /\ 1 \in 1 .. a
        /\ \A k \in 1 .. (m - 1), b \in 1 .. HeaderSize :
             output[At(k) + b] = <<"header", file_headers[k], b>>
    BY <1>1, <1>2 DEF HeadersWritten, CountSize
  <2>2. ASSUME NEW k \in 1 .. m, NEW b \in 1 .. HeaderSize
        PROVE  output'[At(k) + b] = <<"header", file_headers[k], b>>
    <3>1. CASE k = m
      BY <1>2, <1>4, <1>5, <3>1
    <3>2. CASE k # m
      <4>1. k \in 1 .. (m - 1)
        BY <3>2
      <4>2. At(k) \in Nat /\ At(k) + HeaderSize <= a
        BY <1>2, <4>1, HeaderPlaces
      <4>3. At(k) + b \in 1 .. a
        BY <1>3, <4>2
      <4>. QED BY <1>5, <2>1, <4>1, <4>3
    <3>. QED BY <3>1, <3>2
  <2>3. At(m + 1) <= Len(output')
    BY <1>2, <1>3, <1>5, <1>8
  <2>4. output'[1] = <<"count", Len(files)>>
    BY <1>5, <2>1
  <2>. QED BY <1>1, <2>2, <2>3, <2>4, Zenon DEF HeadersWritten
<1>10. Progress'
  <2>1. i' \in 1 .. (Len(files) + 1) /\ i' - 1 = m /\ i' = m + 1
    BY <1>1, <1>2
  <2>2. Len(output') = At(m + 1) /\ pc' = "headers"
    BY <1>1, <1>5, <1>8
  <2>. QED BY <1>9, <2>1, <2>2 DEF Progress, Built
<1>11. Readers'
  BY <1>1 DEF IInv, Readers, Built, KernelFirst
<1>. QED BY <1>6, <1>7, <1>10, <1>11 DEF IInv

(* All headers are written.                                                *)
LEMMA HeadersWrittenKeeps == ASSUME IInv, headers_written PROVE IInv'
<1>1. /\ pc = "headers" /\ pc' = "data" /\ i' = 1 /\ i = Len(files) + 1
      /\ UNCHANGED <<disk, rebuilt, file_headers, offset, output, cut, loader, kernel>>
      /\ Len(file_headers) = Len(files) /\ Len(files) \in Nat \ {0}
      /\ HeadersWritten(i - 1)
  BY FilesFacts DEF IInv, Types, Places, Progress, headers_written
<1>2. i - 1 = Len(files)
  BY <1>1
<1>3. Types'
  BY <1>1 DEF IInv, Types
<1>4. Places'
  BY <1>1 DEF IInv, Places, End, Unchanged
<1>5. HeadersWritten(Len(files))'
  BY <1>1, <1>2 DEF HeadersWritten
<1>6. \A n : n = 0 => FilesWritten(n)'
  BY DEF FilesWritten
<1>7. Progress'
  <2>1. i' - 1 = 0 /\ i' \in 1 .. (Len(files) + 1)
    BY <1>1
  <2>. QED BY <1>1, <1>5, <1>6, <2>1 DEF Progress, Built
<1>8. Readers'
  BY <1>1 DEF IInv, Readers, Built, KernelFirst
<1>. QED BY <1>3, <1>4, <1>7, <1>8 DEF IInv

(* A file that is longer than its header says runs over the places behind  *)
(* it, whose files are yet to be written, and over nothing else.           *)
LEMMA WriteDataKeeps == ASSUME IInv, write_data PROVE IInv'
<1>1. /\ pc = "data" /\ pc' = pc /\ i' = i + 1 /\ i \in 1 .. Len(files) /\ i \in Nat \ {0}
      /\ UNCHANGED <<disk, rebuilt, file_headers, offset, loader, kernel>>
      /\ Len(file_headers) = Len(files) /\ Len(files) \in Nat \ {0}
      /\ output \in Seq(Bytes) /\ HeadersWritten(Len(files)) /\ FilesWritten(i - 1) /\ Types
  BY FilesFacts DEF IInv, Types, Places, Progress, write_data
<1>2. PICK m \in 1 .. Len(files), pos \in Nat, f \in Inputs :
        /\ m = i /\ m \in Nat \ {0} /\ f = files[m] /\ pos = file_headers[m].file_offset
        /\ FirstOffset <= pos
        /\ \A j \in 1 .. (m - 1) : End(j) <= pos
  <2>1. i \in 1 .. Len(file_headers)
    BY <1>1
  <2>2. files[i] \in Inputs
    BY <1>1, FilesFacts
  <2>3. file_headers[i].file_offset \in Nat
    BY <1>1, <2>1, HeaderTypes
  <2>4. /\ FirstOffset <= file_headers[i].file_offset
        /\ \A j \in 1 .. (i - 1) : End(j) <= file_headers[i].file_offset
    BY <2>1 DEF IInv, Places
  <2>. QED BY <1>1, <2>2, <2>3, <2>4
<1>3. PICK bytes \in Seq(Bytes) :
        /\ output' = WriteAt(output, pos, bytes)
        /\ \A g : g \notin cut' => g \notin cut
        /\ disk[f] \in Nat
        /\ f \notin cut' => /\ Len(bytes) = disk[f]
                           /\ \A b \in 1 .. disk[f] : bytes[b] = <<"file", f, rebuilt[f], b>>
  <2>1. /\ FileBytes(f) \in Seq(Bytes) /\ Len(FileBytes(f)) = disk[f] /\ disk[f] \in Nat
        /\ \A b \in 1 .. disk[f] : FileBytes(f)[b] = <<"file", f, rebuilt[f], b>>
    BY <1>1, FileBytesFacts DEF Types
  <2>2. PICK n \in 0 .. disk[f] :
          /\ output' = WriteAt(output, pos, SubSeq(FileBytes(f), 1, n))
          /\ cut' = IF n < disk[f] THEN cut \cup {f} ELSE cut
    BY <1>2 DEF write_data
  <2>3. PICK all \in Seq(Bytes), m1 \in Int, n1 \in Int :
          all = FileBytes(f) /\ m1 = 1 /\ n1 = n /\ Len(all) = disk[f]
    BY <2>1
  <2>4. PICK bytes : bytes = SubSeq(all, m1, n1)
    OBVIOUS
  <2>5. \A b \in m1 .. n1 : all[b] \in Bytes
    BY <2>1, <2>3
  <2>6. /\ SubSeq(all, m1, n1) \in Seq(Bytes)
        /\ Len(SubSeq(all, m1, n1)) = IF m1 <= n1 THEN n1 - m1 + 1 ELSE 0
        /\ \A b \in 1 .. n1 - m1 + 1 : SubSeq(all, m1, n1)[b] = all[m1 + b - 1]
    BY <2>5, SubSeqProperties
  <2>7. n1 - m1 + 1 = n /\ (IF m1 <= n1 THEN n1 - m1 + 1 ELSE 0) = n
    BY <2>1, <2>3
  <2>8. \A b \in 1 .. n : m1 + b - 1 = b
    BY <2>3
  <2>9. bytes \in Seq(Bytes) /\ Len(bytes) = n /\ \A b \in 1 .. n : bytes[b] = all[b]
    BY <2>4, <2>6, <2>7, <2>8
  <2>10. \A g : g \notin cut' => g \notin cut
    BY <2>2
  <2>11. f \notin cut' => n = disk[f]
    BY <2>1, <2>2
  <2>12. output' = WriteAt(output, pos, bytes)
    BY <2>2, <2>3, <2>4
  <2>13. f \notin cut' => \A b \in 1 .. disk[f] : bytes[b] = <<"file", f, rebuilt[f], b>>
    BY <2>1, <2>3, <2>9, <2>11
  <2>. QED BY <2>1, <2>9, <2>10, <2>11, <2>12, <2>13
<1>4. /\ output' \in Seq(Bytes) /\ Len(output) <= Len(output')
      /\ \A k \in 1 .. Len(output) : k <= pos => output'[k] = output[k]
      /\ f \notin cut' =>
           /\ disk[f] > 0 => pos + disk[f] <= Len(output')
           /\ \A b \in 1 .. disk[f] : output'[pos + b] = <<"file", f, rebuilt[f], b>>
  <2>1. /\ output' \in Seq(Bytes) /\ Len(output) <= Len(output')
        /\ Len(bytes) > 0 => pos + Len(bytes) <= Len(output')
        /\ \A k \in 1 .. Len(output) : k <= pos => output'[k] = output[k]
        /\ \A b \in 1 .. Len(bytes) : output'[pos + b] = bytes[b]
    <3>1. Wrote(output, pos, bytes, WriteAt(output, pos, bytes))
      BY <1>1, Written, Zenon
    <3>2. Wrote(output, pos, bytes, output')
      BY <1>3, <3>1, Zenon
    <3>. QED BY <3>2, Zenon DEF Wrote
  <2>. QED BY <1>3, <2>1, Zenon
<1>5. Types'
  BY <1>1, <1>4 DEF Types
<1>6. Places'
  BY <1>1 DEF IInv, Places, End, Unchanged
<1>7. Len(output) \in Nat /\ Len(output') \in Nat
  BY <1>1, <1>4
<1>8. HeadersWritten(Len(files))'
  <2>1. PICK top \in Nat : /\ top = At(Len(files) + 1) /\ top <= Len(output) /\ top <= pos
                           /\ CountSize <= top
    <3>1. At(Len(files) + 1) \in Nat /\ CountSize <= At(Len(files) + 1)
      BY <1>1, HeaderPlaces
    <3>2. At(Len(files) + 1) <= pos
      BY <1>2, <3>1, HeadersBeforeData
    <3>. QED BY <1>1, <3>1, <3>2 DEF HeadersWritten
  <2>2. \A k \in 1 .. top : output'[k] = output[k]
    BY <1>4, <1>7, <2>1
  <2>3. ASSUME NEW k \in 1 .. Len(files), NEW b \in 1 .. HeaderSize
        PROVE  output'[At(k) + b] = <<"header", file_headers[k], b>>
    <3>1. k \in 1 .. ((Len(files) + 1) - 1) /\ Len(files) + 1 \in Nat \ {0}
      BY <1>1
    <3>2. At(k) \in Nat /\ At(k) + HeaderSize <= top
      BY <2>1, <3>1, HeaderPlaces
    <3>3. At(k) + b \in 1 .. top
      BY <3>2, BootFSAssumption
    <3>. QED BY <1>1, <2>2, <3>3 DEF HeadersWritten
  <2>4. output'[1] = <<"count", Len(files)>>
    <3>1. output[1] = <<"count", Len(files)>>
      BY <1>1 DEF HeadersWritten
    <3>2. 1 \in 1 .. top
      BY <2>1 DEF CountSize
    <3>. QED BY <2>2, <3>1, <3>2
  <2>5. top <= Len(output')
    BY <1>4, <1>7, <2>1
  <2>. QED BY <1>1, <2>1, <2>3, <2>4, <2>5, Zenon DEF HeadersWritten
<1>9. FilesWritten(m)'
  <2>1. SUFFICES ASSUME NEW k \in 1 .. m, rebuilt[files[k]] = 0, files[k] \notin cut',
                        disk[files[k]] > 0
                 PROVE  /\ End(k) <= Len(output')
                        /\ \A b \in 1 .. file_headers[k].file_length :
                             output'[file_headers[k].file_offset + b] = <<"file", files[k], 0, b>>
    BY <1>1, Zenon DEF FilesWritten, Kept, Unchanged, End
  <2>2. /\ k \in 1 .. Len(file_headers) /\ End(k) \in Nat
        /\ file_headers[k].file_offset \in Nat /\ file_headers[k].file_length \in Nat
    BY <1>1, <1>2, HeaderTypes
  <2>3. CASE k = m
    <3>1. /\ file_headers[k].file_length = disk[f] /\ rebuilt[f] = 0
          /\ f \notin cut' /\ disk[f] > 0
      BY <1>2, <2>1, <2>2, <2>3 DEF IInv, Places, Unchanged
    <3>2. End(k) = pos + disk[f]
      BY <1>2, <2>3, <3>1 DEF End
    <3>. QED BY <1>2, <1>4, <2>3, <3>1, <3>2
  <2>4. CASE k # m
    <3>1. k \in 1 .. (m - 1) /\ End(k) <= pos /\ m - 1 = i - 1
      BY <1>2, <2>4
    <3>2. /\ End(k) <= Len(output)
          /\ \A b \in 1 .. file_headers[k].file_length :
               output[file_headers[k].file_offset + b] = <<"file", files[k], 0, b>>
      BY <1>1, <1>3, <2>1, <3>1 DEF FilesWritten, Kept, Unchanged
    <3>3. ASSUME NEW b \in 1 .. file_headers[k].file_length
          PROVE  /\ file_headers[k].file_offset + b \in 1 .. Len(output)
                 /\ file_headers[k].file_offset + b <= pos
      <4>1. PICK o \in Nat, l \in Nat :
              o = file_headers[k].file_offset /\ l = file_headers[k].file_length
        BY <2>2
      <4>2. o + l <= Len(output) /\ o + l <= pos /\ b \in 1 .. l
        BY <3>1, <3>2, <4>1 DEF End
      <4>3. PICK c \in Nat, q \in Nat : c = b /\ 1 <= c /\ c <= l /\ q = Len(output)
        <5>1. b \in Nat /\ 1 <= b /\ b <= l
          BY <4>2
        <5>. QED BY <1>7, <5>1, Zenon
      <4>4. o + l <= q /\ o + l <= pos
        BY <4>2, <4>3
      <4>5. o + c <= q /\ 1 <= o + c /\ o + c \in Nat /\ o + c <= pos
        BY <4>3, <4>4
      <4>6. o + c \in 1 .. q
        BY <4>5
      <4>. QED BY <4>1, <4>3, <4>5, <4>6, Zenon
    <3>4. End(k) <= Len(output')
      BY <1>4, <1>7, <2>2, <3>2
    <3>. QED BY <1>4, <3>2, <3>3, <3>4, Zenon
  <2>. QED BY <2>3, <2>4
<1>10. Progress'
  <2>1. i' \in 1 .. (Len(files) + 1) /\ i' - 1 = m
    BY <1>1, <1>2
  <2>. QED BY <1>1, <1>8, <1>9, <2>1 DEF Progress, Built
<1>11. Readers'
  BY <1>1 DEF IInv, Readers, Built, KernelFirst
<1>. QED BY <1>5, <1>6, <1>10, <1>11 DEF IInv

(* All files are written.                                                  *)
LEMMA ImageBuiltKeeps == ASSUME IInv, image_built PROVE IInv'
<1>1. /\ pc = "data" /\ pc' = "load" /\ i = Len(files) + 1 /\ Built'
      /\ UNCHANGED <<disk, rebuilt, file_headers, offset, output, cut, i, loader, kernel>>
      /\ Len(files) \in Nat \ {0} /\ HeadersWritten(Len(files)) /\ FilesWritten(i - 1)
  BY FilesFacts DEF IInv, Types, Places, Progress, image_built, Built
<1>2. i - 1 = Len(files)
  BY <1>1
<1>3. Types' /\ Places'
  BY <1>1 DEF IInv, Types, Places, End, Unchanged
<1>4. HeadersWritten(Len(files))' /\ FilesWritten(Len(files))'
  BY <1>1, <1>2, Zenon DEF HeadersWritten, FilesWritten, End, Kept, Unchanged
<1>5. Progress'
  BY <1>1, <1>4 DEF Progress
<1>6. Readers'
  BY <1>1 DEF IInv, Readers, Built, KernelFirst
<1>. QED BY <1>3, <1>5, <1>6 DEF IInv

-----------------------------------------------------------------------------

(* A complete image reads back the data of every file that did not change, *)
LEMMA FilesBack == IInv => FilesReadBack
<1>. SUFFICES ASSUME IInv, Built, NEW k \in 1 .. Len(files), Kept(files[k])
              PROVE  file_data(file_headers[k]) = Read(FileBytes(files[k]))
  BY DEF FilesReadBack
<1>1. /\ Types /\ output \in Seq(Bytes) /\ Len(output) \in Nat
      /\ FilesWritten(Len(files)) /\ Len(file_headers) = Len(files)
  BY DEF IInv, Types, Places, Progress, Built
<1>2. PICK f \in Inputs : f = files[k] /\ rebuilt[f] = 0 /\ Unchanged(files[k])
  BY FilesFacts DEF Kept, Unchanged
<1>3. PICK h \in FileHeaders, o \in Nat, l \in Nat :
        /\ h = file_headers[k] /\ o = h.file_offset /\ l = h.file_length /\ l = disk[f]
  <2>1. file_headers[k] \in FileHeaders
    BY <1>1, HeaderTypes
  <2>2. file_headers[k].file_length = disk[f]
    BY <1>1, <1>2 DEF IInv, Places
  <2>. QED BY <2>1, <2>2 DEF FileHeaders
<1>4. /\ o + l <= Len(output)
      /\ \A b \in 1 .. l : output[o + b] = <<"file", f, 0, b>>
  BY <1>1, <1>2, <1>3 DEF FilesWritten, End
<1>5. file_data(h) = Read(SubSeq(output, o + 1, o + l))
  BY <1>1, <1>3, <1>4 DEF file_data
<1>6. /\ FileBytes(f) \in Seq(Bytes) /\ Len(FileBytes(f)) = l
      /\ \A b \in 1 .. l : FileBytes(f)[b] = <<"file", f, 0, b>>
  BY <1>1, <1>2, <1>3, FileBytesFacts
<1>7. PICK s : s = SubSeq(output, o + 1, o + l)
  OBVIOUS
<1>8. s \in Seq(Bytes) /\ Len(s) = l /\ \A b \in 1 .. l : s[b] = output[o + b]
  <2>1. PICK m \in Int, n \in Int : m = o + 1 /\ n = o + l
    OBVIOUS
  <2>2. \A b \in m .. n : output[b] \in Bytes
    BY <1>1, <1>4, <2>1
  <2>3. /\ SubSeq(output, m, n) \in Seq(Bytes)
        /\ Len(SubSeq(output, m, n)) = IF m <= n THEN n - m + 1 ELSE 0
        /\ \A b \in 1 .. n - m + 1 : SubSeq(output, m, n)[b] = output[m + b - 1]
    BY <2>2, SubSeqProperties
  <2>4. s = SubSeq(output, m, n)
    BY <1>7, <2>1
  <2>5. n - m + 1 = l /\ (IF m <= n THEN n - m + 1 ELSE 0) = l
    BY <2>1
  <2>6. \A b \in 1 .. l : m + b - 1 = o + b
    BY <2>1
  <2>. QED BY <2>3, <2>4, <2>5, <2>6
<1>9. s = FileBytes(f)
  <2>1. \A b \in 1 .. Len(s) : s[b] = FileBytes(f)[b]
    BY <1>4, <1>6, <1>8
  <2>. QED BY <1>6, <1>8, <2>1, SeqEqual
<1>. QED BY <1>2, <1>3, <1>5, <1>7, <1>9

(* and the headers of all.                                                 *)
LEMMA HeadersBack == IInv => HeadersReadBack
<1>. SUFFICES ASSUME IInv, Built PROVE Count = Len(files) /\ \A k \in 1 .. Count : Header(k) = file_headers[k]
  BY DEF HeadersReadBack
<1>1. /\ Types /\ Len(output) \in Nat /\ HeadersWritten(Len(files))
      /\ Len(file_headers) = Len(files) /\ Len(files) \in Nat \ {0}
  BY FilesFacts DEF IInv, Types, Places, Progress, Built
<1>2. Count = Len(files)
  BY <1>1 DEF Count, HeadersWritten
<1>3. ASSUME NEW k \in 1 .. Len(files) PROVE Header(k) = file_headers[k]
  <2>1. PICK a, h :
          /\ a \in Nat /\ a = At(k) /\ a + HeaderSize <= Len(output) /\ h = file_headers[k]
    <3>1. k \in 1 .. ((Len(files) + 1) - 1) /\ Len(files) + 1 \in Nat \ {0}
      BY <1>1
    <3>2. At(k) \in Nat /\ At(k) + HeaderSize <= At(Len(files) + 1) /\ At(Len(files) + 1) \in Nat
      BY <3>1, HeaderPlaces
    <3>3. At(k) + HeaderSize <= Len(output)
      BY <1>1, <3>2, BootFSAssumption DEF HeadersWritten
    <3>. QED BY <3>2, <3>3
  <2>2. \A b \in 1 .. HeaderSize : a + b <= Len(output) /\ output[a + b] = <<"header", h, b>>
    <3>1. \A b \in 1 .. HeaderSize : a + b <= Len(output)
      BY <1>1, <2>1, BootFSAssumption
    <3>2. \A b \in 1 .. HeaderSize : output[At(k) + b] = <<"header", file_headers[k], b>>
      BY <1>1, Zenon DEF HeadersWritten
    <3>. QED BY <2>1, <3>1, <3>2, Zenon
  <2>3. output[a + 1] = <<"header", h, 1>>
    BY <2>2, BootFSAssumption
  <2>4. h \in {file_headers[n] : n \in 1 .. Len(file_headers)}
    BY <1>1, <2>1
  <2>5. a = CountSize + HeaderSize * (k - 1)
    BY <2>1 DEF At
  <2>6. Header(k) = output[a + 1][2]
    BY <2>2, <2>4, <2>5, Zenon DEF Header
  <2>. QED BY <2>1, <2>3, <2>6
<1>. QED BY <1>2, <1>3

(* In a finished image that keeps every input, the readers see every file  *)
(* as it is.                                                               *)
LEMMA AllBack ==
  ASSUME IInv, Built, \A f \in Inputs : Kept(f)
  PROVE  /\ Count = Len(files)
         /\ \A k \in 1 .. Count : AllRead[k] = Read(FileBytes(files[k]))
<1>1. Count = Len(files) /\ \A k \in 1 .. Len(files) : Header(k) = file_headers[k]
  BY HeadersBack DEF HeadersReadBack
<1>2. \A k \in 1 .. Len(files) : files[k] \in Inputs
  BY FilesFacts
<1>3. \A k \in 1 .. Len(files) : file_data(file_headers[k]) = Read(FileBytes(files[k]))
  BY <1>2, FilesBack DEF FilesReadBack
<1>. QED BY <1>1, <1>3, Zenon DEF AllRead

(* The loader only reads the image,                                        *)
LEMMA LoaderReadsKeeps == ASSUME IInv, loader_reads PROVE IInv'
<1>1. /\ pc = "load" /\ pc' \in {"start", "stopped"} /\ Built /\ Built'
      /\ UNCHANGED <<disk, rebuilt, file_headers, offset, output, cut, i, kernel>>
  BY DEF loader_reads, Built
<1>2. Types' /\ Places'
  BY <1>1 DEF IInv, Types, Places, End, Unchanged
<1>3. Progress'
  BY <1>1 DEF IInv, Progress, HeadersWritten, FilesWritten, End, Kept, Unchanged
<1>4. ASSUME \A f \in Inputs : Kept(f) PROVE loader' = Read(FileBytes(KERNELS[1]))
  <2>1. /\ Count = Len(files) /\ Len(files) \in Nat \ {0} /\ files[1] = KERNELS[1]
        /\ \A k \in 1 .. Count : AllRead[k] = Read(FileBytes(files[k]))
    <3>1. Count = Len(files) /\ \A k \in 1 .. Count : AllRead[k] = Read(FileBytes(files[k]))
      BY <1>1, <1>4, AllBack, Zenon
    <3>. QED BY <3>1, FilesFacts, Zenon
  <2>2. \A k \in 1 .. Count : AllRead[k] # Panics
    <3>1. \A x : Read(x) # Panics
      BY DEF Read, Panics
    <3>. QED BY <2>1, <3>1, Zenon
  <2>3. Count # 0 /\ 1 \in 1 .. Count
    BY <2>1
  <2>4. loader' = AllRead[1]
    BY <2>2, <2>3, Zenon DEF loader_reads
  <2>. QED BY <2>1, <2>3, <2>4
<1>5. KernelFirst'
  <2>1. (\A f \in Inputs : Kept(f)') => \A f \in Inputs : Kept(f)
    BY <1>1 DEF Kept, Unchanged
  <2>2. \A f : FileBytes(f)' = FileBytes(f)
    BY <1>1 DEF FileBytes
  <2>. QED BY <1>1, <1>4, <2>1, <2>2 DEF IInv, Readers, KernelFirst
<1>6. Readers'
  BY <1>1, <1>5 DEF Readers
<1>. QED BY <1>2, <1>3, <1>6 DEF IInv

(* and so does the kernel.                                                 *)
LEMMA KernelReadsKeeps == ASSUME IInv, kernel_reads PROVE IInv'
<1>1. /\ pc = "start" /\ pc' = "stopped" /\ Built /\ Built'
      /\ UNCHANGED <<disk, rebuilt, file_headers, offset, output, cut, i, loader>>
  BY DEF kernel_reads, Built
<1>2. Types' /\ Places'
  BY <1>1 DEF IInv, Types, Places, End, Unchanged
<1>3. Progress'
  BY <1>1 DEF IInv, Progress, HeadersWritten, FilesWritten, End, Kept, Unchanged
<1>4. ASSUME \A f \in Inputs : Kept(f), kernel' # Panics
      PROVE  kernel' = Read(<<Read(FileBytes(KERNELS[1])), Read(FileBytes(DRIVERS[1]))>>)
  <2>1. /\ Count = Len(files) /\ Len(files) \in Nat \ {0} /\ files[1] = KERNELS[1]
        /\ Len(files) >= 2 => files[2] = DRIVERS[1]
        /\ \A k \in 1 .. Count : AllRead[k] = Read(FileBytes(files[k]))
    <3>1. Count = Len(files) /\ \A k \in 1 .. Count : AllRead[k] = Read(FileBytes(files[k]))
      BY <1>1, <1>4, AllBack, Zenon
    <3>. QED BY <3>1, FilesFacts, Zenon
  <2>2. ~(Count < 2) /\ kernel' = Read(<<AllRead[1], AllRead[2]>>)
    BY <1>4 DEF kernel_reads
  <2>3. 1 \in 1 .. Count /\ 2 \in 1 .. Count /\ files[2] = DRIVERS[1]
    BY <2>1, <2>2
  <2>4. AllRead[1] = Read(FileBytes(KERNELS[1])) /\ AllRead[2] = Read(FileBytes(DRIVERS[1]))
    BY <2>1, <2>3
  <2>. QED BY <2>2, <2>4
<1>5. KernelFirst'
  <2>1. (\A f \in Inputs : Kept(f)') => \A f \in Inputs : Kept(f)
    BY <1>1 DEF Kept, Unchanged
  <2>2. \A f : FileBytes(f)' = FileBytes(f)
    BY <1>1 DEF FileBytes
  <2>. QED BY <1>1, <1>4, <2>1, <2>2 DEF IInv, Readers, KernelFirst
<1>6. Readers'
  BY <1>1, <1>5 DEF Readers
<1>. QED BY <1>2, <1>3, <1>6 DEF IInv

-----------------------------------------------------------------------------
(* Every state of the generator and of the two readers: main.rs 25-99 and  *)
(* lib.rs 40-90.                                                           *)
THEOREM Invariance == Spec => []IInv
<1>1. Init => IInv
  <2>. SUFFICES ASSUME Init PROVE IInv
    OBVIOUS
  <2>1. /\ disk \in [Inputs -> Nat] /\ rebuilt = [f \in Inputs |-> 0]
        /\ file_headers = <<>> /\ offset = FirstOffset /\ output = <<>> /\ pc = "lengths"
        /\ i = 1 /\ loader = NotRead /\ kernel = NotRead
    BY BootFSAssumption DEF Init
  <2>2. Types
    BY <2>1, HeadersBeforeData DEF Types
  <2>3. Places
    BY <2>1, HeadersBeforeData DEF Places
  <2>4. Progress
    BY <2>1, FilesFacts DEF Progress, Built
  <2>5. Readers
    BY <2>1 DEF Readers, KernelFirst, Built
  <2>. QED BY <2>2, <2>3, <2>4, <2>5 DEF IInv
<1>2. IInv /\ [Next]_vars => IInv'
  <2>. SUFFICES ASSUME IInv, [Next]_vars PROVE IInv'
    OBVIOUS
  <2>1. ASSUME NEW f \in Inputs, rebuild(f) PROVE IInv'
    BY <2>1, RebuildKeeps
  <2>2. CASE read_length
    BY <2>2, ReadLengthKeeps
  <2>3. CASE write_count
    BY <2>3, WriteCountKeeps
  <2>4. CASE write_header
    BY <2>4, WriteHeaderKeeps
  <2>5. CASE headers_written
    BY <2>5, HeadersWrittenKeeps
  <2>6. CASE write_data
    BY <2>6, WriteDataKeeps
  <2>7. CASE image_built
    BY <2>7, ImageBuiltKeeps
  <2>8. CASE loader_reads
    BY <2>8, LoaderReadsKeeps
  <2>9. CASE kernel_reads
    BY <2>9, KernelReadsKeeps
  <2>10. CASE UNCHANGED vars
    <3>1. UNCHANGED <<disk, rebuilt, file_headers, offset, output, cut, pc, i, loader, kernel>>
      BY <2>10 DEF vars
    <3>. QED BY <3>1 DEF IInv, Types, Places, Progress, Readers, HeadersWritten, FilesWritten,
                         End, Kept, Unchanged, Built, KernelFirst, FileBytes
  <2>11. CASE stopped
    BY <2>10, <2>11 DEF stopped
  <2>. QED BY <2>1, <2>2, <2>3, <2>4, <2>5, <2>6, <2>7, <2>8, <2>9, <2>10, <2>11 DEF Next
<1>. QED BY <1>1, <1>2, PTL DEF Spec

(* An input that was not built again during the run and was written whole  *)
(* reads back byte for byte, whatever happened to the inputs beside it     *)
(* (main.rs 43-61, 85-96).                                                 *)
THEOREM FilesAreReadBack == Spec => []FilesReadBack
BY Invariance, FilesBack, PTL

(* The readers find every header, in order, in the space set aside for     *)
(* them (main.rs 40, 72-96, lib.rs 57-62).                                 *)
THEOREM HeadersAreReadBack == Spec => []HeadersReadBack
BY Invariance, HeadersBack, PTL

(* The loader starts the kernel, and the kernel takes the first driver for *)
(* the driver ("Make sure kernel is first", main.rs 27).                   *)
THEOREM KernelComesFirst == Spec => []KernelFirst
<1>1. IInv => KernelFirst
  BY DEF IInv, Readers
<1>. QED BY <1>1, Invariance, PTL
=============================================================================
