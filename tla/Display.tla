------------------------------ MODULE Display -------------------------------
(***************************************************************************)
(* Drawing and displays: fd_graphics.c with its back ends in memory        *)
(* (fd_graphics_ram_*, fd_graphics_color_8bit.c, _color_16bit.c,           *)
(* _gray_4bit.c) and with the drivers of the panels SSD1327, ILI9341,      *)
(* GC9A01 and SSD1331.                                                     *)
(*                                                                         *)
(* A call is one step.  s is the state it works on: the back end, the      *)
(* fields of fd_graphics_t, the frame buffer as octets, the panel and the  *)
(* number of failed fd_asserts, which are counted and do not stop a call.  *)
(* The panel is external: it takes one octet at a time, as a command, as   *)
(* an argument of one or as data, which it stores in the window that the   *)
(* commands have set.                                                      *)
(***************************************************************************)
EXTENDS Integers, Sequences, SequencesExt, TLC

CONSTANTS
    Backends,      \* the back ends to use
    Columns, Rows, \* graphics->width and graphics->height
    Areas,         \* the areas to clip to and to fill
    Colors,        \* the colours, records [a, r, g, b]
    Images,        \* the images, with pixels at <<x, y>>
    Bitmaps,       \* the bitmaps, with an alpha at <<x, y>>
    Places,        \* where images, bitmaps and strings are written
    Font,          \* a fd_graphics_font_t
    Strings,       \* sequences of characters
    Windows,       \* windows to write on a panel without fd_graphics
    Burst,         \* the most octets of one transfer of the SPI peripheral (0xffff)
    MaxDraws

ASSUME DisplayAssumption == Columns > 0 /\ Columns % 2 = 0 /\ Rows > 0 /\ Burst > 0

VARIABLES display, drawn

displayVars == <<display, drawn>>

InMemory == {"ram", "color_8bit", "color_16bit", "gray_4bit"}
Area(x, y, w, h) == [x |-> x, y |-> y, width |-> w, height |-> h]
WholeScreen == Area(0, 0, Columns, Rows)
Pixels == (0..(Columns - 1)) \X (0..(Rows - 1))
Smaller(a, b) == IF a < b THEN a ELSE b
Larger(a, b) == IF a > b THEN a ELSE b
Seq0(n, f(_)) == [i \in 1..n |-> f(i - 1)]
FoldRange(op(_, _), s, n) == FoldLeft(op, s, [i \in 1..n |-> i - 1])
Check(s, ok) == IF ok THEN s ELSE [s EXCEPT !.asserts = @ + 1]

-----------------------------------------------------------------------------
(* The panels. *)

CASET == \h2A
PASET == \h2B       \* RASET of the GC9A01
RAMWR == \h2C
DISPOFF == \h28
DISPON == \h29
SLPOUT == \h11
SET_COLUMN_ADDRESS == \h15
SET_ROW_ADDRESS == \h75
SET_DISPLAY_OFF == \hAE
SET_DISPLAY_ON == \hAF

NewPanel(kind) ==
    [kind |-> kind, selected |-> FALSE, data |-> TRUE, op |-> 0, args |-> <<>>, on |-> FALSE,
     column |-> <<0, 0>>, row |-> <<0, 0>>, at |-> <<0, 0>>, part |-> <<>>,
     ram |-> [c \in {} |-> <<>>]]

\* The SSD panels store data at any time, the others after RAMWR.
Solomon(p) == p.kind \in {"ssd1327", "ssd1331"}
OctetsPerCell(p) == IF p.kind = "ssd1327" THEN 1 ELSE IF p.kind = "gc9a01" THEN 3 ELSE 2

ArgumentsOf(p, op) ==
    IF Solomon(p)
    THEN IF op \in {SET_COLUMN_ADDRESS, SET_ROW_ADDRESS} THEN 2
         ELSE IF op \in {SET_DISPLAY_OFF, SET_DISPLAY_ON, \hA4} THEN 0 ELSE 1
    ELSE IF op \in {CASET, PASET} THEN 4
         ELSE IF op \in {RAMWR, DISPON, DISPOFF, SLPOUT, \hFE, \hEF, \h35, \h21, \h04, \hDA, \hDB, \hDC} THEN 0
         ELSE 1

\* A command and its arguments have been received.
Obey(p) ==
    LET a == p.args
        wide == <<256 * a[1] + a[2], 256 * a[3] + a[4]>>
    IN CASE Solomon(p) /\ p.op = SET_COLUMN_ADDRESS -> [p EXCEPT !.column = a, !.at[1] = a[1]]
         [] Solomon(p) /\ p.op = SET_ROW_ADDRESS -> [p EXCEPT !.row = a, !.at[2] = a[1]]
         [] p.op = SET_DISPLAY_ON /\ Solomon(p) -> [p EXCEPT !.on = TRUE]
         [] p.op = SET_DISPLAY_OFF /\ Solomon(p) -> [p EXCEPT !.on = FALSE]
         [] ~Solomon(p) /\ p.op = CASET -> [p EXCEPT !.column = wide]
         [] ~Solomon(p) /\ p.op = PASET -> [p EXCEPT !.row = wide]
         [] ~Solomon(p) /\ p.op = RAMWR -> [p EXCEPT !.at = <<p.column[1], p.row[1]>>, !.part = <<>>]
         [] ~Solomon(p) /\ p.op = DISPON -> [p EXCEPT !.on = TRUE]
         [] ~Solomon(p) /\ p.op = DISPOFF -> [p EXCEPT !.on = FALSE]
         [] OTHER -> p

Further(p) ==
    IF p.at[1] # p.column[2] THEN [p EXCEPT !.at[1] = @ + 1]
    ELSE [p EXCEPT !.at = <<p.column[1], IF p.at[2] = p.row[2] THEN p.row[1] ELSE p.at[2] + 1>>]

Stores(p, octet) ==
    LET cell == Append(p.part, octet)
    IN IF Len(cell) < OctetsPerCell(p) THEN [p EXCEPT !.part = cell]
       ELSE Further([p EXCEPT !.part = <<>>,
                        !.ram = [c \in DOMAIN @ \cup {p.at} |-> IF c = p.at THEN cell ELSE @[c]]])

\* An octet on the bus.  The SSD1327 takes arguments in command mode.
Receives(p, octet) ==
    LET pending == Len(p.args) < ArgumentsOf(p, p.op)
        argument == pending /\ (p.data \/ p.kind = "ssd1327")
        q == IF argument THEN [p EXCEPT !.args = Append(@, octet)]
             ELSE [p EXCEPT !.op = octet, !.args = <<>>]
    IN IF ~p.selected THEN p
       ELSE IF p.data /\ ~argument
            THEN IF Solomon(p) \/ p.op = RAMWR THEN Stores(p, octet) ELSE p
       ELSE IF Len(q.args) = ArgumentsOf(q, q.op) THEN Obey(q) ELSE q

\* The bus and its lines: the octets of one transfer, csx and dcx.
bus_write(s, octets) == [s EXCEPT !.panel = FoldLeft(Receives, @, octets)]
cs_enable(s) == [s EXCEPT !.panel.selected = TRUE]
cs_disable(s) == [s EXCEPT !.panel.selected = FALSE]
command_mode(s) == [s EXCEPT !.panel.data = FALSE]
data_mode(s) == [s EXCEPT !.panel.data = TRUE]
reset(s) == [s EXCEPT !.panel = [NewPanel(@.kind) EXCEPT !.ram = s.panel.ram]]

-----------------------------------------------------------------------------
(* The drivers of the panels. *)

ssd1327_write_command(s, octets) == bus_write(command_mode(s), octets)
ssd1327_send_commands(s, octets) == cs_disable(bus_write(command_mode(cs_enable(s)), octets))

ssd1327_set_column_address(s, start, count) ==
    ssd1327_write_command(
        Check(Check(Check(s, start % 2 = 0), count > 0), count % 2 = 0),
        <<SET_COLUMN_ADDRESS, (start \div 2) % 256, ((start + count) \div 2 - 1) % 256>>)

ssd1327_set_row_address(s, start, count) ==
    ssd1327_write_command(Check(Check(s, count > 0), count # 0),
                          <<SET_ROW_ADDRESS, start % 256, (start + count - 1) % 256>>)

\* What sets a voltage or a timing is one command of the sequence here.
ssd1327_initialize(s) ==
    ssd1327_send_commands(reset(s), <<\hFD, \h12, \hAE, \h15, 0, \h7F, \h75, 0, \h7F, \h81, \h80, \hA0, \h51, \hA4>>)

ssd1327_display(s, op) == cs_disable(ssd1327_write_command(cs_enable(s), <<op>>))

ssd1327_write_image_start(s, x, y, width, height) ==
    data_mode(ssd1327_set_row_address(
        ssd1327_set_column_address(
            cs_enable(Check(Check(Check(Check(s, x >= 0), y >= 0), width > 0), height > 0)), x, width),
        y, height))

ili9341_write_command_byte(s, op) == bus_write(command_mode(s), <<op>>)
ili9341_write_data(s, octets) == bus_write(data_mode(s), octets)
Address16(s, e) == <<(s \div 256) % 256, s % 256, (e \div 256) % 256, e % 256>>
ili9341_paset(s, from, to) == ili9341_write_data(ili9341_write_command_byte(s, PASET), Address16(from, to))
ili9341_caset(s, from, to) == ili9341_write_data(ili9341_write_command_byte(s, CASET), Address16(from, to))

ili9341_send_init_sequence(s) ==
    LET out == ili9341_write_command_byte(cs_enable(reset(s)), SLPOUT)
        format == ili9341_write_data(ili9341_write_command_byte(out, \h3A), <<5>>)
    IN cs_disable(ili9341_paset(ili9341_caset(format, 0, 240), 0, 320))

ili9341_display(s, op) == cs_disable(ili9341_write_command_byte(cs_enable(s), op))

ili9341_write_image_start(s, x, y, width, height) ==
    data_mode(ili9341_write_command_byte(
        ili9341_caset(ili9341_paset(cs_enable(s), x, x + width - 1), y, y + height - 1), RAMWR))

\* fd_ili9341_bus_write_pixel: red, green and blue as 5, 6 and 5 bits in two octets.
ili9341_bus_write_pixel(s, octets) ==
    LET c(i) == octets[3 * i + 1]
        g(i) == octets[3 * i + 2]
        b(i) == octets[3 * i + 3]
        two(i) == <<(c(i) \div 8) * 8 + g(i) \div 32, ((g(i) \div 4) % 8) * 32 + b(i) \div 8>>
    IN bus_write(s, FlattenSeq(Seq0(Len(octets) \div 3, two)))

\* fd_spi_display_write_data: transfers of at most Burst octets.
spi_display_write_data(s, octets) ==
    LET bursts == (Len(octets) + Burst - 1) \div Burst
        send(t, i) == bus_write(t, SubSeq(octets, i * Burst + 1, Smaller((i + 1) * Burst, Len(octets))))
    IN FoldRange(send, s, bursts)

\* The first octet goes out in command mode, the others in data mode.
spi_display_write_command(s, octets) ==
    spi_display_write_data(data_mode(bus_write(command_mode(s), <<Head(octets)>>)), Tail(octets))

\* commands holds the length of each command before its octets.
spi_display_write_commands(s, commands) ==
    LET RECURSIVE from(_, _)
        from(t, index) ==
            IF index >= Len(commands) THEN t
            ELSE LET length == commands[index + 1]
                 IN from(spi_display_write_command(Check(t, length >= 1),
                                                   SubSeq(commands, index + 2, index + 1 + length)),
                         index + 1 + length)
    IN from(s, 0)

spi_display_command(octets) == <<Len(octets)>> \o octets
spi_display_send(s, commands) == cs_disable(spi_display_write_commands(cs_enable(s), FlattenSeq(commands)))

\* The identification is read and compared; the panel answers as expected.
spi_display_read(s, op) == cs_disable(data_mode(bus_write(cs_enable(command_mode(s)), <<op>>)))

gc9a01_display_on(s) == spi_display_send(s, <<spi_display_command(<<DISPON>>)>>)
gc9a01_display_off(s) == spi_display_send(s, <<spi_display_command(<<DISPOFF>>)>>)
gc9a01_exit_sleep(s) == spi_display_send(s, <<spi_display_command(<<SLPOUT>>)>>)

gc9a01_initialize(s) ==
    LET identified == FoldLeft(spi_display_read, reset(s), <<\hDA, \hDB, \hDC, 4>>)
        settings == <<<<\hEF>>, <<\hEB, \h14>>, <<\hFE>>, <<\h36, 8>>, <<\h3A, 6>>, <<\h35>>, <<\h21>>>>
    IN gc9a01_display_on(gc9a01_exit_sleep(
           spi_display_send(identified, [i \in 1..Len(settings) |-> spi_display_command(settings[i])])))

OnScreen(s, x, y, width, height) ==
    Check(Check(Check(Check(s, x >= 0), x + width <= Columns), y >= 0), y + height <= Rows)

gc9a01_write_image_start(s, x, y, width, height) ==
    spi_display_write_commands(
        cs_enable(OnScreen(s, x, y, width, height)),
        FlattenSeq(<<spi_display_command(<<CASET, 0, x % 256, 0, (x + width - 1) % 256>>),
                     spi_display_command(<<PASET, 0, y % 256, 0, (y + height - 1) % 256>>),
                     spi_display_command(<<RAMWR>>)>>))

ssd1331_display(s, op) == spi_display_send(s, <<spi_display_command(<<op>>)>>)

ssd1331_initialize(s) ==
    LET settings == <<<<SET_DISPLAY_OFF>>, <<\hA0, \h72>>, <<\hA4>>, <<\h83, \h7D>>, <<SET_DISPLAY_ON>>>>
    IN spi_display_send(reset(s), [i \in 1..Len(settings) |-> spi_display_command(settings[i])])

ssd1331_write_image_start(s, x, y, width, height) ==
    spi_display_write_commands(
        cs_enable(OnScreen(s, x, y, width, height)),
        FlattenSeq(<<spi_display_command(<<SET_COLUMN_ADDRESS, x % 256, (x + width - 1) % 256>>),
                     spi_display_command(<<SET_ROW_ADDRESS, y % 256, (y + height - 1) % 256>>)>>))

\* fd_gc9a01_write_image_end, fd_ssd1331_write_image_end: no command is left to send.
spi_display_write_image_end(s) == cs_disable(spi_display_write_commands(s, <<>>))

-----------------------------------------------------------------------------
(* Areas, images, bitmaps. *)

fd_graphics_area_intersection(a, b) ==
    LET x == Larger(a.x, b.x)
        x2 == Smaller(a.x + a.width, b.x + b.width)
        y == Larger(a.y, b.y)
        y2 == Smaller(a.y + a.height, b.y + b.height)
    IN IF x2 >= x /\ y2 >= y THEN Area(x, y, x2 - x, y2 - y) ELSE Area(0, 0, 0, 0)

fd_graphics_area_is_empty(a) == a.width = 0 \/ a.height = 0

fd_graphics_area_union(a, b) ==
    IF fd_graphics_area_is_empty(a) THEN b
    ELSE IF fd_graphics_area_is_empty(b) THEN a
    ELSE LET x == Smaller(a.x, b.x)
             y == Smaller(a.y, b.y)
         IN Area(x, y, Larger(a.x + a.width, b.x + b.width) - x,
                       Larger(a.y + a.height, b.y + b.height) - y)

fd_graphics_area_contains_point(a, x, y) ==
    a.x <= x /\ x < a.x + a.width /\ a.y <= y /\ y < a.y + a.height

\* What the converters make of a picture: columns of red, green and blue,
\* or rows of alpha, red, green and blue; rows of packed alphas for a bitmap.
RgbData(image) ==
    LET octets(i) == LET p == image.pixel[<<i \div image.height, i % image.height>>]
                     IN <<p.r, p.g, p.b>>
    IN FlattenSeq(Seq0(image.width * image.height, octets))

ArgbData(image) ==
    LET octets(i) == LET p == image.pixel[<<i % image.width, i \div image.width>>]
                     IN <<p.a, p.r, p.g, p.b>>
    IN FlattenSeq(Seq0(image.width * image.height, octets))

Stride(bitmap) == (bitmap.width * bitmap.depth + 7) \div 8

BitmapData(bitmap) ==
    LET per == 8 \div bitmap.depth
        alpha(x, y) == IF x < bitmap.width THEN bitmap.alpha[<<x, y>>] ELSE 0
        octet(i) == LET y == i \div Stride(bitmap)
                        x == (i % Stride(bitmap)) * per
                        shift(v, k) == v * 2 ^ bitmap.depth + alpha(x + k, y)
                    IN FoldRange(shift, 0, per)
    IN Seq0(Stride(bitmap) * bitmap.height, octet)

Rgb(data, index) == [a |-> 255, r |-> data[index + 1], g |-> data[index + 2], b |-> data[index + 3]]

fd_graphics_image_get_pixel(image, x, y) == Rgb(RgbData(image), (x * image.height + y) * 3)

fd_graphics_image_get_pixel_argb(image, x, y) ==
    LET index == (y * image.width + x) * 4
    IN [Rgb(ArgbData(image), index + 1) EXCEPT !.a = ArgbData(image)[index + 1]]

\* An alpha that crosses octets cannot be read: the depth divides 8.
fd_graphics_bitmap_get_pixel(bitmap, x, y) ==
    LET index == y * Stride(bitmap) + (x * bitmap.depth) \div 8
        shift == (x * bitmap.depth) % 8
    IN (BitmapData(bitmap)[index + 1] \div 2 ^ (8 - bitmap.depth - shift)) % 2 ^ bitmap.depth

fd_graphics_font_get_glyph(font, character) ==
    SelectSeq(font.glyphs, LAMBDA g : g.character = character)

Clipped(s, area) == fd_graphics_area_intersection(area, s.clipping)
BitmapArea(x, y, bitmap) == Area(x - bitmap.origin[1], y - bitmap.origin[2], bitmap.width, bitmap.height)
ImageArea(x, y, image) == Area(x, y, image.width, image.height)
MaxAlpha(bitmap) == 2 ^ bitmap.depth - 1

\* The loops over the pixels of the clipped area: put(s, x, y, sx, sy) gets
\* the place and the place in the source.
ForPixels(s, area, put(_, _, _, _, _)) ==
    LET a == Clipped(s, area)
        step(t, i) == LET cx == i % a.width
                          cy == i \div a.width
                      IN put(t, a.x + cx, a.y + cy, a.x - area.x + cx, a.y - area.y + cy)
    IN FoldRange(step, s, a.width * a.height)

Mix(over, under, alpha, max) ==
    LET mixed(o, u) == (o * alpha + u * (max - alpha)) \div max
    IN [a |-> 255, r |-> mixed(over.r, under.r), g |-> mixed(over.g, under.g), b |-> mixed(over.b, under.b)]

-----------------------------------------------------------------------------
(* The back ends in memory. *)

PutOctets(s, index, octets) ==
    [s EXCEPT !.frame = [i \in DOMAIN @ |-> IF i - index \in 0..(Len(octets) - 1)
                                            THEN octets[i - index + 1] ELSE @[i]]]
Fill(s, octets) == [s EXCEPT !.frame = [i \in DOMAIN @ |-> octets[(i % Len(octets)) + 1]]]

ram_get_pixel(x, y) == (x * Rows + y) * 3
ram_write_background(s) == Fill(s, <<s.background.r, s.background.g, s.background.b>>)

\* alpha / 255 with a shift in place of the division
RamMix(s, x, y, color, alpha) ==
    LET i == ram_get_pixel(x, y)
        mixed(src, dst) == (src * alpha + dst * (255 - alpha)) \div 256
    IN PutOctets(s, i, <<mixed(color.r, s.frame[i]), mixed(color.g, s.frame[i + 1]),
                         mixed(color.b, s.frame[i + 2])>>)

ram_write_area(s, area) ==
    LET put(t, x, y, sx, sy) == RamMix(t, x, y, t.foreground, t.foreground.a)
    IN ForPixels(s, area, put)

ram_write_image(s, x0, y0, image) ==
    LET put(t, x, y, sx, sy) ==
            LET c == fd_graphics_image_get_pixel(image, sx, sy)
            IN PutOctets(t, ram_get_pixel(x, y), <<c.r, c.g, c.b>>)
    IN ForPixels(s, ImageArea(x0, y0, image), put)

ram_write_bitmap(s, rx, ry, bitmap) ==
    LET rounded(a) == (510 * a + MaxAlpha(bitmap)) \div (2 * MaxAlpha(bitmap))
        put(t, x, y, sx, sy) ==
            RamMix(t, x, y, t.foreground, rounded(fd_graphics_bitmap_get_pixel(bitmap, sx, sy)))
    IN ForPixels(s, BitmapArea(rx, ry, bitmap), put)

color_8bit_index(x, y) == 3 * (y * Columns + x)
color_8bit_set_pixel(s, x, y, c) == PutOctets(s, color_8bit_index(x, y), <<c.r, c.g, c.b>>)
color_8bit_get_pixel(s, x, y) ==
    LET i == color_8bit_index(x, y)
    IN [a |-> 255, r |-> s.frame[i], g |-> s.frame[i + 1], b |-> s.frame[i + 2]]
color_8bit_write_background(s) == Fill(s, <<s.background.r, s.background.g, s.background.b>>)

color_8bit_write_area(s, area) ==
    LET put(t, x, y, sx, sy) == color_8bit_set_pixel(t, x, y, t.foreground)
    IN ForPixels(s, area, put)

color_8bit_write_image(s, x0, y0, image) ==
    LET put(t, x, y, sx, sy) ==
            LET c == fd_graphics_image_get_pixel_argb(image, sx, sy)
            IN color_8bit_set_pixel(t, x, y, Mix(c, color_8bit_get_pixel(t, x, y), c.a, 255))
    IN ForPixels(s, ImageArea(x0, y0, image), put)

color_8bit_write_bitmap(s, rx, ry, bitmap) ==
    LET put(t, x, y, sx, sy) ==
            color_8bit_set_pixel(t, x, y, Mix(t.foreground, color_8bit_get_pixel(t, x, y),
                                              fd_graphics_bitmap_get_pixel(bitmap, sx, sy), MaxAlpha(bitmap)))
    IN ForPixels(s, BitmapArea(rx, ry, bitmap), put)

\* Five bits of each component; the lowest bit of green stays zero.
color_16bit_rgb(c) == (c.r \div 8) * 2048 + (c.g \div 8) * 64 + c.b \div 8
color_16bit_index(x, y) == 2 * (y * Columns + x)
color_16bit_set_pixel(s, x, y, c) ==
    PutOctets(s, color_16bit_index(x, y), <<color_16bit_rgb(c) \div 256, color_16bit_rgb(c) % 256>>)
color_16bit_get_pixel(s, x, y) ==
    LET i == color_16bit_index(x, y)
        word == 256 * s.frame[i] + s.frame[i + 1]
    IN [a |-> 255, r |-> 8 * (word \div 2048), g |-> 8 * ((word \div 64) % 32), b |-> 8 * (word % 32)]

\* The low octet comes first here.
color_16bit_write_background(s) ==
    Fill(s, <<color_16bit_rgb(s.background) % 256, color_16bit_rgb(s.background) \div 256>>)

color_16bit_write_area(s, area) ==
    LET put(t, x, y, sx, sy) == color_16bit_set_pixel(t, x, y, t.foreground)
    IN ForPixels(s, area, put)

color_16bit_write_image(s, x0, y0, image) ==
    LET put(t, x, y, sx, sy) ==
            LET c == fd_graphics_image_get_pixel_argb(image, sx, sy)
            IN color_16bit_set_pixel(t, x, y, Mix(c, color_16bit_get_pixel(t, x, y), c.a, 255))
    IN ForPixels(s, ImageArea(x0, y0, image), put)

color_16bit_write_bitmap(s, rx, ry, bitmap) ==
    LET put(t, x, y, sx, sy) ==
            color_16bit_set_pixel(t, x, y, Mix(t.foreground, color_16bit_get_pixel(t, x, y),
                                               fd_graphics_bitmap_get_pixel(bitmap, sx, sy), MaxAlpha(bitmap)))
    IN ForPixels(s, BitmapArea(rx, ry, bitmap), put)

color_to_4bit_gray(c) == ((c.r + c.g + c.b) \div 3) \div 16

\* Two pixels in an octet, and the panel is mounted upside down.
gray_4bit_set_pixel(s, lx, ly, gray) ==
    LET x == Columns - lx - 1
        y == Rows - ly - 1
        index == y * (Columns \div 2) + x \div 2
        octet == s.frame[index]
    IN PutOctets(s, index, <<IF x % 2 = 1 THEN (octet \div 16) * 16 + gray ELSE (octet % 16) + gray * 16>>)

SizeOfSize == 4     \* sizeof(size_t): the size of the field, not of the frame buffer

gray_4bit_write_background(s) ==
    LET octet == 17 * color_to_4bit_gray(s.background)
    IN PutOctets(s, 0, [i \in 1..SizeOfSize |-> octet])

GrayArea(s, area) ==
    LET put(t, x, y, sx, sy) == gray_4bit_set_pixel(t, x, y, color_to_4bit_gray(t.foreground))
    IN ForPixels(s, area, put)

GrayImage(s, x0, y0, image) ==
    LET put(t, x, y, sx, sy) ==
            gray_4bit_set_pixel(t, x, y, color_to_4bit_gray(fd_graphics_image_get_pixel(image, sx, sy)))
    IN ForPixels(s, ImageArea(x0, y0, image), put)

GrayBitmap(s, rx, ry, bitmap) ==
    LET put(t, x, y, sx, sy) ==
            gray_4bit_set_pixel(t, x, y, color_to_4bit_gray(
                Mix(t.foreground, t.background, fd_graphics_bitmap_get_pixel(bitmap, sx, sy), MaxAlpha(bitmap))))
    IN ForPixels(s, BitmapArea(rx, ry, bitmap), put)

gray_4bit_write_area(s, area) == GrayArea(s, area)
gray_4bit_write_image(s, x, y, image) == GrayImage(s, x, y, image)
gray_4bit_write_bitmap(s, x, y, bitmap) == GrayBitmap(s, x, y, bitmap)

-----------------------------------------------------------------------------
(* The SSD1327 with a frame buffer: the same drawing, then a blit of the   *)
(* octets that hold the area.                                              *)

\* A mutant of ssd1327_blit: the right edge is rounded down.
ssd1327_blit_narrow(s, larea) ==
    LET ax == Columns - (larea.x + larea.width)
        y == Rows - (larea.y + larea.height)
        r == ((ax + larea.width) \div 2) * 2
        x == (ax \div 2) * 2
        span == Columns \div 2
        line(t, i) == bus_write(t, Seq0((r - x) \div 2, LAMBDA k : t.frame[(y + i) * span + x \div 2 + k]))
    IN cs_disable(FoldRange(line, ssd1327_write_image_start(s, x, y, r - x, larea.height), larea.height))

ssd1327_blit(s, larea) ==
    LET ax == Columns - (larea.x + larea.width)
        y == Rows - (larea.y + larea.height)
        r == ((ax + larea.width + 1) \div 2) * 2
        x == (ax \div 2) * 2
        span == Columns \div 2
        line(t, i) == bus_write(t, Seq0((r - x) \div 2, LAMBDA k : t.frame[(y + i) * span + x \div 2 + k]))
    IN cs_disable(FoldRange(line, ssd1327_write_image_start(s, x, y, r - x, larea.height), larea.height))

ssd1327_write_background(s) ==
    ssd1327_blit(Fill(s, <<17 * color_to_4bit_gray(s.background)>>), WholeScreen)
ssd1327_write_area(s, area) == ssd1327_blit(GrayArea(s, area), Clipped(s, area))
ssd1327_write_image(s, x, y, image) ==
    ssd1327_blit(GrayImage(s, x, y, image), Clipped(s, ImageArea(x, y, image)))
ssd1327_write_bitmap(s, x, y, bitmap) ==
    ssd1327_blit(GrayBitmap(s, x, y, bitmap), Clipped(s, BitmapArea(x, y, bitmap)))

(* The ILI9341 without one: frame is the buffer for a column of pixels. *)

\* Column(cy) is the colour at cy; count pixels of the buffer are sent.
SendColumn(s, height, color(_), count) ==
    LET filled == PutOctets(s, 0, FlattenSeq(Seq0(height, LAMBDA cy : <<color(cy).r, color(cy).g, color(cy).b>>)))
    IN ili9341_bus_write_pixel(filled, Seq0(count * 3, LAMBDA i : filled.frame[i]))

SendColumns(s, a, color(_, _), count) ==
    LET column(t, cx) == LET c(cy) == color(cx, cy) IN SendColumn(t, a.height, c, count)
    IN cs_disable(FoldRange(column, ili9341_write_image_start(s, a.x, a.y, a.width, a.height), a.width))

ili9341_write_background(s) ==
    LET color(cx, cy) == s.background IN SendColumns(s, WholeScreen, color, Rows)

ili9341_write_area(s, area) ==
    LET color(cx, cy) == s.foreground
        a == Clipped(s, area)
    IN SendColumns(s, a, color, a.height)

ili9341_write_image(s, x, y, image) ==
    LET a == Clipped(s, ImageArea(x, y, image))
        color(cx, cy) == fd_graphics_image_get_pixel(image, a.x - x + cx, a.y - y + cy)
    IN SendColumns(s, a, color, a.height)

\* The height of the bitmap, clipped or not, is what is sent of the buffer.
ili9341_write_bitmap(s, x, y, bitmap) ==
    LET unclipped == BitmapArea(x, y, bitmap)
        a == Clipped(s, unclipped)
        color(cx, cy) == Mix(s.foreground, s.background,
                             fd_graphics_bitmap_get_pixel(bitmap, a.x - unclipped.x + cx, a.y - unclipped.y + cy),
                             MaxAlpha(bitmap))
    IN SendColumns(s, a, color, bitmap.height)

-----------------------------------------------------------------------------
(* fd_graphics.c.  The first four operators are the tables of the back ends, *)
(* which the fd_graphics_..._initialize functions fill in.                   *)

write_background(s) ==
    CASE s.backend = "ram" -> ram_write_background(s)
      [] s.backend = "color_8bit" -> color_8bit_write_background(s)
      [] s.backend = "color_16bit" -> color_16bit_write_background(s)
      [] s.backend = "gray_4bit" -> gray_4bit_write_background(s)
      [] s.backend = "ssd1327" -> ssd1327_write_background(s)
      [] s.backend = "ili9341" -> ili9341_write_background(s)

write_area(s, a) ==
    CASE s.backend = "ram" -> ram_write_area(s, a)
      [] s.backend = "color_8bit" -> color_8bit_write_area(s, a)
      [] s.backend = "color_16bit" -> color_16bit_write_area(s, a)
      [] s.backend = "gray_4bit" -> gray_4bit_write_area(s, a)
      [] s.backend = "ssd1327" -> ssd1327_write_area(s, a)
      [] s.backend = "ili9341" -> ili9341_write_area(s, a)

write_image(s, x, y, i) ==
    CASE s.backend = "ram" -> ram_write_image(s, x, y, i)
      [] s.backend = "color_8bit" -> color_8bit_write_image(s, x, y, i)
      [] s.backend = "color_16bit" -> color_16bit_write_image(s, x, y, i)
      [] s.backend = "gray_4bit" -> gray_4bit_write_image(s, x, y, i)
      [] s.backend = "ssd1327" -> ssd1327_write_image(s, x, y, i)
      [] s.backend = "ili9341" -> ili9341_write_image(s, x, y, i)

write_bitmap(s, x, y, b) ==
    CASE s.backend = "ram" -> ram_write_bitmap(s, x, y, b)
      [] s.backend = "color_8bit" -> color_8bit_write_bitmap(s, x, y, b)
      [] s.backend = "color_16bit" -> color_16bit_write_bitmap(s, x, y, b)
      [] s.backend = "gray_4bit" -> gray_4bit_write_bitmap(s, x, y, b)
      [] s.backend = "ssd1327" -> ssd1327_write_bitmap(s, x, y, b)
      [] s.backend = "ili9341" -> ili9341_write_bitmap(s, x, y, b)

Fits(a) == a.x >= 0 /\ a.y >= 0 /\ a.x + a.width <= Columns /\ a.y + a.height <= Rows

fd_graphics_write_area(s, a) == IF Fits(a) THEN write_area(s, a) ELSE Check(s, FALSE)
fd_graphics_write_image(s, x, y, image) ==
    IF Fits(ImageArea(x, y, image)) THEN write_image(s, x, y, image) ELSE Check(s, FALSE)
fd_graphics_write_bitmap(s, x, y, bitmap) ==
    IF Fits(BitmapArea(x, y, bitmap)) THEN write_bitmap(s, x, y, bitmap) ELSE Check(s, FALSE)

\* The characters with the place of each.
fd_graphics_write_string_length(s, x, y, string) ==
    LET step(t, character) ==
            LET glyph == fd_graphics_font_get_glyph(t.s.font, character)
            IN IF glyph = <<>> THEN [t EXCEPT !.x = @ + t.s.font.advance]
               ELSE [s |-> fd_graphics_write_bitmap(t.s, t.x, y, glyph[1].bitmap), x |-> t.x + glyph[1].advance]
    IN FoldLeft(step, [s |-> s, x |-> x], string).s

fd_graphics_get_bitmap_bounds(bitmap) == BitmapArea(0, 0, bitmap)

fd_graphics_get_string_metrics_length(s, string) ==
    LET step(m, character) ==
            LET glyph == fd_graphics_font_get_glyph(s.font, character)
                b == fd_graphics_get_bitmap_bounds(glyph[1].bitmap)
            IN IF glyph = <<>> THEN [m EXCEPT !.advance = @ + s.font.advance]
               ELSE [bounds |-> fd_graphics_area_union(m.bounds, [b EXCEPT !.x = @ + m.advance]),
                     advance |-> m.advance + glyph[1].advance]
    IN FoldLeft(step, [bounds |-> Area(0, 0, 0, 0), advance |-> 0], string)

EmptyFont == [advance |-> 0, glyphs |-> <<>>]

fd_graphics_reset(s) ==
    [s EXCEPT !.clipping = WholeScreen, !.font = EmptyFont,
              !.background = [a |-> 255, r |-> 0, g |-> 0, b |-> 0],
              !.foreground = [a |-> 255, r |-> 255, g |-> 255, b |-> 255]]

fd_graphics_set_clipping(s, area) ==
    [s EXCEPT !.clipping = fd_graphics_area_intersection(WholeScreen, area)]
fd_graphics_remove_clipping(s) == [s EXCEPT !.clipping = WholeScreen]
fd_graphics_set_font(s, font) == [s EXCEPT !.font = font]
fd_graphics_set_background(s, color) == [s EXCEPT !.background = color]
fd_graphics_set_foreground(s, color) == [s EXCEPT !.foreground = color]

\* The SSD1327 is the back end with display_on and display_off.
fd_graphics_display_on(s) ==
    [IF s.backend = "ssd1327" THEN ssd1327_display(s, SET_DISPLAY_ON) ELSE s EXCEPT !.is_display_on = TRUE]
fd_graphics_display_off(s) ==
    LET t == [s EXCEPT !.is_display_on = FALSE]
    IN IF s.backend = "ssd1327" THEN ssd1327_display(t, SET_DISPLAY_OFF) ELSE t

OctetsOfFrame(backend) ==
    CASE backend \in {"ram", "color_8bit"} -> 3 * Columns * Rows
      [] backend = "color_16bit" -> 2 * Columns * Rows
      [] backend \in {"gray_4bit", "ssd1327"} -> (Columns \div 2) * Rows
      [] backend = "ili9341" -> 3 * Rows
      [] OTHER -> 0

fd_graphics_initialize(backend) ==
    fd_graphics_reset(
        [backend |-> backend, clipping |-> <<>>, font |-> <<>>, background |-> <<>>, foreground |-> <<>>,
         is_display_on |-> TRUE, frame |-> [i \in 0..(OctetsOfFrame(backend) - 1) |-> 0],
         panel |-> NewPanel(backend), asserts |-> 0])

\* fd_ssd1327_initialize, fd_ili9341_initialize, ... as the application calls them.
Initialized(backend) ==
    LET s == fd_graphics_initialize(backend)
    IN CASE backend = "ssd1327" -> ssd1327_display(ssd1327_initialize(s), SET_DISPLAY_ON)
         [] backend = "ili9341" -> ili9341_display(ili9341_send_init_sequence(s), DISPON)
         [] backend = "gc9a01" -> gc9a01_initialize(s)
         [] backend = "ssd1331" -> ssd1331_initialize(s)
         [] OTHER -> s

-----------------------------------------------------------------------------
(* The calls. *)

NoDraw == [op |-> "none", n |-> 0]

Init == \E b \in Backends : display = Initialized(b) /\ drawn = NoDraw

Draw(call, s) ==
    /\ drawn.n < MaxDraws
    /\ display' = s
    /\ drawn' = call @@ [n |-> drawn.n + 1]

Drawable == display.backend \in InMemory \cup {"ssd1327", "ili9341"}

\* fd_graphics_set_clipping and its companions.
SetClipping ==
    /\ Drawable
    /\ \/ \E a \in Areas : Draw([op |-> "set"], fd_graphics_set_clipping(display, a))
       \/ Draw([op |-> "set"], fd_graphics_remove_clipping(display))
       \/ Draw([op |-> "set"], fd_graphics_reset(display))

SetColor ==
    /\ Drawable
    /\ \E c \in Colors : \/ Draw([op |-> "set"], fd_graphics_set_foreground(display, c))
                         \/ Draw([op |-> "set"], fd_graphics_set_background(display, c))

WriteBackground == Drawable /\ Draw([op |-> "background"], write_background(display))

WriteArea ==
    /\ Drawable
    /\ \E a \in Areas : Draw([op |-> "area", area |-> a], fd_graphics_write_area(display, a))

WriteImage ==
    /\ Drawable
    /\ \E i \in Images, p \in Places :
          Draw([op |-> "image", image |-> i, area |-> ImageArea(p[1], p[2], i)],
               fd_graphics_write_image(display, p[1], p[2], i))

WriteBitmap ==
    /\ Drawable
    /\ \E b \in Bitmaps, p \in Places :
          Draw([op |-> "bitmap", bitmap |-> b, area |-> BitmapArea(p[1], p[2], b)],
               fd_graphics_write_bitmap(display, p[1], p[2], b))

\* fd_graphics_set_font and fd_graphics_write_string.
WriteString ==
    /\ Drawable
    /\ \E t \in Strings, p \in Places :
          LET s == fd_graphics_set_font(display, Font)
          IN Draw([op |-> "string", string |-> t, at |-> p],
                  fd_graphics_write_string_length(s, p[1], p[2], t))

SwitchDisplay ==
    \/ /\ Drawable
       /\ \/ Draw([op |-> "display", on |-> TRUE], fd_graphics_display_on(display))
          \/ Draw([op |-> "display", on |-> FALSE], fd_graphics_display_off(display))
    \/ /\ display.backend = "gc9a01"
       /\ \/ Draw([op |-> "display", on |-> TRUE], gc9a01_display_on(display))
          \/ Draw([op |-> "display", on |-> FALSE], gc9a01_display_off(display))
    \/ /\ display.backend = "ssd1331"
       /\ \/ Draw([op |-> "display", on |-> TRUE], ssd1331_display(display, SET_DISPLAY_ON))
          \/ Draw([op |-> "display", on |-> FALSE], ssd1331_display(display, SET_DISPLAY_OFF))

\* An application writes a window of the GC9A01 or the SSD1331 in two parts.
WriteWindow ==
    /\ display.backend \in {"gc9a01", "ssd1331"}
    /\ \E a \in Windows, first \in 0..9 :
          LET n == a.width * a.height * OctetsPerCell(display.panel)
              octets == [i \in 1..n |-> (i * 7 + drawn.n * 50 + a.x) % 256]
              started == IF display.backend = "gc9a01"
                         THEN gc9a01_write_image_start(display, a.x, a.y, a.width, a.height)
                         ELSE ssd1331_write_image_start(display, a.x, a.y, a.width, a.height)
          IN /\ first <= n
             /\ Draw([op |-> "window", area |-> a, octets |-> octets],
                     spi_display_write_image_end(
                         spi_display_write_data(
                             spi_display_write_data(started, SubSeq(octets, 1, first)),
                             SubSeq(octets, first + 1, n))))

Next == SetClipping \/ SetColor \/ WriteBackground \/ WriteArea \/ WriteImage \/ WriteBitmap
            \/ WriteString \/ SwitchDisplay \/ WriteWindow

-----------------------------------------------------------------------------
(* What is seen, and what should be. *)

\* The cell of the panel, zero until it is written.
Cell(s, c, r) ==
    IF <<c, r>> \in DOMAIN s.panel.ram THEN s.panel.ram[<<c, r>>]
    ELSE [i \in 1..OctetsPerCell(s.panel) |-> 0]

Nibble(octet, x) == IF x % 2 = 1 THEN octet % 16 ELSE octet \div 16

\* What a person sees at x, y, in the resolution of the back end.
Seen(s, x, y) ==
    LET mx == Columns - 1 - x
        my == Rows - 1 - y
        word == 256 * s.frame[2 * (y * Columns + x)] + s.frame[2 * (y * Columns + x) + 1]
        cell == Cell(s, y, x)
    IN CASE s.backend = "ram" -> [i \in 1..3 |-> s.frame[3 * (x * Rows + y) + i - 1]]
         [] s.backend = "color_8bit" -> [i \in 1..3 |-> s.frame[3 * (y * Columns + x) + i - 1]]
         [] s.backend = "color_16bit" -> <<word \div 2048, (word \div 64) % 32, word % 32>>
         [] s.backend = "gray_4bit" -> <<Nibble(s.frame[(my * Columns + mx) \div 2], mx)>>
         [] s.backend = "ssd1327" -> <<Nibble(Cell(s, mx \div 2, my)[1], mx)>>
         [] s.backend = "ili9341" -> <<cell[1] \div 8, (cell[1] % 8) * 8 + cell[2] \div 32, cell[2] % 32>>
         [] OTHER -> Cell(s, x, y)

Quantized(s, c) ==
    CASE s.backend \in {"ram", "color_8bit"} -> <<c.r, c.g, c.b>>
      [] s.backend = "color_16bit" -> <<c.r \div 8, c.g \div 8, c.b \div 8>>
      [] s.backend = "ili9341" -> <<c.r \div 8, c.g \div 4, c.b \div 8>>
      [] OTHER -> <<(c.r + c.g + c.b) \div 48>>

\* What a bitmap and an image with an alpha are laid over: the pixel where the
\* back end can read it, else the background.
Under(s, x, y) ==
    LET v == Seen(s, x, y)
        scale == IF s.backend = "color_16bit" THEN 8 ELSE 1
    IN IF s.backend \in {"ram", "color_8bit", "color_16bit"}
       THEN [a |-> 255, r |-> scale * v[1], g |-> scale * v[2], b |-> scale * v[3]]
       ELSE s.background

\* The shift of the RAM back end loses at most one step of a component.
Near(s, seen, wanted) ==
    \A i \in DOMAIN wanted : seen[i] = wanted[i] \/ (s.backend = "ram" /\ seen[i] = wanted[i] - 1)

OfBitmap(s, x, y, bitmap, area) ==
    Mix(s.foreground, Under(s, x, y), bitmap.alpha[<<x - area.x, y - area.y>>], MaxAlpha(bitmap))

Wanted(s, call, x, y) ==
    CASE call.op = "background" -> s.background
      [] call.op = "area" /\ s.backend = "ram" -> Mix(s.foreground, Under(s, x, y), s.foreground.a, 255)
      [] call.op = "area" /\ s.backend # "ram" -> s.foreground
      [] call.op = "image" ->
           LET c == call.image.pixel[<<x - call.area.x, y - call.area.y>>]
           IN IF s.backend \in {"color_8bit", "color_16bit"} THEN Mix(c, Under(s, x, y), c.a, 255) ELSE c
      [] call.op = "bitmap" -> OfBitmap(s, x, y, call.bitmap, call.area)

Touched(s, call) ==
    IF call.op = "background" THEN WholeScreen
    ELSE IF Fits(call.area) THEN Clipped(s, call.area) ELSE Area(0, 0, 0, 0)

\* Where fd_graphics does not draw what it says: the background of the 16 bit
\* back end has its octets swapped, the one of the 4 bit back end ends after
\* SizeOfSize octets, and the ILI9341 gets the whole height of a clipped bitmap.
Misdrawn(s, call) ==
    \/ /\ call.op = "background" /\ s.backend = "color_16bit"
       /\ LET w == color_16bit_rgb(s.background) IN w \div 256 # w % 256
    \/ call.op = "background" /\ s.backend = "gray_4bit"
    \/ call.op = "bitmap" /\ s.backend = "ili9341" /\ Clipped(s, call.area).height # call.bitmap.height

\* A drawing call changes the pixels in the clipped area to what was asked
\* for, and no other pixel (the set_pixel, blit and write_image operations).
DrawsTheArea(s, t, call) ==
    \A p \in Pixels :
        IF fd_graphics_area_contains_point(Touched(s, call), p[1], p[2])
        THEN Misdrawn(s, call) \/ Near(s, Seen(t, p[1], p[2]), Quantized(s, Wanted(s, call, p[1], p[2])))
        ELSE Seen(t, p[1], p[2]) = Seen(s, p[1], p[2])

\* The glyphs of a string with their areas.
Glyphs(call) ==
    LET glyph(c) == fd_graphics_font_get_glyph(Font, c)
        width(i) == IF glyph(call.string[i]) = <<>> THEN Font.advance ELSE glyph(call.string[i])[1].advance
        before(i) == FoldRange(LAMBDA sum, j : sum + width(j + 1), call.at[1], i - 1)
    IN {[bitmap |-> glyph(call.string[i])[1].bitmap,
         area |-> BitmapArea(before(i), call.at[2], glyph(call.string[i])[1].bitmap)] :
            i \in {j \in DOMAIN call.string : glyph(call.string[j]) # <<>>}}

\* A string changes only what its metrics say, and each pixel under one glyph
\* is drawn like that glyph.
DrawsTheString(s, t, call) ==
    LET metrics == fd_graphics_get_string_metrics_length(t, call.string)
        bounds == [metrics.bounds EXCEPT !.x = @ + call.at[1], !.y = @ + call.at[2]]
        drawable == {g \in Glyphs(call) : Fits(g.area)}
        over(x, y) == {g \in drawable : fd_graphics_area_contains_point(Clipped(s, g.area), x, y)}
    IN \A p \in Pixels :
          LET gs == over(p[1], p[2])
              bitmap(g) == [op |-> "bitmap", bitmap |-> g.bitmap, area |-> g.area]
          IN /\ gs = {} => Seen(t, p[1], p[2]) = Seen(s, p[1], p[2])
             /\ gs # {} => fd_graphics_area_contains_point(bounds, p[1], p[2])
             /\ \A g \in gs : \/ gs # {g} \/ Misdrawn(s, bitmap(g))
                              \/ Near(s, Seen(t, p[1], p[2]),
                                      Quantized(s, OfBitmap(s, p[1], p[2], g.bitmap, g.area)))

\* A window holds the octets in the order they were written, other cells stay.
DrawsTheWindow(s, t, call) ==
    LET unit == OctetsPerCell(s.panel)
        at(x, y) == unit * ((y - call.area.y) * call.area.width + x - call.area.x)
    IN \A p \in Pixels :
          Cell(t, p[1], p[2]) =
              IF fd_graphics_area_contains_point(call.area, p[1], p[2])
              THEN SubSeq(call.octets, at(p[1], p[2]) + 1, at(p[1], p[2]) + unit)
              ELSE Cell(s, p[1], p[2])

\* Nothing is left half done on the bus: the panel is not selected and no
\* part of a cell or of a command is pending.
BusAtRest(s) ==
    /\ ~s.panel.selected /\ s.panel.part = <<>>
    /\ Len(s.panel.args) >= ArgumentsOf(s.panel, s.panel.op) \/ s.panel.op = 0

\* Every call draws exactly what it was asked to draw (fd_graphics.c and its
\* back ends), through whatever was drawn, clipped and switched before it.
FaithfulDraw ==
    /\ BusAtRest(display')
    /\ CASE drawn'.op \in {"background", "area", "image", "bitmap"} -> DrawsTheArea(display, display', drawn')
         [] drawn'.op = "string" -> DrawsTheString(display, display', drawn')
         [] drawn'.op = "window" -> DrawsTheWindow(display, display', drawn')
         [] drawn'.op = "display" ->
              /\ display'.panel.ram = display.panel.ram /\ display'.frame = display.frame
              /\ display.backend \in {"ssd1327", "gc9a01", "ssd1331"} => display'.panel.on = drawn'.on
         [] OTHER -> TRUE

=============================================================================
